------------------------ MODULE RelayManager_proofs ------------------------
(***************************************************************************)
(* Theorems about the relay manager and its handlers, for every number of  *)
(* connections, services and namespaces and every limit: its types; a filed*)
(* sender can be selected; a client is never joined with another service's *)
(* stream; a pending slot is never orphaned; a retry is never given a      *)
(* registration the client has already given up; where one namespace is    *)
(* served, the stream count is exact; and while no two registrations share *)
(* an id, a client forwards to the registration it was given last.         *)
(*                                                                         *)
(* TypeOK is not inductive: a task carries the id of the handler that      *)
(* sends it, a retirement names the registration of the current attempt,   *)
(* and choosing a server reads the task at the head of the queue.          *)
(* HandlerInv says when those exist.  What the relay owes its clients rests*)
(* on the order of the manager's queue: a deregistration is sent after the *)
(* last subscribe of its handler, the manager serves them in that order,   *)
(* and a handler has one subscribe out, or one answer.                     *)
(***************************************************************************)
EXTENDS RelayManager, TLAPS, SequenceTheorems, FiniteSetTheorems

\* A handler has its id from the manager's Accept to its last deregistration,
\* a client that waits for a stream has an attempt, and the manager chooses a
\* server only for a subscribe.
HandlerInv ==
    /\ selecting => queue # <<>> /\ Head(queue).type = "Subcribe"
    /\ \A c \in Conns : phase[c] \notin {"new", "accepting", "closed"} => cid[c] # None
    /\ \A c \in Clients : phase[c] \in {"await_ack", "await_ready"} => attempt[c] # None

TypeInv == TypeOK /\ HandlerInv

-----------------------------------------------------------------------------
(* Lemmas about the helpers *)

\* Taking the head of a sequence leaves a sequence (Served, Take).
LEMMA HeadTail ==
    ASSUME NEW S, NEW s \in Seq(S), s # <<>>
    PROVE  Head(s) \in S /\ Tail(s) \in Seq(S)
BY HeadTailProperties

\* A message posted to a handler leaves well-typed channels (Post).
LEMMA PostType ==
    ASSUME NEW box \in [Conns -> Seq(ConnTask)], NEW c \in Conns, NEW m \in ConnTask
    PROVE  Post(box, c, m) \in [Conns -> Seq(ConnTask)]
BY DEF Post

\* deregister_conn keeps the table and the idle stack well-typed.
LEMMA RecycleType ==
    ASSUME NEW act \in [Ids -> Conns \cup {None}], NEW stack \in Seq(Ids), NEW i \in Ids
    PROVE  /\ DropSender(act, i) \in [Ids -> Conns \cup {None}]
           /\ Recycle(act, stack, i) \in Seq(Ids)
BY DEF DropSender, Recycle

\* sign_up_conn_sender keeps the table well-typed.
LEMMA SignUpType ==
    ASSUME NEW act \in [Ids -> Conns \cup {None}], NEW i \in Ids, NEW c \in Conns
    PROVE  SignUp(act, i, c) \in [Ids -> Conns \cup {None}]
BY DEF SignUp

\* get_conn_id keeps the idle stack and the next id within their bounds.
LEMMA GetConnIdType ==
    ASSUME TypeOK, NEW i \in Ids, GetConnId(i)
    PROVE  idle' \in Seq(Ids) /\ nextId' \in 0 .. MaxConnId
<1>1. CASE \E n \in 1 .. Len(idle) : idle' = SubSeq(idle, 1, n - 1) /\ UNCHANGED nextId
  <2>1. PICK n \in 1 .. Len(idle) : idle' = SubSeq(idle, 1, n - 1) /\ UNCHANGED nextId
    BY <1>1
  <2>2. Len(idle) \in Nat /\ \A j \in 1 .. n - 1 : idle[j] \in Ids
    BY DEF TypeOK
  <2>3. SubSeq(idle, 1, n - 1) \in Seq(Ids)
    BY <2>2, SubSeqProperties
  <2> QED BY <2>1, <2>3 DEF TypeOK
<1>2. CASE nextId < MaxConnId /\ idle' = <<>> /\ nextId' = nextId + 1
  BY <1>2, LimitAssumption DEF TypeOK
<1> QED BY <1>1, <1>2 DEF GetConnId

\* What the task at the head of the queue carries (ManagerTask).
LEMMA HeadTask ==
    ASSUME TypeOK, queue # <<>>
    PROVE  /\ Tail(queue) \in Seq(Task)
           /\ Head(queue) \in Task
           /\ Head(queue).type = "Accept" => Head(queue).conn \in Conns
           /\ Head(queue).type = "AcceptStream" => Head(queue).req \in Request
           /\ Head(queue).type = "Register" =>
                 Head(queue).conn \in Servers /\ Head(queue).id \in Ids
           /\ Head(queue).type \in {"DeRegisterServerConn", "RetireServerConn"} =>
                 Head(queue).key \in Keys /\ Head(queue).id \in Ids
           /\ Head(queue).type = "DeRegisterClientConn" =>
                 Head(queue).server \in Ids \cup {None} /\ Head(queue).id \in Ids
           /\ Head(queue).type = "Subcribe" =>
                 /\ Head(queue).conn \in Clients /\ Head(queue).id \in Ids
                 /\ Head(queue).excluded \subseteq Target
           /\ Head(queue).type = "StreamAck" =>
                 /\ Head(queue).server \in Ids /\ Head(queue).client \in Ids
                 /\ Head(queue).gen \in Nat
           /\ Head(queue).type = "Stream" =>
                 /\ Head(queue).srv \in Servers /\ Head(queue).sid \in Ids
                 /\ Head(queue).client \in Ids /\ Head(queue).gen \in Nat
<1>1. Tail(queue) \in Seq(Task) /\ Head(queue) \in Task
  BY HeadTail DEF TypeOK
<1> QED BY <1>1 DEF Task, Deregistration

\* What the message at the head of a channel carries (ConnTask).
LEMMA HeadMessage ==
    ASSUME TypeOK, NEW c \in Conns, inbox[c] # <<>>
    PROVE  /\ Tail(inbox[c]) \in Seq(ConnTask)
           /\ Head(inbox[c]) \in ConnTask
           /\ Head(inbox[c]).type = "RegisterResp" => Head(inbox[c]).gen \in Nat
           /\ Head(inbox[c]).type = "StreamReq" =>
                 Head(inbox[c]).client \in Ids /\ Head(inbox[c]).gen \in Nat
           /\ Head(inbox[c]).type \in {"SubcribeResp", "StreamAck"} =>
                 Head(inbox[c]).server \in Ids /\ Head(inbox[c]).gen \in Nat
           /\ Head(inbox[c]).type = "StreamResp" =>
                 /\ Head(inbox[c]).srv \in Servers /\ Head(inbox[c]).sid \in Ids
                 /\ Head(inbox[c]).gen \in Nat
<1>1. Tail(inbox[c]) \in Seq(ConnTask) /\ Head(inbox[c]) \in ConnTask
  BY HeadTail DEF TypeOK
<1> QED BY <1>1 DEF ConnTask

-----------------------------------------------------------------------------
(* The manager's tasks preserve the types *)

LEMMA AcceptType == TypeInv /\ Accept => TypeInv'
<1> SUFFICES ASSUME TypeInv, Accept PROVE TypeInv'
  OBVIOUS
<1>1. TypeOK /\ queue # <<>> /\ Head(queue).conn \in Conns /\ queue' \in Seq(Task)
  BY HeadTask DEF TypeInv, Accept, HeadIs, Served
<1>2. PICK i \in Ids : GetConnId(i) /\ cid' = [cid EXCEPT ![Head(queue).conn] = i]
  BY DEF Accept
<1>3. idle' \in Seq(Ids) /\ nextId' \in 0 .. MaxConnId
  BY <1>1, <1>2, GetConnIdType
<1>4. TypeOK'
  BY <1>1, <1>2, <1>3 DEF TypeOK, Accept, Served, localVars, ServerPhases, ClientPhases
<1>5. HandlerInv'
  BY <1>1, <1>2, ConnAssumption
  DEF TypeInv, TypeOK, HandlerInv, Accept, Served, HeadIs, localVars, Ids
<1> QED BY <1>4, <1>5 DEF TypeInv

LEMMA AcceptStreamType == TypeInv /\ AcceptStream => TypeInv'
<1> SUFFICES ASSUME TypeInv, AcceptStream PROVE TypeInv'
  OBVIOUS
<1> DEFINE q == Head(queue).req
<1>1. TypeOK /\ queue # <<>> /\ q \in Request /\ queue' \in Seq(Task)
  BY HeadTask DEF TypeInv, AcceptStream, HeadIs, Served
<1>2. PICK i \in Ids :
        /\ GetConnId(i)
        /\ dialled' = dialled \cup
             {[srv |-> q.srv, client |-> q.client, gen |-> q.gen, sid |-> i]}
  BY DEF AcceptStream
<1>3. idle' \in Seq(Ids) /\ nextId' \in 0 .. MaxConnId
  BY <1>1, <1>2, GetConnIdType
<1>4. dialled' \subseteq StreamConn
  BY <1>1, <1>2 DEF TypeOK, Request, StreamConn
<1>5. TypeOK'
  BY <1>1, <1>3, <1>4 DEF TypeOK, AcceptStream, Served, handlerVars
<1>6. HandlerInv'
  BY DEF TypeInv, HandlerInv, AcceptStream, Served, HeadIs, handlerVars
<1> QED BY <1>5, <1>6 DEF TypeInv

LEMMA RegisterType == TypeInv /\ (RegisterFail \/ Register) => TypeInv'
<1> SUFFICES ASSUME TypeInv, RegisterFail \/ Register PROVE TypeInv'
  OBVIOUS
<1> DEFINE s == Head(queue).conn
           i == Head(queue).id
           r == [key |-> KeyOf[s], id |-> i, gen |-> nextGen, datagram |-> s \in Datagram]
<1>1. /\ TypeOK /\ queue # <<>> /\ s \in Servers /\ i \in Ids /\ queue' \in Seq(Task)
      /\ selecting' = FALSE
  BY HeadTask DEF TypeInv, RegisterFail, Register, HeadIs, Served
<1>2. s \in Conns /\ KeyOf[s] \in Keys
  BY <1>1, ConnAssumption DEF Conns
<1>3. CASE RegisterFail
  <2>1. inbox' \in [Conns -> Seq(ConnTask)]
    BY <1>1, <1>2, <1>3, PostType DEF RegisterFail, TypeOK, ConnTask
  <2>2. TypeOK'
    BY <1>1, <1>3, <2>1 DEF TypeOK, RegisterFail, Served, managerVars, handlerVars, localVars
  <2> QED BY <1>1, <1>3, <2>2 DEF TypeInv, HandlerInv, RegisterFail, handlerVars
<1>4. CASE Register
  <2>1. inbox' \in [Conns -> Seq(ConnTask)]
    BY <1>1, <1>2, <1>4, PostType DEF Register, TypeOK, ConnTask
  <2>2. active' \in [Ids -> Conns \cup {None}]
    BY <1>1, <1>2, <1>4, SignUpType DEF Register, TypeOK
  <2>3. r \in Registration
    BY <1>1, <1>2 DEF Registration, TypeOK
  <2>4. registry' \subseteq Registration /\ nextGen' \in Nat \ {0}
    BY <1>1, <1>4, <2>3 DEF Register, TypeOK
  <2>5. TypeOK'
    BY <1>1, <1>4, <2>1, <2>2, <2>4 DEF TypeOK, Register, Served, handlerVars, localVars
  <2> QED BY <1>1, <1>4, <2>5 DEF TypeInv, HandlerInv, Register, handlerVars
<1> QED BY <1>3, <1>4

\* Removing a registration and its connection id keeps the types.
LEMMA UnregisterType ==
    ASSUME TypeOK, NEW k \in Keys, NEW i \in Ids, Unregister(k, i)
    PROVE  /\ active' \in [Ids -> Conns \cup {None}]
           /\ idle' \in Seq(Ids)
           /\ registry' \subseteq Registration
           /\ UNCHANGED <<nextId, nextGen, pending, nsCount>>
<1>1. active \in [Ids -> Conns \cup {None}] /\ idle \in Seq(Ids)
  BY DEF TypeOK
<1>2. DropSender(active, i) \in [Ids -> Conns \cup {None}]
  BY <1>1, RecycleType
<1>3. Recycle(active, idle, i) \in Seq(Ids)
  BY <1>1, RecycleType
<1>4. RemoveServerConn(k, i) \subseteq Registration
  BY DEF TypeOK, RemoveServerConn
<1> QED BY <1>2, <1>3, <1>4 DEF Unregister

LEMMA UnregisterTaskType == TypeInv /\ (DeRegisterServerConn \/ RetireServerConn) => TypeInv'
<1> SUFFICES ASSUME TypeInv, DeRegisterServerConn \/ RetireServerConn PROVE TypeInv'
  OBVIOUS
<1> DEFINE t == Head(queue)
<1>1. /\ TypeOK /\ t.key \in Keys /\ t.id \in Ids /\ queue' \in Seq(Task) /\ selecting' = FALSE
      /\ Unregister(t.key, t.id)
  BY HeadTask DEF TypeInv, DeRegisterServerConn, RetireServerConn, HeadIs, Served
<1>2. /\ active' \in [Ids -> Conns \cup {None}] /\ idle' \in Seq(Ids)
      /\ registry' \subseteq Registration /\ UNCHANGED <<nextId, nextGen, pending, nsCount>>
  BY <1>1, UnregisterType
<1>3. inbox' \in [Conns -> Seq(ConnTask)]
  <2>1. CASE active[t.id] = None \/ DeRegisterServerConn
    BY <2>1 DEF DeRegisterServerConn, RetireServerConn, TypeInv, TypeOK
  <2>2. CASE RetireServerConn /\ active[t.id] # None
    <3>1. active[t.id] \in Conns /\ [type |-> "Retire"] \in ConnTask
      BY <1>1, <2>2 DEF TypeOK, ConnTask
    <3> QED BY <1>1, <2>2, <3>1, PostType DEF RetireServerConn, TypeOK
  <2> QED BY <2>1, <2>2
<1>4. UNCHANGED <<deferred, phase, handlerVars, localVars>>
  BY DEF DeRegisterServerConn, RetireServerConn
<1>5. TypeOK'
  BY <1>1, <1>2, <1>3, <1>4 DEF TypeOK, handlerVars, localVars
<1>6. HandlerInv'
  BY <1>1, <1>4 DEF TypeInv, HandlerInv, handlerVars
<1> QED BY <1>5, <1>6 DEF TypeInv

LEMMA DeRegisterClientConnType == TypeInv /\ DeRegisterClientConn => TypeInv'
<1> SUFFICES ASSUME TypeInv, DeRegisterClientConn PROVE TypeInv'
  OBVIOUS
<1> DEFINE t    == Head(queue)
           act  == IF t.server = None THEN active ELSE DropSender(active, t.server)
           free == IF t.server = None THEN idle ELSE Recycle(active, idle, t.server)
<1>1. /\ TypeOK /\ t.server \in Ids \cup {None} /\ t.id \in Ids /\ queue' \in Seq(Task)
      /\ selecting' = FALSE
  BY HeadTask DEF TypeInv, DeRegisterClientConn, HeadIs, Served
<1>2. active \in [Ids -> Conns \cup {None}] /\ idle \in Seq(Ids)
  BY <1>1 DEF TypeOK
<1>3. act \in [Ids -> Conns \cup {None}] /\ free \in Seq(Ids)
  <2>1. CASE t.server = None
    BY <1>2, <2>1
  <2>2. CASE t.server # None
    BY <1>1, <1>2, <2>2, RecycleType
  <2> QED BY <2>1, <2>2
<1>4. DropSender(act, t.id) \in [Ids -> Conns \cup {None}] /\ Recycle(act, free, t.id) \in Seq(Ids)
  BY <1>1, <1>3, RecycleType
<1>5. active' \in [Ids -> Conns \cup {None}] /\ idle' \in Seq(Ids)
  BY <1>4 DEF DeRegisterClientConn
<1>6. nsCount' \in [Namespaces -> Nat]
  <2>1. \A n \in Namespaces : CountDown(n) \in [Namespaces -> Nat]
    BY <1>1 DEF TypeOK, CountDown
  <2>2. \A p \in PendingOf(t.id) : NamespaceOf[p.key] \in Namespaces
    BY <1>1, ConnAssumption DEF TypeOK, PendingOf, Pending
  <2> QED BY <1>1, <2>1, <2>2 DEF DeRegisterClientConn, TypeOK
<1>7. pending' \subseteq Pending
  BY <1>1 DEF DeRegisterClientConn, TypeOK
<1>8. TypeOK' /\ HandlerInv'
  BY <1>1, <1>5, <1>6, <1>7
  DEF TypeInv, TypeOK, HandlerInv, DeRegisterClientConn, handlerVars, localVars
<1> QED BY <1>8 DEF TypeInv

\* Both answers of the peer reach whoever's sender is filed, or nobody.
LEMMA ToClientType ==
    ASSUME TypeOK, NEW i \in Ids, NEW m \in ConnTask, ToClient(i, m)
    PROVE  inbox' \in [Conns -> Seq(ConnTask)]
<1>1. CASE active[i] = None
  BY <1>1 DEF ToClient, TypeOK
<1>2. CASE active[i] # None
  <2>1. active[i] \in Conns
    BY <1>2 DEF TypeOK
  <2> QED BY <1>2, <2>1, PostType DEF ToClient, TypeOK
<1> QED BY <1>1, <1>2

LEMMA StreamTaskType == TypeInv /\ (StreamAck \/ Stream) => TypeInv'
<1> SUFFICES ASSUME TypeInv, StreamAck \/ Stream PROVE TypeInv'
  OBVIOUS
<1> DEFINE t == Head(queue)
<1>1. TypeOK /\ queue # <<>> /\ queue' \in Seq(Task) /\ selecting' = FALSE
  BY HeadTask DEF TypeInv, StreamAck, Stream, HeadIs, Served
<1>2. CASE StreamAck
  <2>1. t.server \in Ids /\ t.client \in Ids /\ t.gen \in Nat
    BY <1>1, <1>2, HeadTask DEF StreamAck, HeadIs
  <2>2. [type |-> "StreamAck", server |-> t.server, gen |-> t.gen] \in ConnTask
    BY <2>1 DEF ConnTask
  <2>3. inbox' \in [Conns -> Seq(ConnTask)]
    BY <1>1, <1>2, <2>1, <2>2, ToClientType DEF StreamAck, TypeOK
  <2> QED BY <1>1, <1>2, <2>3
        DEF TypeInv, TypeOK, HandlerInv, StreamAck, managerVars, handlerVars, localVars
<1>3. CASE Stream
  <2>1. t.srv \in Servers /\ t.sid \in Ids /\ t.client \in Ids
    BY <1>1, <1>3, HeadTask DEF Stream, HeadIs
  <2>2. CASE UNCHANGED inbox
    BY <1>1, <1>3, <2>2
    DEF TypeInv, TypeOK, HandlerInv, Stream, managerVars, handlerVars, localVars
  <2>3. CASE \E p \in PendingOf(t.client) :
               ToClient(t.client, [type |-> "StreamResp", srv |-> t.srv, sid |-> t.sid,
                                   gen |-> p.gen])
    <3>1. PICK p \in PendingOf(t.client) :
               ToClient(t.client, [type |-> "StreamResp", srv |-> t.srv, sid |-> t.sid,
                                   gen |-> p.gen])
      BY <2>3
    <3>2. p.gen \in Nat
      BY <1>1 DEF PendingOf, TypeOK, Pending
    <3>3. [type |-> "StreamResp", srv |-> t.srv, sid |-> t.sid, gen |-> p.gen] \in ConnTask
      BY <2>1, <3>2 DEF ConnTask
    <3>4. inbox' \in [Conns -> Seq(ConnTask)]
      BY <1>1, <2>1, <3>1, <3>3, ToClientType
    <3> QED BY <1>1, <1>3, <3>4
          DEF TypeInv, TypeOK, HandlerInv, Stream, managerVars, handlerVars, localVars
  <2> QED BY <1>3, <2>2, <2>3 DEF Stream
<1> QED BY <1>2, <1>3

\* A subscribe that is answered without a server.
LEMMA AnswerType ==
    ASSUME TypeInv, queue # <<>>, Head(queue).type = "Subcribe",
           NEW m \in ConnTask, Answer(m)
    PROVE  TypeInv'
<1>1. TypeOK /\ Head(queue).conn \in Conns /\ queue' \in Seq(Task) /\ selecting' = FALSE
  BY HeadTask DEF TypeInv, Answer, Served, Conns
<1>2. inbox' \in [Conns -> Seq(ConnTask)]
  BY <1>1, PostType DEF Answer, TypeOK
<1>3. UNCHANGED <<deferred, managerVars, phase, handlerVars, localVars>>
  BY DEF Answer
<1>4. TypeOK'
  BY <1>1, <1>2, <1>3 DEF TypeOK, managerVars, handlerVars, localVars
<1>5. HandlerInv'
  BY <1>1, <1>3 DEF TypeInv, HandlerInv, handlerVars
<1> QED BY <1>4, <1>5 DEF TypeInv

LEMMA SubcribeAnswerType ==
    TypeInv /\ (SubcribeOverLimit \/ SubcribeMissing \/ SubcribeOverRate \/ SelectNone) => TypeInv'
<1> SUFFICES ASSUME TypeInv,
                    SubcribeOverLimit \/ SubcribeMissing \/ SubcribeOverRate \/ SelectNone
             PROVE  TypeInv'
  OBVIOUS
<1>1. queue # <<>> /\ Head(queue).type = "Subcribe"
  BY DEF TypeInv, HandlerInv, SubcribeOverLimit, SubcribeMissing, SubcribeOverRate,
         SubcribeAdmissible, SelectNone, HeadIs
<1>2. /\ [type |-> "SubcribeFailed", code |-> "limit"] \in ConnTask
      /\ [type |-> "SubcribeFailed", code |-> "rate"] \in ConnTask
      /\ Unavailable(Head(queue).excluded) \in ConnTask
  BY DEF ConnTask, Unavailable
<1> QED BY <1>1, <1>2, AnswerType
      DEF SubcribeOverLimit, SubcribeMissing, SubcribeOverRate, SelectNone

LEMMA SubcribeAdmitType == TypeInv /\ SubcribeAdmit => TypeInv'
<1> SUFFICES ASSUME TypeInv, SubcribeAdmit PROVE TypeInv'
  OBVIOUS
<1>1. /\ queue # <<>> /\ Head(queue).type = "Subcribe" /\ selecting' = TRUE
      /\ UNCHANGED <<queue, deferred, managerVars, phase, inbox, handlerVars, localVars>>
  BY DEF SubcribeAdmit, SubcribeAdmissible, HeadIs
<1>2. TypeOK'
  BY <1>1 DEF TypeInv, TypeOK, managerVars, handlerVars, localVars
<1>3. HandlerInv'
  BY <1>1 DEF TypeInv, HandlerInv, handlerVars
<1> QED BY <1>2, <1>3 DEF TypeInv

LEMMA SelectFailedType == TypeInv /\ SelectFailed => TypeInv'
<1> SUFFICES ASSUME TypeInv, SelectFailed PROVE TypeInv'
  OBVIOUS
<1>1. PICK r \in registry : Unregister(r.key, r.id)
  BY DEF SelectFailed
<1>2. TypeOK /\ r.key \in Keys /\ r.id \in Ids
  BY DEF TypeInv, TypeOK, Registration
<1>3. /\ active' \in [Ids -> Conns \cup {None}] /\ idle' \in Seq(Ids)
      /\ registry' \subseteq Registration /\ UNCHANGED <<nextId, nextGen, pending, nsCount>>
  BY <1>1, <1>2, UnregisterType
<1>4. UNCHANGED <<queue, deferred, selecting, phase, inbox, handlerVars, localVars>>
  BY DEF SelectFailed
<1>5. TypeOK'
  BY <1>2, <1>3, <1>4 DEF TypeOK, handlerVars, localVars
<1>6. HandlerInv'
  BY <1>4 DEF TypeInv, HandlerInv, handlerVars
<1> QED BY <1>5, <1>6 DEF TypeInv

LEMMA SelectOkType == TypeInv /\ SelectOk => TypeInv'
<1> SUFFICES ASSUME TypeInv, SelectOk PROVE TypeInv'
  OBVIOUS
<1> DEFINE c   == Head(queue).conn
           i   == Head(queue).id
           act == IF active[i] = None THEN SignUp(active, i, c) ELSE active
           req(r) == [type |-> "StreamReq", client |-> i, gen |-> r.gen]
           rsp(r) == [type |-> "SubcribeResp", server |-> r.id, gen |-> r.gen]
           slot(r) == [client |-> i, server |-> r.id, gen |-> r.gen, key |-> r.key]
<1>1. /\ TypeOK /\ c \in Clients /\ i \in Ids /\ queue' \in Seq(Task) /\ selecting' = FALSE
  BY HeadTask DEF TypeInv, HandlerInv, SelectOk, Served
<1>2. PICK r \in registry :
        /\ active[r.id] # None
        /\ inbox' = Post(Post(inbox, active[r.id], req(r)), c, rsp(r))
        /\ active' = IF Receiving(c) THEN act ELSE DropSender(act, i)
        /\ idle' = IF Receiving(c) THEN idle ELSE Recycle(act, idle, i)
        /\ pending' = (pending \ PendingOf(i)) \cup {slot(r)}
        /\ nsCount' = CountUp(i, NamespaceOf[r.key])
  BY DEF SelectOk
<1>3. r.key \in Keys /\ r.id \in Ids /\ r.gen \in Nat /\ NamespaceOf[r.key] \in Namespaces
  BY <1>1, ConnAssumption DEF TypeOK, Registration
<1>4. active \in [Ids -> Conns \cup {None}] /\ idle \in Seq(Ids) /\ c \in Conns
      /\ active[r.id] \in Conns
  BY <1>1, <1>2, <1>3 DEF TypeOK, Conns
<1>5. inbox' \in [Conns -> Seq(ConnTask)]
  <2>1. req(r) \in ConnTask /\ rsp(r) \in ConnTask
    BY <1>1, <1>3 DEF ConnTask
  <2>2. Post(inbox, active[r.id], req(r)) \in [Conns -> Seq(ConnTask)]
    BY <1>1, <1>4, <2>1, PostType DEF TypeOK
  <2> QED BY <1>2, <1>4, <2>1, <2>2, PostType
<1>6. act \in [Ids -> Conns \cup {None}]
  BY <1>1, <1>4, SignUpType
<1>7. DropSender(act, i) \in [Ids -> Conns \cup {None}] /\ Recycle(act, idle, i) \in Seq(Ids)
  BY <1>1, <1>4, <1>6, RecycleType
<1>8. active' \in [Ids -> Conns \cup {None}] /\ idle' \in Seq(Ids)
  BY <1>2, <1>4, <1>6, <1>7
<1>9. pending' \subseteq Pending
  BY <1>1, <1>2, <1>3 DEF TypeOK, Pending
<1>10. nsCount' \in [Namespaces -> Nat]
  BY <1>1, <1>2, <1>3 DEF TypeOK, CountUp
<1>11. UNCHANGED <<deferred, nextId, nextGen, registry, phase, handlerVars, localVars>>
  BY DEF SelectOk
<1>12. TypeOK'
  BY <1>1, <1>5, <1>8, <1>9, <1>10, <1>11 DEF TypeOK, handlerVars, localVars
<1>13. HandlerInv'
  BY <1>1, <1>11 DEF TypeInv, HandlerInv, handlerVars
<1> QED BY <1>12, <1>13 DEF TypeInv

\* Every step of the manager task preserves the types.
LEMMA ManagerType == TypeInv /\ Manager => TypeInv'
BY AcceptType, AcceptStreamType, RegisterType, UnregisterTaskType, DeRegisterClientConnType,
   StreamTaskType, SubcribeAnswerType, SubcribeAdmitType, SelectFailedType, SelectOkType
DEF Manager

-----------------------------------------------------------------------------
(* The handlers' steps preserve the types *)

\* A send keeps the queue well-typed and the task at its head.
LEMMA SendType ==
    ASSUME TypeInv, NEW t \in Task, queue' = Append(queue, t), UNCHANGED selecting
    PROVE  /\ queue' \in Seq(Task)
           /\ selecting' => queue' # <<>> /\ Head(queue').type = "Subcribe"
<1>1. queue \in Seq(Task) /\ queue' \in Seq(Task)
  BY DEF TypeInv, TypeOK
<1>2. queue # <<>> => queue' # <<>> /\ Head(queue') = Head(queue)
  BY <1>1
<1> QED BY <1>1, <1>2 DEF TypeInv, HandlerInv

\* What a handler's guard will send (deregister_task).
LEMMA DeregisterTaskType ==
    ASSUME TypeInv, NEW c \in Conns, phase[c] \notin {"new", "accepting", "closed"}
    PROVE  DeregisterTask(c) \in Deregistration
<1>1. cid[c] \in Ids
  BY DEF TypeInv, TypeOK, HandlerInv
<1>2. CASE c \in Servers
  BY <1>1, <1>2, ConnAssumption DEF DeregisterTask, Deregistration
<1>3. CASE c \notin Servers
  <2>1. c \in Clients /\ sid[c] \in Ids \cup {None}
    BY <1>3 DEF Conns, TypeInv, TypeOK
  <2> QED BY <1>1, <1>3, <2>1 DEF DeregisterTask, Deregistration
<1> QED BY <1>2, <1>3

LEMMA ConnectType == ASSUME TypeInv, NEW c \in Conns, Connect(c) PROVE TypeInv'
<1>1. [type |-> "Accept", conn |-> c] \in Task
  BY DEF Task
<1>2. /\ queue' = Append(queue, [type |-> "Accept", conn |-> c])
      /\ phase' = [phase EXCEPT ![c] = "accepting"]
      /\ UNCHANGED <<deferred, selecting, managerVars, inbox, handlerVars, localVars>>
  BY DEF Connect, Send, Goto
<1>3. queue' \in Seq(Task) /\ (selecting' => queue' # <<>> /\ Head(queue').type = "Subcribe")
  BY <1>1, <1>2, SendType
<1>4. TypeOK'
  BY <1>2, <1>3 DEF TypeInv, TypeOK, managerVars, handlerVars, localVars, ServerPhases
<1>5. HandlerInv'
  BY <1>2, <1>3 DEF TypeInv, TypeOK, HandlerInv, handlerVars
<1> QED BY <1>4, <1>5 DEF TypeInv

\* A handler that ends keeps neither its id nor its stream's.
LEMMA ExitType ==
    ASSUME TypeOK, NEW c \in Conns, Exit(c)
    PROVE  /\ cid' \in [Conns -> Ids \cup {None}] /\ sid' \in [Clients -> Ids \cup {None}]
           /\ \A x \in Conns : x # c => cid'[x] = cid[x]
BY DEF Exit, TypeOK

LEMMA RejectType == ASSUME TypeInv, NEW c \in Conns, Reject(c) PROVE TypeInv'
<1>1. /\ phase' = [phase EXCEPT ![c] = "closed"]
      /\ UNCHANGED <<queue, deferred, selecting, managerVars, inbox, gen, attempt, excluded,
                     peer, localVars>>
      /\ TypeOK
  BY DEF Reject, Goto, TypeInv
<1>2. /\ cid' \in [Conns -> Ids \cup {None}] /\ sid' \in [Clients -> Ids \cup {None}]
      /\ \A x \in Conns : x # c => cid'[x] = cid[x]
  BY <1>1, ExitType DEF Reject
<1>3. TypeOK'
  BY <1>1, <1>2 DEF TypeOK, managerVars, localVars, ServerPhases
<1>4. HandlerInv'
  BY <1>1, <1>2 DEF TypeInv, TypeOK, HandlerInv
<1> QED BY <1>3, <1>4 DEF TypeInv

LEMMA DeregisterType == ASSUME TypeInv, NEW c \in Conns, Deregister(c) PROVE TypeInv'
<1>1. /\ queue' = Append(queue, DeregisterTask(c))
      /\ phase' = [phase EXCEPT ![c] = "closed"]
      /\ UNCHANGED <<deferred, selecting, managerVars, inbox, gen, attempt, excluded, peer,
                     localVars>>
      /\ TypeOK
  BY DEF Deregister, Send, Goto, TypeInv
<1>2. DeregisterTask(c) \in Task
  BY DeregisterTaskType DEF Deregister, Task
<1>3. queue' \in Seq(Task) /\ (selecting' => queue' # <<>> /\ Head(queue').type = "Subcribe")
  BY <1>1, <1>2, SendType
<1>4. /\ cid' \in [Conns -> Ids \cup {None}] /\ sid' \in [Clients -> Ids \cup {None}]
      /\ \A x \in Conns : x # c => cid'[x] = cid[x]
  BY <1>1, ExitType DEF Deregister
<1>5. TypeOK'
  BY <1>1, <1>3, <1>4 DEF TypeOK, managerVars, localVars, ServerPhases
<1>6. HandlerInv'
  BY <1>1, <1>3, <1>4 DEF TypeInv, TypeOK, HandlerInv
<1> QED BY <1>5, <1>6 DEF TypeInv

\* What a handler was waiting for can be dropped in any phase.
LEMMA ForgetType ==
    ASSUME TypeOK, NEW c \in Conns, Forget(c)
    PROVE  /\ inbox' \in [Conns -> Seq(ConnTask)]
           /\ attempt' \in [Clients -> Target \cup {None}]
           /\ excluded' \in [Clients -> SUBSET Target]
           /\ peer' \in [Clients -> Servers \cup {None}]
           /\ toAck' \subseteq Request
           /\ \A x \in Clients : x # c => attempt'[x] = attempt[x]
           /\ UNCHANGED <<gen, toDial, dialled>>
BY DEF Forget, TypeOK

LEMMA CancelType == ASSUME TypeInv, NEW c \in Conns, Cancel(c) PROVE TypeInv'
<1>1. /\ phase' = [phase EXCEPT ![c] = "closed"]
      /\ UNCHANGED <<selecting, managerVars>>
      /\ TypeOK
  BY DEF Cancel, Goto, TypeInv
<1>2. DeregisterTask(c) \in Deregistration /\ Deregistration \subseteq Task
  BY DeregisterTaskType DEF Cancel, Guarded, Task
<1>3. /\ queue' \in Seq(Task) /\ deferred' \subseteq Deregistration
      /\ selecting' => queue' # <<>> /\ Head(queue').type = "Subcribe"
  <2>1. CASE queue' = Append(queue, DeregisterTask(c)) /\ UNCHANGED deferred
    BY <1>1, <1>2, <2>1, SendType DEF TypeOK
  <2>2. CASE deferred' = deferred \cup {DeregisterTask(c)} /\ UNCHANGED queue
    BY <1>1, <1>2, <2>2 DEF TypeInv, TypeOK, HandlerInv
  <2> QED BY <2>1, <2>2 DEF Cancel
<1>4. /\ cid' \in [Conns -> Ids \cup {None}] /\ sid' \in [Clients -> Ids \cup {None}]
      /\ \A x \in Conns : x # c => cid'[x] = cid[x]
  BY <1>1, ExitType DEF Cancel
<1>5. /\ inbox' \in [Conns -> Seq(ConnTask)] /\ attempt' \in [Clients -> Target \cup {None}]
      /\ excluded' \in [Clients -> SUBSET Target] /\ peer' \in [Clients -> Servers \cup {None}]
      /\ toAck' \subseteq Request /\ \A x \in Clients : x # c => attempt'[x] = attempt[x]
      /\ UNCHANGED <<gen, toDial, dialled>>
  BY <1>1, ForgetType DEF Cancel
<1>6. TypeOK'
  BY <1>1, <1>3, <1>4, <1>5 DEF TypeOK, managerVars, ServerPhases
<1>7. HandlerInv'
  BY <1>1, <1>3, <1>4, <1>5 DEF TypeInv, TypeOK, HandlerInv, Conns
<1> QED BY <1>6, <1>7 DEF TypeInv

LEMMA SendDeferredType == TypeInv /\ SendDeferred => TypeInv'
<1> SUFFICES ASSUME TypeInv, SendDeferred PROVE TypeInv'
  OBVIOUS
<1>1. PICK t \in deferred : queue' = Append(queue, t) /\ deferred' = deferred \ {t}
  BY DEF SendDeferred, Send
<1>2. t \in Task /\ UNCHANGED <<selecting, managerVars, phase, inbox, handlerVars, localVars>>
  BY DEF SendDeferred, TypeInv, TypeOK, Task
<1>3. queue' \in Seq(Task) /\ (selecting' => queue' # <<>> /\ Head(queue').type = "Subcribe")
  BY <1>1, <1>2, SendType
<1>4. TypeOK'
  BY <1>1, <1>2, <1>3 DEF TypeInv, TypeOK, managerVars, handlerVars, localVars
<1>5. HandlerInv'
  BY <1>2, <1>3 DEF TypeInv, HandlerInv, handlerVars
<1> QED BY <1>4, <1>5 DEF TypeInv

\* A running handler may end at any time.
LEMMA CloseType ==
    ASSUME TypeInv, NEW c \in Conns, phase[c] \notin {"new", "accepting", "closed"},
           Close(c), UNCHANGED <<queue, deferred, selecting, managerVars>>
    PROVE  TypeInv'
<1>1. phase' = [phase EXCEPT ![c] = "closing"] /\ UNCHANGED <<cid, sid>> /\ TypeOK
  BY DEF Close, Goto, TypeInv
<1>2. /\ inbox' \in [Conns -> Seq(ConnTask)] /\ attempt' \in [Clients -> Target \cup {None}]
      /\ excluded' \in [Clients -> SUBSET Target] /\ peer' \in [Clients -> Servers \cup {None}]
      /\ toAck' \subseteq Request /\ \A x \in Clients : x # c => attempt'[x] = attempt[x]
      /\ UNCHANGED <<gen, toDial, dialled>>
  BY <1>1, ForgetType DEF Close
<1>3. TypeOK'
  BY <1>1, <1>2 DEF TypeOK, managerVars, ServerPhases
<1>4. HandlerInv'
  BY <1>1, <1>2 DEF TypeInv, TypeOK, HandlerInv, Conns
<1> QED BY <1>3, <1>4 DEF TypeInv

LEMMA TakeType ==
    ASSUME TypeOK, NEW c \in Conns, inbox[c] # <<>>, Take(c)
    PROVE  inbox' \in [Conns -> Seq(ConnTask)]
BY HeadMessage DEF Take, TypeOK

\* The end of a server handler, whatever brought it about.
LEMMA ServerEndType ==
    ASSUME TypeInv, NEW s \in Servers,
           RecvRegisterFailed(s) \/ LoseSender(s) \/ RecvRetire(s) \/ LoseControl(s)
    PROVE  TypeInv'
<1>1. /\ s \in Conns /\ phase[s] \notin {"new", "accepting", "closed"}
      /\ Close(s) /\ UNCHANGED <<queue, deferred, selecting, managerVars>>
  BY DEF RecvRegisterFailed, LoseSender, RecvRetire, LoseControl, Conns
<1> QED BY <1>1, CloseType

LEMMA ServerStepType == ASSUME TypeInv, NEW s \in Servers, ServerStep(s) PROVE TypeInv'
<1>1. TypeOK /\ s \in Conns
  BY DEF TypeInv, Conns
<1>2. CASE SendRegister(s)
  <2>1. [type |-> "Register", conn |-> s, id |-> cid[s]] \in Task
    BY <1>1, <1>2 DEF SendRegister, TypeInv, TypeOK, HandlerInv, Task
  <2>2. /\ queue' = Append(queue, [type |-> "Register", conn |-> s, id |-> cid[s]])
        /\ phase[s] = "accepted" /\ phase' = [phase EXCEPT ![s] = "registering"]
        /\ UNCHANGED <<deferred, selecting, managerVars, inbox, handlerVars, localVars>>
    BY <1>2 DEF SendRegister, Send, Goto
  <2>3. queue' \in Seq(Task) /\ (selecting' => queue' # <<>> /\ Head(queue').type = "Subcribe")
    BY <2>1, <2>2, SendType
  <2>4. TypeOK'
    BY <1>1, <2>2, <2>3 DEF TypeOK, managerVars, handlerVars, localVars, ServerPhases
  <2>5. HandlerInv'
    BY <1>1, <2>2, <2>3 DEF TypeInv, TypeOK, HandlerInv, handlerVars
  <2> QED BY <2>4, <2>5 DEF TypeInv
<1>3. CASE RecvRegistered(s)
  <2>1. /\ inbox[s] # <<>> /\ Head(inbox[s]).type = "RegisterResp"
        /\ gen' = [gen EXCEPT ![s] = Head(inbox[s]).gen] /\ Take(s)
        /\ phase[s] = "registering" /\ phase' = [phase EXCEPT ![s] = "live"]
        /\ UNCHANGED <<queue, deferred, selecting, managerVars, cid, attempt, excluded, peer,
                       sid, localVars>>
    BY <1>3 DEF RecvRegistered, Received, Goto
  <2>2. Head(inbox[s]).gen \in Nat /\ inbox' \in [Conns -> Seq(ConnTask)]
    BY <1>1, <2>1, HeadMessage, TakeType
  <2>3. TypeOK'
    BY <1>1, <2>1, <2>2 DEF TypeOK, managerVars, localVars, ServerPhases
  <2>4. HandlerInv'
    BY <1>1, <2>1 DEF TypeInv, TypeOK, HandlerInv
  <2> QED BY <2>3, <2>4 DEF TypeInv
<1>4. CASE ForwardStreamReq(s)
  <2> DEFINE m == Head(inbox[s])
             q == [srv |-> s, client |-> m.client, gen |-> IF s \in Legacy THEN 0 ELSE m.gen]
  <2>1. /\ inbox[s] # <<>> /\ m.type = "StreamReq" /\ Take(s)
        /\ toAck' = toAck \cup {q} /\ toDial' = toDial \cup {q}
        /\ UNCHANGED <<queue, deferred, selecting, managerVars, phase, handlerVars, dialled>>
    BY <1>4 DEF ForwardStreamReq, Received
  <2>2. q \in Request /\ inbox' \in [Conns -> Seq(ConnTask)]
    BY <1>1, <2>1, HeadMessage, TakeType DEF Request
  <2>3. TypeOK'
    BY <1>1, <2>1, <2>2 DEF TypeOK, managerVars, handlerVars
  <2>4. HandlerInv'
    BY <2>1 DEF TypeInv, HandlerInv, handlerVars
  <2> QED BY <2>3, <2>4 DEF TypeInv
<1>5. CASE IgnoreUnexpected(s)
  <2>1. /\ inbox[s] # <<>> /\ Take(s)
        /\ UNCHANGED <<queue, deferred, selecting, managerVars, phase, handlerVars, localVars>>
    BY <1>5 DEF IgnoreUnexpected
  <2>2. TypeOK'
    BY <1>1, <2>1, TakeType DEF TypeOK, managerVars, handlerVars, localVars
  <2>3. HandlerInv'
    BY <2>1 DEF TypeInv, HandlerInv, handlerVars
  <2> QED BY <2>2, <2>3 DEF TypeInv
<1>6. CASE ForwardStreamAck(s)
  <2> DEFINE ack(q) == [type |-> "StreamAck", server |-> cid[s], client |-> q.client,
                        gen |-> q.gen]
  <2>1. PICK q \in toAck : queue' = Append(queue, ack(q)) /\ toAck' = toAck \ {q}
    BY <1>6 DEF ForwardStreamAck, Send
  <2>2. /\ phase[s] = "live"
        /\ UNCHANGED <<deferred, selecting, managerVars, phase, inbox, handlerVars, toDial,
                       dialled>>
    BY <1>6 DEF ForwardStreamAck
  <2>3. ack(q) \in Task
    BY <1>1, <2>2 DEF TypeInv, TypeOK, HandlerInv, Request, Task
  <2>4. queue' \in Seq(Task) /\ (selecting' => queue' # <<>> /\ Head(queue').type = "Subcribe")
    BY <2>1, <2>2, <2>3, SendType
  <2>5. TypeOK'
    BY <1>1, <2>1, <2>2, <2>4 DEF TypeOK, managerVars, handlerVars
  <2>6. HandlerInv'
    BY <2>2, <2>4 DEF TypeInv, HandlerInv, handlerVars
  <2> QED BY <2>5, <2>6 DEF TypeInv
<1> QED BY <1>2, <1>3, <1>4, <1>5, <1>6, ServerEndType DEF ServerStep

\* The stream connections that a local server dials.
LEMMA DialType == TypeInv /\ (Dial \/ SendStream) => TypeInv'
<1> SUFFICES ASSUME TypeInv, Dial \/ SendStream PROVE TypeInv'
  OBVIOUS
<1>1. PICK t \in Task :
        /\ queue' = Append(queue, t)
        /\ toDial' \subseteq toDial /\ dialled' \subseteq dialled
        /\ UNCHANGED <<deferred, selecting, managerVars, phase, inbox, handlerVars, toAck>>
  <2>1. CASE Dial
    <3>1. PICK q \in toDial :
            queue' = Append(queue, [type |-> "AcceptStream", req |-> q]) /\ toDial' = toDial \ {q}
      BY <2>1 DEF Dial, Send
    <3>2. [type |-> "AcceptStream", req |-> q] \in Task
      BY DEF TypeInv, TypeOK, Task
    <3> QED BY <2>1, <3>1, <3>2 DEF Dial
  <2>2. CASE SendStream
    <3> DEFINE str(d) == [type |-> "Stream", srv |-> d.srv, sid |-> d.sid, client |-> d.client,
                          gen |-> d.gen]
    <3>1. PICK d \in dialled : queue' = Append(queue, str(d)) /\ dialled' = dialled \ {d}
      BY <2>2 DEF SendStream, Send
    <3>2. str(d) \in Task
      BY DEF TypeInv, TypeOK, StreamConn, Task
    <3> QED BY <2>2, <3>1, <3>2 DEF SendStream
  <2> QED BY <2>1, <2>2
<1>2. queue' \in Seq(Task) /\ (selecting' => queue' # <<>> /\ Head(queue').type = "Subcribe")
  BY <1>1, SendType
<1>3. TypeOK'
  BY <1>1, <1>2 DEF TypeInv, TypeOK, managerVars, handlerVars
<1>4. HandlerInv'
  BY <1>1, <1>2 DEF TypeInv, HandlerInv, handlerVars
<1> QED BY <1>3, <1>4 DEF TypeInv

\* The end of a client handler, whatever brought it about.
LEMMA ClientEndType ==
    ASSUME TypeInv, NEW c \in Clients,
           \/ RecoveryExpired(c) \/ RecvOther(c) \/ SubcribeTimeout(c)
           \/ LoseClient(c) \/ RecvNotStream(c) \/ FinishForwarding(c)
    PROVE  TypeInv'
<1>1. /\ c \in Conns /\ phase[c] \notin {"new", "accepting", "closed"}
      /\ Close(c) /\ UNCHANGED <<queue, deferred, selecting, managerVars>>
  BY DEF RecoveryExpired, RecvOther, SubcribeTimeout, LoseClient, RecvNotStream,
         FinishForwarding, Conns
<1> QED BY <1>1, CloseType

\* Giving up an attempt excludes a registration that was really given.
LEMMA ExcludeType ==
    ASSUME TypeInv, NEW c \in Clients, phase[c] \in {"await_ack", "await_ready"}, Exclude(c)
    PROVE  /\ attempt' \in [Clients -> Target \cup {None}]
           /\ excluded' \in [Clients -> SUBSET Target]
           /\ phase' = [phase EXCEPT ![c] = "subscribe"]
           /\ \A x \in Clients : x # c => attempt'[x] = attempt[x]
BY DEF TypeInv, TypeOK, HandlerInv, Exclude, Goto

LEMMA SendSubcribeType == ASSUME TypeInv, NEW c \in Clients, SendSubcribe(c) PROVE TypeInv'
<1> DEFINE t == [type |-> "Subcribe", conn |-> c, id |-> cid[c], excluded |-> excluded[c]]
<1>1. TypeOK /\ c \in Conns /\ phase[c] \in {"accepted", "subscribe"}
  BY DEF TypeInv, SendSubcribe, Conns
<1>2. t \in Task
  BY <1>1 DEF TypeInv, TypeOK, HandlerInv, Task
<1>3. /\ queue' = Append(queue, t)
      /\ phase' = [phase EXCEPT ![c] = "await_sub"]
      /\ UNCHANGED <<deferred, selecting, managerVars, inbox, handlerVars, localVars>>
  BY DEF SendSubcribe, Send, Goto
<1>4. queue' \in Seq(Task) /\ (selecting' => queue' # <<>> /\ Head(queue').type = "Subcribe")
  BY <1>2, <1>3, SendType
<1>5. TypeOK'
  BY <1>1, <1>3, <1>4 DEF TypeOK, managerVars, handlerVars, localVars, ClientPhases
<1>6. HandlerInv'
  BY <1>1, <1>3, <1>4 DEF TypeInv, TypeOK, HandlerInv, handlerVars
<1> QED BY <1>5, <1>6 DEF TypeInv

LEMMA StreamTimeoutType == ASSUME TypeInv, NEW c \in Clients, StreamTimeout(c) PROVE TypeInv'
<1> DEFINE t == [type |-> "RetireServerConn", key |-> KeyOf[c], id |-> attempt[c].server]
<1>1. /\ TypeOK /\ c \in Conns /\ phase[c] \in {"await_ack", "await_ready"}
      /\ queue' = Append(queue, t) /\ Exclude(c)
      /\ UNCHANGED <<deferred, selecting, managerVars, inbox, cid, gen, peer, sid, localVars>>
  BY DEF TypeInv, StreamTimeout, Send, Conns
<1>2. attempt[c] \in Target
  BY <1>1 DEF TypeInv, TypeOK, HandlerInv
<1>3. t \in Task
  BY <1>1, <1>2, ConnAssumption DEF Target, Task
<1>4. queue' \in Seq(Task) /\ (selecting' => queue' # <<>> /\ Head(queue').type = "Subcribe")
  BY <1>1, <1>3, SendType
<1>5. /\ attempt' \in [Clients -> Target \cup {None}] /\ excluded' \in [Clients -> SUBSET Target]
      /\ phase' = [phase EXCEPT ![c] = "subscribe"]
      /\ \A x \in Clients : x # c => attempt'[x] = attempt[x]
  BY <1>1, ExcludeType
<1>6. TypeOK'
  BY <1>1, <1>4, <1>5 DEF TypeOK, managerVars, localVars, ClientPhases
<1>7. HandlerInv'
  BY <1>1, <1>4, <1>5 DEF TypeInv, TypeOK, HandlerInv
<1> QED BY <1>6, <1>7 DEF TypeInv

LEMMA RecvStaleType == ASSUME TypeInv, NEW c \in Clients, RecvStale(c) PROVE TypeInv'
<1>1. /\ TypeOK /\ c \in Conns /\ phase[c] \in {"await_ack", "await_ready"}
      /\ inbox[c] # <<>> /\ Take(c) /\ Exclude(c)
      /\ UNCHANGED <<queue, deferred, selecting, managerVars, cid, gen, peer, sid, localVars>>
  BY DEF TypeInv, RecvStale, Received, Conns
<1>2. inbox' \in [Conns -> Seq(ConnTask)]
  BY <1>1, TakeType
<1>3. /\ attempt' \in [Clients -> Target \cup {None}] /\ excluded' \in [Clients -> SUBSET Target]
      /\ phase' = [phase EXCEPT ![c] = "subscribe"]
      /\ \A x \in Clients : x # c => attempt'[x] = attempt[x]
  BY <1>1, ExcludeType
<1>4. TypeOK'
  BY <1>1, <1>2, <1>3 DEF TypeOK, managerVars, localVars, ClientPhases
<1>5. HandlerInv'
  BY <1>1, <1>3 DEF TypeInv, TypeOK, HandlerInv
<1> QED BY <1>4, <1>5 DEF TypeInv

LEMMA RecvStreamType == ASSUME TypeInv, NEW c \in Clients, RecvStream(c) PROVE TypeInv'
<1> DEFINE m == Head(inbox[c])
<1>1. /\ TypeOK /\ c \in Conns /\ phase[c] \in {"await_ack", "await_ready"}
      /\ inbox[c] # <<>> /\ m.type = "StreamResp"
      /\ peer' = [peer EXCEPT ![c] = m.srv] /\ sid' = [sid EXCEPT ![c] = m.sid]
      /\ inbox' = [inbox EXCEPT ![c] = <<>>] /\ excluded' = [excluded EXCEPT ![c] = {}]
      /\ phase' = [phase EXCEPT ![c] = "forwarding"]
      /\ UNCHANGED <<queue, deferred, selecting, managerVars, cid, gen, attempt, localVars>>
  BY DEF TypeInv, RecvStream, IsStream, Received, Goto, Conns
<1>2. m.srv \in Servers /\ m.sid \in Ids
  BY <1>1, HeadMessage
<1>3. TypeOK'
  BY <1>1, <1>2 DEF TypeOK, managerVars, localVars, ClientPhases
<1>4. HandlerInv'
  BY <1>1 DEF TypeInv, TypeOK, HandlerInv
<1> QED BY <1>3, <1>4 DEF TypeInv

LEMMA RecvAnswerType ==
    ASSUME TypeInv, NEW c \in Clients,
           RecvSubcribeResp(c) \/ RecvSubcribeRetry(c) \/ RecvStreamAck(c)
    PROVE  TypeInv'
<1> DEFINE m == Head(inbox[c])
<1>1. /\ TypeOK /\ c \in Conns /\ inbox[c] # <<>> /\ Take(c)
      /\ UNCHANGED <<queue, deferred, selecting, managerVars, cid, gen, excluded, peer, sid,
                     localVars>>
  BY DEF TypeInv, RecvSubcribeResp, RecvSubcribeRetry, RecvStreamAck, IsAck, Received, Conns,
         handlerVars
<1>2. inbox' \in [Conns -> Seq(ConnTask)]
  BY <1>1, TakeType
<1>3. CASE RecvSubcribeResp(c)
  <2>1. /\ m.type = "SubcribeResp" /\ phase[c] = "await_sub"
        /\ attempt' = [attempt EXCEPT ![c] = [server |-> m.server, gen |-> m.gen]]
        /\ phase' = [phase EXCEPT ![c] = "await_ack"]
    BY <1>3 DEF RecvSubcribeResp, Received, Goto
  <2>2. [server |-> m.server, gen |-> m.gen] \in Target
    BY <1>1, <2>1, HeadMessage DEF Target
  <2>3. None \notin Target
    BY ConnAssumption DEF Target
  <2>4. TypeOK'
    BY <1>1, <1>2, <2>1, <2>2 DEF TypeOK, managerVars, localVars, ClientPhases
  <2>5. HandlerInv'
    BY <1>1, <2>1, <2>2, <2>3 DEF TypeInv, TypeOK, HandlerInv
  <2> QED BY <2>4, <2>5 DEF TypeInv
<1>4. CASE RecvSubcribeRetry(c)
  <2>1. /\ phase[c] = "await_sub" /\ UNCHANGED attempt
        /\ phase' = [phase EXCEPT ![c] = "subscribe"]
    BY <1>4 DEF RecvSubcribeRetry, Goto, handlerVars
  <2>2. TypeOK'
    BY <1>1, <1>2, <2>1 DEF TypeOK, managerVars, localVars, ClientPhases
  <2>3. HandlerInv'
    BY <1>1, <2>1 DEF TypeInv, TypeOK, HandlerInv
  <2> QED BY <2>2, <2>3 DEF TypeInv
<1>5. CASE RecvStreamAck(c)
  <2>1. /\ phase[c] = "await_ack" /\ UNCHANGED attempt
        /\ phase' = [phase EXCEPT ![c] = "await_ready"]
    BY <1>5 DEF RecvStreamAck, Goto, handlerVars
  <2>2. TypeOK'
    BY <1>1, <1>2, <2>1 DEF TypeOK, managerVars, localVars, ClientPhases
  <2>3. HandlerInv'
    BY <1>1, <2>1 DEF TypeInv, TypeOK, HandlerInv
  <2> QED BY <2>2, <2>3 DEF TypeInv
<1> QED BY <1>3, <1>4, <1>5

LEMMA ClientStepType == ASSUME TypeInv, NEW c \in Clients, ClientStep(c) PROVE TypeInv'
BY ClientEndType, SendSubcribeType, StreamTimeoutType, RecvStaleType, RecvStreamType,
   RecvAnswerType
DEF ClientStep

-----------------------------------------------------------------------------
(* The type invariant *)

\* The program starts well-typed.
LEMMA InitType == Init => TypeInv
<1> SUFFICES ASSUME Init PROVE TypeInv
  OBVIOUS
<1>1. <<>> \in Seq(Task) /\ <<>> \in Seq(Ids) /\ <<>> \in Seq(ConnTask)
  OBVIOUS
<1>2. nextId \in 0 .. MaxConnId
  BY LimitAssumption DEF Init
<1>3. /\ queue \in Seq(Task) /\ idle \in Seq(Ids)
      /\ inbox \in [Conns -> Seq(ConnTask)]
      /\ phase \in [Conns -> ServerPhases \cup ClientPhases]
  BY <1>1 DEF Init, ServerPhases
<1>4. /\ gen \in [Servers -> Nat] /\ nsCount \in [Namespaces -> Nat]
      /\ attempt \in [Clients -> Target \cup {None}]
      /\ excluded \in [Clients -> SUBSET Target]
  BY DEF Init
<1>5. /\ selecting \in BOOLEAN /\ deferred \subseteq Deregistration
      /\ active \in [Ids -> Conns \cup {None}] /\ cid \in [Conns -> Ids \cup {None}]
      /\ peer \in [Clients -> Servers \cup {None}] /\ sid \in [Clients -> Ids \cup {None}]
  BY DEF Init
<1>6. /\ nextGen \in Nat \ {0} /\ registry \subseteq Registration /\ pending \subseteq Pending
      /\ toAck \subseteq Request /\ toDial \subseteq Request /\ dialled \subseteq StreamConn
  BY DEF Init
<1>7. TypeOK
  BY <1>2, <1>3, <1>4, <1>5, <1>6 DEF TypeOK
<1>8. HandlerInv
  BY DEF Init, HandlerInv, Conns
<1> QED BY <1>7, <1>8 DEF TypeInv

\* Every step preserves the types, a stutter included.
LEMMA NextType == TypeInv /\ [Next]_vars => TypeInv'
<1> SUFFICES ASSUME TypeInv, [Next]_vars PROVE TypeInv'
  OBVIOUS
<1>1. CASE Manager
  BY <1>1, ManagerType
<1>2. CASE \E c \in Conns : Connect(c) \/ Reject(c) \/ Deregister(c) \/ Cancel(c)
  BY <1>2, ConnectType, RejectType, DeregisterType, CancelType
<1>3. CASE \E s \in Servers : ServerStep(s)
  BY <1>3, ServerStepType
<1>4. CASE \E c \in Clients : ClientStep(c)
  BY <1>4, ClientStepType
<1>5. CASE SendDeferred \/ Dial \/ SendStream
  BY <1>5, SendDeferredType, DialType
<1>6. CASE UNCHANGED vars
  BY <1>6 DEF vars, TypeInv, TypeOK, HandlerInv, managerVars, handlerVars, localVars
<1> QED BY <1>1, <1>2, <1>3, <1>4, <1>5, <1>6 DEF Next

\* In every run of the relay, each task, message, id and table entry is of its
\* type, every task carries an id that was assigned, and a retirement always
\* names a registration the client was really given (get_server_stream).
THEOREM TypeInvariant == Spec => []TypeInv
BY InitType, NextType, PTL DEF Spec

THEOREM TypeCorrect == Spec => []TypeOK
<1>1. TypeInv => TypeOK
  BY DEF TypeInv
<1> QED BY <1>1, TypeInvariant, PTL

-----------------------------------------------------------------------------
(* The manager alone changes what the manager keeps *)

\* No handler and no guard touches the tables of TaskManager: they only send.
LEMMA HandlersKeepManager == [Next]_vars /\ ~Manager => UNCHANGED <<selecting, managerVars>>
<1> SUFFICES ASSUME [Next]_vars, ~Manager PROVE UNCHANGED <<selecting, managerVars>>
  OBVIOUS
<1>1. ASSUME NEW c \in Conns, Connect(c) \/ Reject(c) \/ Deregister(c) \/ Cancel(c)
      PROVE  UNCHANGED <<selecting, managerVars>>
  BY <1>1 DEF Connect, Reject, Deregister, Cancel
<1>2. ASSUME NEW s \in Servers, ServerStep(s) PROVE UNCHANGED <<selecting, managerVars>>
  BY <1>2 DEF ServerStep, SendRegister, RecvRegistered, RecvRegisterFailed, LoseSender,
              ForwardStreamReq, IgnoreUnexpected, RecvRetire, LoseControl, ForwardStreamAck
<1>3. ASSUME NEW c \in Clients, ClientStep(c) PROVE UNCHANGED <<selecting, managerVars>>
  BY <1>3 DEF ClientStep, SendSubcribe, RecvSubcribeResp, RecvSubcribeRetry, RecoveryExpired,
              RecvOther, SubcribeTimeout, StreamTimeout, RecvStream, LoseClient,
              RecvStreamAck, RecvStale, RecvNotStream, FinishForwarding
<1>4. CASE SendDeferred \/ Dial \/ SendStream
  BY <1>4 DEF SendDeferred, Dial, SendStream
<1> QED BY <1>1, <1>2, <1>3, <1>4 DEF Next, vars

-----------------------------------------------------------------------------
(* A filed sender of a server handler always has its registration *)

\* Removing a registration takes its sender along, so no other sender loses
\* its registration (the five callers of remove_server_conn and deregister_conn).
LEMMA UnregisterSelectable ==
    ASSUME TypeOK, SendersAreSelectable, NEW k \in Keys, NEW i \in Ids, Unregister(k, i)
    PROVE  SendersAreSelectable'
<1> SUFFICES ASSUME NEW j \in Ids, active'[j] \in Servers
             PROVE  \E r \in registry' : r.id = j /\ r.key = KeyOf[active'[j]]
  BY DEF SendersAreSelectable
<1>1. active' = [active EXCEPT ![i] = None] /\ registry' = RemoveServerConn(k, i)
  BY DEF Unregister, DropSender
<1>2. j # i
  BY <1>1, ConnAssumption DEF TypeOK, Conns
<1>3. active'[j] = active[j]
  BY <1>1, <1>2 DEF TypeOK
<1>4. PICK r \in registry : r.id = j /\ r.key = KeyOf[active[j]]
  BY <1>3 DEF SendersAreSelectable
<1>5. r \in registry'
  BY <1>1, <1>2, <1>4 DEF RemoveServerConn
<1> QED BY <1>3, <1>4, <1>5

\* A step that only takes senders away, or files clients, and keeps the
\* registry, keeps every remaining sender selectable.
LEMMA FewerSenders ==
    ASSUME TypeOK, SendersAreSelectable, UNCHANGED registry,
           \A i \in Ids : active'[i] \in Servers => active'[i] = active[i]
    PROVE  SendersAreSelectable'
BY DEF SendersAreSelectable

LEMMA DeRegisterClientConnSelectable ==
    TypeInv /\ SendersAreSelectable /\ DeRegisterClientConn => SendersAreSelectable'
<1> SUFFICES ASSUME TypeInv, SendersAreSelectable, DeRegisterClientConn
             PROVE  SendersAreSelectable'
  OBVIOUS
<1> DEFINE t   == Head(queue)
           act == IF t.server = None THEN active ELSE DropSender(active, t.server)
<1>1. TypeOK /\ t.server \in Ids \cup {None} /\ t.id \in Ids
  BY HeadTask DEF TypeInv, DeRegisterClientConn, HeadIs
<1>2. active' = DropSender(act, t.id) /\ UNCHANGED registry
  BY DEF DeRegisterClientConn
<1>3. \A i \in Ids : act[i] \in {active[i], None}
  BY <1>1 DEF DropSender, TypeOK
<1>4. act \in [Ids -> Conns \cup {None}]
  BY <1>1 DEF DropSender, TypeOK
<1>5. \A i \in Ids : active'[i] \in {active[i], None}
  BY <1>1, <1>2, <1>3, <1>4 DEF DropSender
<1>6. None \notin Servers
  BY ConnAssumption DEF Conns
<1> QED BY <1>1, <1>2, <1>5, <1>6, FewerSenders

LEMMA SelectOkSelectable ==
    TypeInv /\ SendersAreSelectable /\ SelectOk => SendersAreSelectable'
<1> SUFFICES ASSUME TypeInv, SendersAreSelectable, SelectOk
             PROVE  SendersAreSelectable'
  OBVIOUS
<1> DEFINE c   == Head(queue).conn
           i   == Head(queue).id
           act == IF active[i] = None THEN SignUp(active, i, c) ELSE active
<1>1. TypeOK /\ c \in Clients /\ i \in Ids
  BY HeadTask DEF TypeInv, HandlerInv, SelectOk
<1>2. active' \in {act, DropSender(act, i)} /\ UNCHANGED registry
  BY DEF SelectOk
<1>3. act \in [Ids -> Conns \cup {None}] /\ \A j \in Ids : act[j] \in {active[j], c}
  BY <1>1 DEF SignUp, TypeOK, Conns
<1>4. \A j \in Ids : active'[j] \in {active[j], c, None}
  BY <1>1, <1>2, <1>3 DEF DropSender
<1>5. None \notin Servers /\ c \notin Servers
  BY <1>1, ConnAssumption DEF Conns
<1> QED BY <1>1, <1>2, <1>4, <1>5, FewerSenders

LEMMA RegisterSelectable ==
    TypeInv /\ SendersAreSelectable /\ Register => SendersAreSelectable'
<1> SUFFICES ASSUME TypeInv, SendersAreSelectable, Register,
                    NEW j \in Ids, active'[j] \in Servers
             PROVE  \E r \in registry' : r.id = j /\ r.key = KeyOf[active'[j]]
  BY DEF SendersAreSelectable
<1> DEFINE s == Head(queue).conn
           i == Head(queue).id
           r == [key |-> KeyOf[s], id |-> i, gen |-> nextGen, datagram |-> s \in Datagram]
<1>1. TypeOK /\ i \in Ids
  BY HeadTask DEF TypeInv, Register, HeadIs
<1>2. active' = SignUp(active, i, s) /\ registry' = registry \cup {r}
  BY DEF Register
<1>3. CASE active'[j] = active[j]
  BY <1>2, <1>3 DEF SendersAreSelectable
<1>4. CASE active'[j] # active[j]
  <2>1. j = i /\ active'[j] = s
    BY <1>1, <1>2, <1>4 DEF SignUp, TypeOK
  <2>2. r.id = i /\ r.key = KeyOf[s]
    OBVIOUS
  <2>3. r \in registry'
    BY <1>2
  <2> HIDE DEF r
  <2> QED BY <2>1, <2>2, <2>3
<1> QED BY <1>3, <1>4

\* Every step keeps the senders selectable.
LEMMA NextSelectable ==
    TypeInv /\ SendersAreSelectable /\ [Next]_vars => SendersAreSelectable'
<1> SUFFICES ASSUME TypeInv, SendersAreSelectable, [Next]_vars
             PROVE  SendersAreSelectable'
  OBVIOUS
<1>1. CASE UNCHANGED <<active, registry>>
  BY <1>1 DEF SendersAreSelectable
<1>2. CASE DeRegisterServerConn \/ RetireServerConn
  <2>1. /\ TypeOK /\ Head(queue).key \in Keys /\ Head(queue).id \in Ids
        /\ Unregister(Head(queue).key, Head(queue).id)
    BY <1>2, HeadTask DEF TypeInv, DeRegisterServerConn, RetireServerConn, HeadIs
  <2> QED BY <2>1, UnregisterSelectable
<1>3. CASE SelectFailed
  <2>1. PICK r \in registry : Unregister(r.key, r.id)
    BY <1>3 DEF SelectFailed
  <2>2. TypeOK /\ r.key \in Keys /\ r.id \in Ids
    BY DEF TypeInv, TypeOK, Registration
  <2> QED BY <2>1, <2>2, UnregisterSelectable
<1>4. CASE Register \/ DeRegisterClientConn \/ SelectOk
  BY <1>4, RegisterSelectable, DeRegisterClientConnSelectable, SelectOkSelectable
<1>5. CASE Manager
  BY <1>1, <1>2, <1>3, <1>4, <1>5
  DEF Manager, Accept, AcceptStream, RegisterFail, StreamAck, Stream, SubcribeOverLimit,
      SubcribeMissing, SubcribeOverRate, SubcribeAdmit, SelectNone, Answer, managerVars
<1>6. CASE ~Manager
  BY <1>1, <1>6, HandlersKeepManager DEF managerVars
<1> QED BY <1>5, <1>6

\* A control connection the manager can reach is always one that a subscribe
\* can select: no interleaving of registrations, retirements, failed
\* selections, late deregistrations and reused ids files a sender for a server
\* handler whose registration is gone.
THEOREM SelectableSenders == Spec => []SendersAreSelectable
<1>1. Init => SendersAreSelectable
  BY ConnAssumption DEF Init, SendersAreSelectable, Conns
<1> QED BY <1>1, NextSelectable, TypeInvariant, PTL DEF Spec

-----------------------------------------------------------------------------
(* A client is never joined with another service's stream *)

\* Everything in the relay that names a generation and a service: the
\* registrations, the pending slots, the attempts of the clients, and the
\* answers on their way to them.
RegistryNames(g, k) == \E r \in registry : r.gen = g /\ r.key = k
PendingNames(g, k)  == \E p \in pending : p.gen = g /\ p.key = k
AttemptNames(g, k)  ==
    \E c \in Clients : attempt[c] # None /\ attempt[c].gen = g /\ KeyOf[c] = k
MessageNames(c, m, g, k) ==
    \/ m.type = "SubcribeResp" /\ m.gen = g /\ KeyOf[c] = k
    \/ m.type = "StreamResp" /\ m.gen = g /\ KeyOf[m.srv] = k
AnswerNames(g, k) == \E c \in Conns : \E m \in Range(inbox[c]) : MessageNames(c, m, g, k)

Names(g, k) == RegistryNames(g, k) \/ PendingNames(g, k) \/ AttemptNames(g, k) \/ AnswerNames(g, k)

\* A generation was given to one service only, however long ago: ids are
\* reused, generations are not.
GenerationInv ==
    \A g \in Nat, k, l \in Keys :
        Names(g, k) => g < nextGen /\ (Names(g, l) => k = l)

IsolationInv == GenerationInv /\ StreamOfSubscribedService

\* Taking a message off a channel leaves the others.
LEMMA TailRange ==
    ASSUME NEW S, NEW s \in Seq(S), s # <<>>
    PROVE  Head(s) \in Range(s) /\ Range(Tail(s)) \subseteq Range(s)
<1>1. Len(Tail(s)) = Len(s) - 1 /\ \A i \in 1 .. Len(Tail(s)) : Tail(s)[i] = s[i + 1]
  BY HeadTailProperties
<1>2. Len(s) \in Nat \ {0} /\ DOMAIN s = 1 .. Len(s) /\ Head(s) = s[1]
  BY EmptySeq, LenProperties
<1>3. DOMAIN Tail(s) = 1 .. Len(Tail(s))
  BY HeadTailProperties, LenProperties
<1>4. Head(s) \in Range(s)
  BY <1>2 DEF Range
<1>5. ASSUME NEW x \in Range(Tail(s)) PROVE x \in Range(s)
  <2>1. PICK i \in 1 .. Len(Tail(s)) : x = Tail(s)[i]
    BY <1>3, <1>5 DEF Range
  <2>2. x = s[i + 1] /\ i + 1 \in 1 .. Len(s)
    BY <1>1, <1>2, <2>1
  <2> QED BY <1>2, <2>2 DEF Range
<1> QED BY <1>4, <1>5

\* A message posted to a handler is the only new one.
LEMMA PostRange ==
    ASSUME NEW box \in [Conns -> Seq(ConnTask)], NEW c \in Conns, NEW m \in ConnTask
    PROVE  \A d \in Conns : \A x \in Range(Post(box, c, m)[d]) :
              x \in Range(box[d]) \/ (d = c /\ x = m)
<1> SUFFICES ASSUME NEW d \in Conns, NEW x \in Range(Post(box, c, m)[d])
             PROVE  x \in Range(box[d]) \/ (d = c /\ x = m)
  OBVIOUS
<1>1. CASE Post(box, c, m)[d] = box[d]
  BY <1>1
<1>2. CASE Post(box, c, m)[d] = Append(box[c], m) /\ d = c
  <2>1. box[c] \in Seq(ConnTask)
    OBVIOUS
  <2>2. PICK i \in DOMAIN Append(box[c], m) : x = Append(box[c], m)[i]
    BY <1>2 DEF Range
  <2>3. /\ i \in 1 .. Len(box[c]) + 1 /\ Len(box[c]) \in Nat
        /\ DOMAIN box[c] = 1 .. Len(box[c])
        /\ Append(box[c], m)[i] = IF i <= Len(box[c]) THEN box[c][i] ELSE m
    BY <2>1, <2>2
  <2> QED BY <1>2, <2>2, <2>3 DEF Range
<1> QED BY <1>1, <1>2 DEF Post

\* Handlers only read their channels, and forget them when they end.
LEMMA HandlerChannels ==
    ASSUME TypeInv, [Next]_vars, ~Manager, NEW d \in Conns, NEW x \in Range(inbox'[d])
    PROVE  x \in Range(inbox[d])
<1>1. TypeOK
  BY DEF TypeInv
<1>2. ASSUME NEW c \in Conns, inbox[c] # <<>>, Take(c) PROVE x \in Range(inbox[d])
  BY <1>1, <1>2, TailRange DEF Take, TypeOK
<1>3. ASSUME NEW c \in Conns, inbox' = [inbox EXCEPT ![c] = <<>>] PROVE x \in Range(inbox[d])
  <2>1. inbox'[d] = inbox[d] \/ inbox'[d] = <<>>
    BY <1>1, <1>3 DEF TypeOK
  <2>2. Range(<<>>) = {}
    BY DEF Range
  <2> QED BY <2>1, <2>2
<1>4. CASE UNCHANGED inbox
  BY <1>4
<1>5. ASSUME NEW c \in Conns, Connect(c) \/ Reject(c) \/ Deregister(c) \/ Cancel(c)
      PROVE  x \in Range(inbox[d])
  BY <1>3, <1>4, <1>5 DEF Connect, Reject, Deregister, Cancel, Forget
<1>6. ASSUME NEW s \in Servers, ServerStep(s) PROVE x \in Range(inbox[d])
  <2>1. s \in Conns
    BY DEF Conns
  <2>2. CASE RecvRegistered(s) \/ ForwardStreamReq(s) \/ IgnoreUnexpected(s)
    BY <1>2, <2>1, <2>2 DEF RecvRegistered, ForwardStreamReq, IgnoreUnexpected, Received
  <2>3. CASE RecvRegisterFailed(s) \/ LoseSender(s) \/ RecvRetire(s) \/ LoseControl(s)
    BY <1>3, <2>1, <2>3
    DEF RecvRegisterFailed, LoseSender, RecvRetire, LoseControl, Close, Forget
  <2>4. CASE SendRegister(s) \/ ForwardStreamAck(s)
    BY <1>4, <2>4 DEF SendRegister, ForwardStreamAck
  <2> QED BY <1>6, <2>2, <2>3, <2>4 DEF ServerStep
<1>7. ASSUME NEW c \in Clients, ClientStep(c) PROVE x \in Range(inbox[d])
  <2>1. c \in Conns
    BY DEF Conns
  <2>2. CASE RecvSubcribeResp(c) \/ RecvSubcribeRetry(c) \/ RecvStreamAck(c) \/ RecvStale(c)
    BY <1>2, <2>1, <2>2
    DEF RecvSubcribeResp, RecvSubcribeRetry, RecvStreamAck, RecvStale, IsAck, Received
  <2>3. CASE \/ RecoveryExpired(c) \/ RecvOther(c) \/ SubcribeTimeout(c) \/ LoseClient(c)
             \/ RecvNotStream(c) \/ FinishForwarding(c) \/ RecvStream(c)
    BY <1>3, <2>1, <2>3
    DEF RecoveryExpired, RecvOther, SubcribeTimeout, LoseClient, RecvNotStream,
        FinishForwarding, RecvStream, Close, Forget
  <2>4. CASE SendSubcribe(c) \/ StreamTimeout(c)
    BY <1>4, <2>4 DEF SendSubcribe, StreamTimeout
  <2> QED BY <1>7, <2>2, <2>3, <2>4 DEF ClientStep
<1>8. CASE SendDeferred \/ Dial \/ SendStream
  BY <1>4, <1>8 DEF SendDeferred, Dial, SendStream
<1> QED BY <1>4, <1>5, <1>6, <1>7, <1>8 DEF Next, vars

\* A client's attempt is the answer it has just read, or none, or the one it had.
LEMMA HandlerAttempts ==
    ASSUME TypeInv, [Next]_vars, ~Manager, NEW d \in Clients
    PROVE  attempt'[d] \in {attempt[d], None} \/ RecvSubcribeResp(d)
<1> DEFINE Kept == attempt'[d] \in {attempt[d], None}
<1>1. attempt \in [Clients -> Target \cup {None}] /\ d \in Conns
  BY DEF TypeInv, TypeOK, Conns
<1>2. ASSUME NEW c \in Conns, Forget(c) PROVE Kept
  BY <1>2 DEF Forget
<1>3. ASSUME NEW c \in Clients, Exclude(c) PROVE Kept
  BY <1>1, <1>3 DEF Exclude
<1>4. CASE UNCHANGED attempt
  BY <1>4
<1>5. ASSUME NEW c \in Conns, Connect(c) \/ Reject(c) \/ Deregister(c) \/ Cancel(c) PROVE Kept
  BY <1>2, <1>4, <1>5 DEF Connect, Reject, Deregister, Cancel, handlerVars
<1>6. ASSUME NEW s \in Servers, ServerStep(s) PROVE Kept
  <2>1. s \in Conns
    BY DEF Conns
  <2>2. CASE RecvRegisterFailed(s) \/ LoseSender(s) \/ RecvRetire(s) \/ LoseControl(s)
    BY <1>2, <2>1, <2>2 DEF RecvRegisterFailed, LoseSender, RecvRetire, LoseControl, Close
  <2>3. CASE \/ SendRegister(s) \/ RecvRegistered(s) \/ ForwardStreamReq(s)
             \/ IgnoreUnexpected(s) \/ ForwardStreamAck(s)
    BY <1>4, <2>3 DEF SendRegister, RecvRegistered, ForwardStreamReq, IgnoreUnexpected,
                      ForwardStreamAck, handlerVars
  <2> QED BY <1>6, <2>2, <2>3 DEF ServerStep
<1>7. ASSUME NEW c \in Clients, ClientStep(c), ~RecvSubcribeResp(d) PROVE Kept
  <2>1. c \in Conns
    BY DEF Conns
  <2>2. CASE \/ RecoveryExpired(c) \/ RecvOther(c) \/ SubcribeTimeout(c) \/ LoseClient(c)
             \/ RecvNotStream(c) \/ FinishForwarding(c)
    BY <1>2, <2>1, <2>2
    DEF RecoveryExpired, RecvOther, SubcribeTimeout, LoseClient, RecvNotStream,
        FinishForwarding, Close
  <2>3. CASE StreamTimeout(c) \/ RecvStale(c)
    BY <1>3, <2>3 DEF StreamTimeout, RecvStale
  <2>4. CASE SendSubcribe(c) \/ RecvSubcribeRetry(c) \/ RecvStream(c) \/ RecvStreamAck(c)
    BY <1>4, <2>4 DEF SendSubcribe, RecvSubcribeRetry, RecvStream, RecvStreamAck, handlerVars
  <2>5. CASE RecvSubcribeResp(c)
    BY <1>1, <1>7, <2>5 DEF RecvSubcribeResp
  <2> QED BY <1>7, <2>2, <2>3, <2>4, <2>5 DEF ClientStep
<1>8. CASE SendDeferred \/ Dial \/ SendStream
  BY <1>4, <1>8 DEF SendDeferred, Dial, SendStream, handlerVars
<1> QED BY <1>4, <1>5, <1>6, <1>7, <1>8 DEF Next, vars, handlerVars

\* A handler learns what an answer says, and invents nothing.
LEMMA HandlerNames ==
    ASSUME TypeInv, [Next]_vars, ~Manager, NEW g \in Nat, NEW k \in Keys, Names(g, k)'
    PROVE  Names(g, k)
<1>1. UNCHANGED managerVars
  BY HandlersKeepManager
<1>2. CASE RegistryNames(g, k)' \/ PendingNames(g, k)'
  BY <1>1, <1>2 DEF managerVars, RegistryNames, PendingNames, Names
<1>3. CASE AnswerNames(g, k)'
  <2>1. PICK d \in Conns : \E x \in Range(inbox'[d]) : MessageNames(d, x, g, k)
    BY <1>3 DEF AnswerNames, MessageNames
  <2>2. PICK x \in Range(inbox'[d]) : MessageNames(d, x, g, k)
    BY <2>1
  <2>3. x \in Range(inbox[d])
    BY HandlerChannels
  <2> QED BY <2>2, <2>3 DEF AnswerNames, Names
<1>4. CASE AttemptNames(g, k)'
  <2>1. PICK c \in Clients : attempt'[c] # None /\ attempt'[c].gen = g /\ KeyOf[c] = k
    BY <1>4 DEF AttemptNames
  <2>2. CASE attempt'[c] = attempt[c]
    BY <2>1, <2>2 DEF AttemptNames, Names
  <2>3. CASE RecvSubcribeResp(c)
    <3> DEFINE m == Head(inbox[c])
    <3>1. c \in Conns /\ inbox[c] \in Seq(ConnTask)
      BY DEF Conns, TypeInv, TypeOK
    <3>2. inbox[c] # <<>> /\ m.type = "SubcribeResp"
      BY <2>3 DEF RecvSubcribeResp, Received
    <3>3. m \in Range(inbox[c])
      BY <3>1, <3>2, TailRange
    <3>4. attempt'[c] = [server |-> m.server, gen |-> m.gen]
      BY <2>3 DEF RecvSubcribeResp, TypeInv, TypeOK
    <3>5. m.gen = g
      BY <2>1, <3>4
    <3> HIDE DEF m
    <3> QED BY <2>1, <3>1, <3>2, <3>3, <3>5 DEF AnswerNames, MessageNames, Names
  <2> QED BY <2>1, <2>2, <2>3, HandlerAttempts
<1> QED BY <1>2, <1>3, <1>4 DEF Names

\* After a post, the answers name what they named, or what the message names.
LEMMA PostNames ==
    ASSUME NEW box \in [Conns -> Seq(ConnTask)], NEW c \in Conns, NEW m \in ConnTask,
           inbox' = Post(box, c, m), NEW g \in Nat, NEW k \in Keys, AnswerNames(g, k)'
    PROVE  \/ \E d \in Conns : \E x \in Range(box[d]) : MessageNames(d, x, g, k)
           \/ MessageNames(c, m, g, k)
<1>1. PICK d \in Conns : \E x \in Range(inbox'[d]) : MessageNames(d, x, g, k)
  BY DEF AnswerNames, MessageNames
<1>2. PICK x \in Range(Post(box, c, m)[d]) : MessageNames(d, x, g, k)
  BY <1>1
<1>3. \A e \in Conns : \A y \in Range(Post(box, c, m)[e]) :
         y \in Range(box[e]) \/ (e = c /\ y = m)
  BY PostRange
<1> QED BY <1>2, <1>3

\* A task of the manager, other than Register, that posts nothing that names a
\* generation, and adds neither registration nor slot.
LEMMA SilentNames ==
    ASSUME TypeInv, UNCHANGED attempt, registry' \subseteq registry, pending' \subseteq pending,
           NEW g \in Nat, NEW k \in Keys, Names(g, k)',
           \/ UNCHANGED inbox
           \/ \E c \in Conns, m \in ConnTask :
                 /\ inbox' = Post(inbox, c, m)
                 /\ m.type \notin {"SubcribeResp", "StreamResp"}
    PROVE  Names(g, k)
<1>1. CASE RegistryNames(g, k)' \/ PendingNames(g, k)' \/ AttemptNames(g, k)'
  BY <1>1 DEF RegistryNames, PendingNames, AttemptNames, Names
<1>2. CASE AnswerNames(g, k)' /\ UNCHANGED inbox
  BY <1>2 DEF AnswerNames, MessageNames, Names
<1>3. ASSUME NEW c \in Conns, NEW m \in ConnTask, inbox' = Post(inbox, c, m),
             m.type \notin {"SubcribeResp", "StreamResp"}, AnswerNames(g, k)'
      PROVE  Names(g, k)
  <2>1. inbox \in [Conns -> Seq(ConnTask)]
    BY DEF TypeInv, TypeOK
  <2>2. ~MessageNames(c, m, g, k)
    BY <1>3 DEF MessageNames
  <2> QED BY <1>3, <2>1, <2>2, PostNames DEF AnswerNames, Names
<1> QED BY <1>1, <1>2, <1>3 DEF Names

\* A registration names the next generation, which nothing names yet.
LEMMA RegisterNames ==
    ASSUME TypeInv, Register, NEW g \in Nat, NEW k \in Keys, Names(g, k)'
    PROVE  Names(g, k) \/ (g = nextGen /\ k = KeyOf[Head(queue).conn])
<1> DEFINE s == Head(queue).conn
           i == Head(queue).id
           r == [key |-> KeyOf[s], id |-> i, gen |-> nextGen, datagram |-> s \in Datagram]
           m == [type |-> "RegisterResp", gen |-> nextGen]
<1>1. /\ registry' = registry \cup {r} /\ inbox' = Post(inbox, s, m)
      /\ UNCHANGED <<pending, attempt>>
  BY DEF Register, handlerVars
<1>2. r.key = KeyOf[s] /\ r.gen = nextGen
  OBVIOUS
<1>3. CASE RegistryNames(g, k)'
  <2> HIDE DEF r
  <2> QED BY <1>1, <1>2, <1>3 DEF RegistryNames, Names
<1>4. CASE PendingNames(g, k)' \/ AttemptNames(g, k)'
  BY <1>1, <1>4 DEF PendingNames, AttemptNames, Names
<1>5. CASE AnswerNames(g, k)'
  <2>1. TypeOK /\ s \in Conns /\ inbox \in [Conns -> Seq(ConnTask)]
    BY HeadTask DEF TypeInv, TypeOK, Register, HeadIs, Conns
  <2>2. m \in ConnTask
    BY <2>1 DEF TypeOK, ConnTask
  <2>3. ~MessageNames(s, m, g, k)
    BY DEF MessageNames
  <2> HIDE DEF m
  <2> QED BY <1>1, <1>5, <2>1, <2>2, <2>3, PostNames DEF AnswerNames, Names
<1> QED BY <1>3, <1>4, <1>5 DEF Names

\* A stream that is handed over names the service and the generation of the
\* pending slot it matched (StreamMatches).
LEMMA StreamNames ==
    ASSUME TypeInv, Stream, NEW g \in Nat, NEW k \in Keys, Names(g, k)'
    PROVE  Names(g, k)
<1> DEFINE t == Head(queue)
           msg(p) == [type |-> "StreamResp", srv |-> t.srv, sid |-> t.sid, gen |-> p.gen]
<1>1. /\ TypeOK /\ t.srv \in Servers /\ t.sid \in Ids /\ t.client \in Ids
      /\ UNCHANGED <<registry, pending, attempt>>
  BY HeadTask DEF TypeInv, Stream, HeadIs, managerVars, handlerVars
<1>2. CASE UNCHANGED inbox
  BY <1>1, <1>2, SilentNames
<1>3. ASSUME NEW p \in PendingOf(t.client), StreamMatches(p, t), ToClient(t.client, msg(p)),
             active[t.client] # None
      PROVE  Names(g, k)
  <2> DEFINE c == active[t.client]
             m == msg(p)
  <2>1. /\ c \in Conns /\ inbox \in [Conns -> Seq(ConnTask)] /\ inbox' = Post(inbox, c, m)
        /\ p \in pending /\ p.gen \in Nat
    BY <1>1, <1>3 DEF TypeOK, ToClient, PendingOf, Pending
  <2>2. m \in ConnTask /\ m.type = "StreamResp" /\ m.gen = p.gen /\ m.srv = t.srv
    BY <1>1, <2>1 DEF ConnTask
  <2>3. p.key = KeyOf[t.srv]
    BY <1>3 DEF StreamMatches
  <2> HIDE DEF m, c
  <2>4. CASE AnswerNames(g, k)'
    <3>1. MessageNames(c, m, g, k) => PendingNames(g, k)
      BY <2>1, <2>2, <2>3 DEF MessageNames, PendingNames
    <3> QED BY <2>1, <2>2, <2>4, <3>1, PostNames DEF AnswerNames, Names
  <2>5. CASE RegistryNames(g, k)' \/ PendingNames(g, k)' \/ AttemptNames(g, k)'
    BY <1>1, <2>5 DEF RegistryNames, PendingNames, AttemptNames, Names
  <2> QED BY <2>4, <2>5 DEF Names
<1>4. ASSUME NEW p \in PendingOf(t.client), ToClient(t.client, msg(p)), active[t.client] = None
      PROVE  UNCHANGED inbox
  BY <1>4 DEF ToClient
<1> QED BY <1>2, <1>3, <1>4 DEF Stream

\* A server that is chosen is one of the service the client subscribed to, so
\* the new slot and the answer name what the registry names (Candidates).
LEMMA SelectOkNames ==
    ASSUME TypeInv, SelectOk, NEW g \in Nat, NEW k \in Keys, Names(g, k)'
    PROVE  Names(g, k)
<1> DEFINE c   == Head(queue).conn
           i   == Head(queue).id
           req(r) == [type |-> "StreamReq", client |-> i, gen |-> r.gen]
           rsp(r) == [type |-> "SubcribeResp", server |-> r.id, gen |-> r.gen]
           slot(r) == [client |-> i, server |-> r.id, gen |-> r.gen, key |-> r.key]
<1>1. TypeOK /\ c \in Clients /\ c \in Conns /\ i \in Ids /\ UNCHANGED <<registry, attempt>>
  BY HeadTask DEF TypeInv, HandlerInv, SelectOk, Conns, handlerVars
<1>2. PICK r \in registry :
        /\ Newest(r, Head(queue)) /\ active[r.id] # None
        /\ inbox' = Post(Post(inbox, active[r.id], req(r)), c, rsp(r))
        /\ pending' = (pending \ PendingOf(i)) \cup {slot(r)}
  BY DEF SelectOk
<1>3. r.key = KeyOf[c]
  BY <1>2 DEF Newest, Candidates, EntriesOf
<1>4. /\ r.id \in Ids /\ r.gen \in Nat /\ active[r.id] \in Conns
      /\ inbox \in [Conns -> Seq(ConnTask)]
  BY <1>1, <1>2 DEF TypeOK, Registration
<1> DEFINE q   == req(r)
           m   == rsp(r)
           p   == slot(r)
           d   == active[r.id]
           box == Post(inbox, d, q)
<1>5. /\ q \in ConnTask /\ m \in ConnTask /\ q.type = "StreamReq"
      /\ m.type = "SubcribeResp" /\ m.gen = r.gen /\ p.gen = r.gen /\ p.key = r.key
      /\ d \in Conns
  BY <1>1, <1>4 DEF ConnTask
<1>6. inbox' = Post(box, c, m) /\ pending' \subseteq pending \cup {p}
  BY <1>2
<1>7. box \in [Conns -> Seq(ConnTask)]
  BY <1>4, <1>5, PostType
<1>8. \A e \in Conns : \A x \in Range(box[e]) : x \in Range(inbox[e]) \/ (e = d /\ x = q)
  <2> HIDE DEF q, d
  <2> QED BY <1>4, <1>5, PostRange
<1> HIDE DEF q, m, p, box, d
<1>9. CASE PendingNames(g, k)'
  BY <1>5, <1>6, <1>9 DEF PendingNames, RegistryNames, Names
<1>10. CASE RegistryNames(g, k)' \/ AttemptNames(g, k)'
  BY <1>1, <1>10 DEF RegistryNames, AttemptNames, Names
<1>11. CASE AnswerNames(g, k)'
  <2>1. \/ \E e \in Conns : \E x \in Range(box[e]) : MessageNames(e, x, g, k)
        \/ MessageNames(c, m, g, k)
    BY <1>1, <1>5, <1>6, <1>7, <1>11, PostNames
  <2>2. MessageNames(c, m, g, k) => RegistryNames(g, k)
    BY <1>3, <1>5 DEF MessageNames, RegistryNames
  <2>3. \A e \in Conns : ~MessageNames(e, q, g, k)
    BY <1>5 DEF MessageNames
  <2> QED BY <1>8, <2>1, <2>2, <2>3 DEF AnswerNames, Names
<1> QED BY <1>9, <1>10, <1>11 DEF Names

\* The other tasks of the manager name nothing new.
LEMMA OtherTasksNames ==
    ASSUME TypeInv, NEW g \in Nat, NEW k \in Keys, Names(g, k)',
           \/ Accept \/ AcceptStream \/ RegisterFail
           \/ DeRegisterServerConn \/ RetireServerConn \/ DeRegisterClientConn
           \/ StreamAck \/ SubcribeOverLimit \/ SubcribeMissing \/ SubcribeOverRate
           \/ SubcribeAdmit \/ SelectFailed \/ SelectNone
    PROVE  Names(g, k)
<1> DEFINE t == Head(queue)
           Quiet == \/ UNCHANGED inbox
                    \/ \E c \in Conns, m \in ConnTask :
                          /\ inbox' = Post(inbox, c, m)
                          /\ m.type \notin {"SubcribeResp", "StreamResp"}
<1>1. TypeOK
  BY DEF TypeInv
<1>2. CASE Accept \/ AcceptStream \/ SubcribeAdmit \/ DeRegisterClientConn
  BY <1>2, SilentNames
  DEF Accept, AcceptStream, SubcribeAdmit, DeRegisterClientConn, managerVars, handlerVars
<1>3. CASE RegisterFail
  <2>1. t.conn \in Conns /\ [type |-> "RegisterFailed"] \in ConnTask
    BY <1>1, <1>3, HeadTask DEF RegisterFail, HeadIs, Conns, ConnTask
  <2>2. inbox' = Post(inbox, t.conn, [type |-> "RegisterFailed"])
    BY <1>3 DEF RegisterFail
  <2>3. Quiet
    BY <2>1, <2>2
  <2> QED BY <1>3, <2>3, SilentNames DEF RegisterFail, managerVars, handlerVars
<1>4. CASE DeRegisterServerConn \/ SelectFailed
  BY <1>4, SilentNames
  DEF DeRegisterServerConn, SelectFailed, Unregister, RemoveServerConn, handlerVars
<1>5. CASE RetireServerConn
  <2>1. t.id \in Ids /\ [type |-> "Retire"] \in ConnTask
    BY <1>1, <1>5, HeadTask DEF RetireServerConn, HeadIs, ConnTask
  <2>2. inbox' = IF active[t.id] = None THEN inbox
                 ELSE Post(inbox, active[t.id], [type |-> "Retire"])
    BY <1>5 DEF RetireServerConn
  <2>3. active[t.id] \in Conns \cup {None}
    BY <1>1, <2>1 DEF TypeOK
  <2>4. Quiet
    BY <2>1, <2>2, <2>3
  <2> QED BY <1>5, <2>4, SilentNames
        DEF RetireServerConn, Unregister, RemoveServerConn, handlerVars
<1>6. CASE StreamAck
  <2> DEFINE m == [type |-> "StreamAck", server |-> t.server, gen |-> t.gen]
  <2>1. t.server \in Ids /\ t.client \in Ids /\ t.gen \in Nat
    BY <1>1, <1>6, HeadTask DEF StreamAck, HeadIs
  <2>2. m \in ConnTask /\ m.type = "StreamAck"
    BY <2>1 DEF ConnTask
  <2>3. UNCHANGED inbox \/ inbox' = Post(inbox, active[t.client], m)
    BY <1>6 DEF StreamAck, ToClient
  <2>4. active[t.client] # None => active[t.client] \in Conns
    BY <1>1, <2>1 DEF TypeOK
  <2>5. active[t.client] = None => UNCHANGED inbox
    BY <1>6 DEF StreamAck, ToClient
  <2> HIDE DEF m
  <2>6. Quiet
    BY <2>2, <2>3, <2>4, <2>5
  <2> QED BY <1>6, <2>6, SilentNames DEF StreamAck, managerVars, handlerVars
<1>7. ASSUME NEW m \in ConnTask, m.type \notin {"SubcribeResp", "StreamResp"}, Answer(m),
             t.conn \in Conns
      PROVE  Names(g, k)
  <2>1. inbox' = Post(inbox, t.conn, m)
    BY <1>7 DEF Answer
  <2>2. Quiet
    BY <1>7, <2>1
  <2> QED BY <1>7, <2>2, SilentNames DEF Answer, managerVars, handlerVars
<1>8. CASE SubcribeOverLimit \/ SubcribeMissing \/ SubcribeOverRate \/ SelectNone
  <2>1. queue # <<>> /\ t.type = "Subcribe"
    BY <1>8 DEF TypeInv, HandlerInv, SubcribeOverLimit, SubcribeMissing, SubcribeOverRate,
                SubcribeAdmissible, SelectNone, HeadIs
  <2>2. t.conn \in Conns
    BY <1>1, <2>1, HeadTask DEF Conns
  <2>3. PICK m \in ConnTask : m.type \in {"SubcribeFailed", "SubcribeRetry"} /\ Answer(m)
    <3>1. CASE SubcribeOverLimit
      <4>1. [type |-> "SubcribeFailed", code |-> "limit"] \in ConnTask
        BY DEF ConnTask
      <4> QED BY <3>1, <4>1 DEF SubcribeOverLimit
    <3>2. CASE SubcribeOverRate
      <4>1. [type |-> "SubcribeFailed", code |-> "rate"] \in ConnTask
        BY DEF ConnTask
      <4> QED BY <3>2, <4>1 DEF SubcribeOverRate
    <3>3. CASE SubcribeMissing \/ SelectNone
      <4>1. /\ Unavailable(t.excluded) \in ConnTask
            /\ Unavailable(t.excluded).type \in {"SubcribeFailed", "SubcribeRetry"}
        BY DEF ConnTask, Unavailable
      <4> QED BY <3>3, <4>1 DEF SubcribeMissing, SelectNone
    <3> QED BY <1>8, <3>1, <3>2, <3>3
  <2> QED BY <1>7, <2>2, <2>3
<1> QED BY <1>2, <1>3, <1>4, <1>5, <1>6, <1>8

\* Only a registration names something new, and it takes the next generation.
LEMMA NextNames ==
    ASSUME TypeInv, [Next]_vars, NEW g \in Nat, NEW k \in Keys, Names(g, k)'
    PROVE  \/ Names(g, k)
           \/ Register /\ g = nextGen /\ k = KeyOf[Head(queue).conn]
BY HandlerNames, RegisterNames, StreamNames, SelectOkNames, OtherTasksNames DEF Manager

\* Only a registration takes a generation.
LEMMA NextGenerations ==
    ASSUME TypeInv, [Next]_vars
    PROVE  nextGen' = IF Register THEN nextGen + 1 ELSE nextGen
<1>1. CASE ~Manager
  BY <1>1, HandlersKeepManager DEF managerVars, Manager
<1>2. CASE Register
  BY <1>2 DEF Register
<1>3. CASE Manager /\ ~Register
  BY <1>3
  DEF Manager, Accept, AcceptStream, RegisterFail, StreamAck, Stream, SubcribeOverLimit,
      SubcribeMissing, SubcribeOverRate, SubcribeAdmit, SelectNone, Answer, managerVars,
      DeRegisterServerConn, RetireServerConn, SelectFailed, Unregister, DeRegisterClientConn,
      SelectOk
<1> QED BY <1>1, <1>2, <1>3

LEMMA NextGenerationInv == TypeInv /\ GenerationInv /\ [Next]_vars => GenerationInv'
<1> SUFFICES ASSUME TypeInv, GenerationInv, [Next]_vars,
                    NEW g \in Nat, NEW k \in Keys, NEW l \in Keys, Names(g, k)'
             PROVE  g < nextGen' /\ (Names(g, l)' => k = l)
  BY DEF GenerationInv
<1>1. nextGen \in Nat /\ nextGen' = IF Register THEN nextGen + 1 ELSE nextGen
  BY NextGenerations DEF TypeInv, TypeOK
<1>2. Names(g, k) \/ (Register /\ g = nextGen /\ k = KeyOf[Head(queue).conn])
  BY NextNames
<1>3. Names(g, l)' => Names(g, l) \/ (Register /\ g = nextGen /\ l = KeyOf[Head(queue).conn])
  BY NextNames
<1>4. Names(g, k) => g < nextGen /\ (Names(g, l) => k = l)
  BY DEF GenerationInv
<1>5. Names(g, l) => g < nextGen
  BY DEF GenerationInv
<1> HIDE DEF Names
<1> QED BY <1>1, <1>2, <1>3, <1>4, <1>5

\* A client starts to forward when it receives its stream, and only then.
LEMMA ForwardingStarts ==
    ASSUME TypeInv, [Next]_vars, NEW d \in Clients, phase'[d] = "forwarding", ~RecvStream(d)
    PROVE  phase[d] = "forwarding" /\ peer'[d] = peer[d]
<1> DEFINE Kept == phase[d] = "forwarding" /\ peer'[d] = peer[d]
<1>1. /\ phase \in [Conns -> ServerPhases \cup ClientPhases] /\ d \in Conns
      /\ peer \in [Clients -> Servers \cup {None}]
  BY DEF TypeInv, TypeOK, Conns
<1>2. ASSUME NEW c \in Conns, NEW p, p # "forwarding", Goto(c, p), UNCHANGED peer PROVE Kept
  BY <1>1, <1>2 DEF Goto
<1>3. ASSUME NEW c \in Conns, NEW p, p # "forwarding", Goto(c, p), Forget(c) PROVE Kept
  <2>1. d # c
    BY <1>1, <1>3 DEF Goto
  <2> QED BY <1>1, <1>3, <2>1 DEF Goto, Forget
<1>4. CASE UNCHANGED <<phase, peer>>
  BY <1>4
<1>5. CASE Manager
  <2>1. CASE Accept
    BY <1>1, <2>1 DEF Accept
  <2>2. CASE ~Accept
    <3>1. UNCHANGED <<phase, handlerVars>>
      BY <1>5, <2>2
      DEF Manager, AcceptStream, RegisterFail, Register, StreamAck, Stream, SubcribeOverLimit,
          SubcribeMissing, SubcribeOverRate, SubcribeAdmit, SelectNone, Answer,
          DeRegisterServerConn, RetireServerConn, SelectFailed, DeRegisterClientConn, SelectOk
    <3> QED BY <1>4, <3>1 DEF handlerVars
  <2> QED BY <2>1, <2>2
<1>6. ASSUME NEW c \in Conns, Connect(c) \/ Reject(c) \/ Deregister(c) \/ Cancel(c) PROVE Kept
  BY <1>2, <1>3, <1>6 DEF Connect, Reject, Deregister, Cancel, handlerVars
<1>7. ASSUME NEW s \in Servers, ServerStep(s) PROVE Kept
  <2>1. s \in Conns
    BY DEF Conns
  <2>2. CASE RecvRegisterFailed(s) \/ LoseSender(s) \/ RecvRetire(s) \/ LoseControl(s)
    BY <1>3, <2>1, <2>2 DEF RecvRegisterFailed, LoseSender, RecvRetire, LoseControl, Close
  <2>3. CASE SendRegister(s) \/ RecvRegistered(s)
    BY <1>2, <2>1, <2>3 DEF SendRegister, RecvRegistered, handlerVars
  <2>4. CASE ForwardStreamReq(s) \/ IgnoreUnexpected(s) \/ ForwardStreamAck(s)
    BY <1>4, <2>4 DEF ForwardStreamReq, IgnoreUnexpected, ForwardStreamAck, handlerVars
  <2> QED BY <1>7, <2>2, <2>3, <2>4 DEF ServerStep
<1>8. ASSUME NEW c \in Clients, ClientStep(c) PROVE Kept
  <2>1. c \in Conns
    BY DEF Conns
  <2>2. CASE \/ RecoveryExpired(c) \/ RecvOther(c) \/ SubcribeTimeout(c) \/ LoseClient(c)
             \/ RecvNotStream(c) \/ FinishForwarding(c)
    BY <1>3, <2>1, <2>2
    DEF RecoveryExpired, RecvOther, SubcribeTimeout, LoseClient, RecvNotStream,
        FinishForwarding, Close
  <2>3. CASE StreamTimeout(c) \/ RecvStale(c)
    BY <1>2, <2>1, <2>3 DEF StreamTimeout, RecvStale, Exclude
  <2>4. CASE \/ SendSubcribe(c) \/ RecvSubcribeResp(c) \/ RecvSubcribeRetry(c)
             \/ RecvStreamAck(c)
    BY <1>2, <2>1, <2>4
    DEF SendSubcribe, RecvSubcribeResp, RecvSubcribeRetry, RecvStreamAck, handlerVars
  <2>5. CASE RecvStream(c)
    <3>1. c # d
      BY <2>5
    <3> QED BY <1>1, <2>5, <3>1 DEF RecvStream, Goto
  <2> QED BY <1>8, <2>2, <2>3, <2>4, <2>5 DEF ClientStep
<1>9. CASE SendDeferred \/ Dial \/ SendStream
  BY <1>4, <1>9 DEF SendDeferred, Dial, SendStream, handlerVars
<1> QED BY <1>4, <1>5, <1>6, <1>7, <1>8, <1>9 DEF Next, vars, handlerVars

\* The stream a client accepts carries the generation of its attempt, and a
\* generation names one service.
LEMMA RecvStreamIsolated ==
    ASSUME TypeInv, GenerationInv, NEW c \in Clients, RecvStream(c)
    PROVE  KeyOf[peer'[c]] = KeyOf[c]
<1> DEFINE m == Head(inbox[c])
<1>1. /\ TypeOK /\ c \in Conns /\ inbox[c] \in Seq(ConnTask) /\ attempt[c] \in Target
  BY DEF TypeInv, TypeOK, HandlerInv, RecvStream, Conns
<1>2. /\ inbox[c] # <<>> /\ m.type = "StreamResp" /\ m.gen = attempt[c].gen
      /\ peer' = [peer EXCEPT ![c] = m.srv]
  BY DEF RecvStream, IsStream, Received
<1>3. m \in Range(inbox[c]) /\ m.srv \in Servers /\ m.gen \in Nat
  BY <1>1, <1>2, TailRange, HeadMessage
<1>4. peer'[c] = m.srv
  BY <1>1, <1>2 DEF TypeOK
<1>5. KeyOf[c] \in Keys /\ KeyOf[m.srv] \in Keys
  BY <1>1, <1>3, ConnAssumption DEF Conns
<1>6. attempt[c] # None
  BY <1>1, ConnAssumption DEF Target
<1> HIDE DEF m
<1>7. AnswerNames(m.gen, KeyOf[m.srv])
  BY <1>1, <1>2, <1>3 DEF AnswerNames, MessageNames
<1>8. AttemptNames(m.gen, KeyOf[c])
  BY <1>2, <1>6 DEF AttemptNames
<1>9. Names(m.gen, KeyOf[m.srv]) /\ Names(m.gen, KeyOf[c])
  BY <1>7, <1>8 DEF Names
<1>10. KeyOf[m.srv] = KeyOf[c]
  BY <1>3, <1>5, <1>9 DEF GenerationInv
<1> QED BY <1>4, <1>10

LEMMA NextIsolation == TypeInv /\ IsolationInv /\ [Next]_vars => IsolationInv'
<1> SUFFICES ASSUME TypeInv, IsolationInv, [Next]_vars PROVE IsolationInv'
  OBVIOUS
<1>1. GenerationInv'
  BY NextGenerationInv DEF IsolationInv
<1>2. ASSUME NEW c \in Clients, phase'[c] = "forwarding" PROVE KeyOf[peer'[c]] = KeyOf[c]
  <2>1. CASE RecvStream(c)
    BY <2>1, RecvStreamIsolated DEF IsolationInv
  <2>2. CASE ~RecvStream(c)
    <3>1. phase[c] = "forwarding" /\ peer'[c] = peer[c]
      BY <1>2, <2>2, ForwardingStarts
    <3> QED BY <3>1 DEF IsolationInv, StreamOfSubscribedService
  <2> QED BY <2>1, <2>2
<1> QED BY <1>1, <1>2 DEF IsolationInv, StreamOfSubscribedService

LEMMA InitIsolation == Init => IsolationInv
<1> SUFFICES ASSUME Init PROVE IsolationInv
  OBVIOUS
<1>1. \A c \in Clients : phase[c] = "new"
  BY DEF Init, Conns
<1>2. ASSUME NEW g \in Nat, NEW k \in Keys PROVE ~Names(g, k)
  <2>1. \A c \in Conns : Range(inbox[c]) = {}
    BY DEF Init, Range
  <2>2. \A c \in Clients : attempt[c] = None
    BY DEF Init
  <2> QED BY <2>1, <2>2
        DEF Init, Names, RegistryNames, PendingNames, AttemptNames, AnswerNames
<1> QED BY <1>1, <1>2 DEF IsolationInv, GenerationInv, StreamOfSubscribedService

\* A client is never joined with a stream of a service it did not subscribe to,
\* hence never with one of another namespace: although connection ids are
\* reused, answers are delayed, and a local server without generations is
\* matched by its service alone (ManagerTask::Stream, get_server_stream).
THEOREM ServiceIsolation == Spec => []StreamOfSubscribedService
<1>1. IsolationInv => StreamOfSubscribedService
  BY DEF IsolationInv
<1> QED BY <1>1, InitIsolation, NextIsolation, TypeInvariant, PTL DEF Spec

-----------------------------------------------------------------------------
(* Slots and attempts: what is owed to a client                              *)

\* A client handler that has subscribed, up to its deregistration.
Subscribed == {"subscribe", "await_sub", "await_ack", "await_ready", "forwarding", "closing"}
Ended == {"closing", "closed"}

Releases(t, i) == t.type = "DeRegisterClientConn" /\ t.id = i
Holds(c, i) == cid[c] = i /\ phase[c] \in Subscribed

\* The slot of id i will be released, by a handler that is still there or by a
\* task at or behind position n.
Owned(i, n) ==
    \/ \E c \in Clients : Holds(c, i)
    \/ \E t \in deferred : Releases(t, i)
    \/ \E m \in n .. Len(queue) : Releases(queue[m], i)

\* A connection is accepted once.
AcceptInv ==
    /\ \A m \in 1 .. Len(queue) :
          queue[m].type = "Accept" => phase[queue[m].conn] = "accepting"
    /\ \A m, n \in 1 .. Len(queue) :
          queue[m].type = "Accept" /\ queue[n].type = "Accept" /\ queue[m].conn = queue[n].conn
          => m = n

\* The subscribe that will fill a slot is followed by what releases it.
OwnedInv ==
    /\ \A p \in pending : Owned(p.client, 1)
    /\ \A n \in 1 .. Len(queue) :
          queue[n].type = "Subcribe" => Owned(queue[n].id, n + 1)

SlotsInv == AcceptInv /\ OwnedInv

-----------------------------------------------------------------------------
(* The queue as a sequence of positions *)

\* The first and the other elements of a queue that is served.
LEMMA Behind ==
    ASSUME NEW S, NEW s \in Seq(S), s # <<>>
    PROVE  /\ Len(s) \in Nat \ {0} /\ Len(Tail(s)) = Len(s) - 1 /\ Head(s) = s[1]
           /\ \A m \in 1 .. Len(Tail(s)) : m + 1 \in 1 .. Len(s) /\ Tail(s)[m] = s[m + 1]
<1>1. Len(Tail(s)) = Len(s) - 1 /\ \A i \in 1 .. Len(Tail(s)) : Tail(s)[i] = s[i + 1]
  BY HeadTailProperties
<1>2. Len(s) \in Nat \ {0} /\ Head(s) = s[1]
  BY EmptySeq, LenProperties
<1>3. ASSUME NEW m \in 1 .. Len(Tail(s)) PROVE m + 1 \in 1 .. Len(s)
  BY <1>1, <1>2
<1> QED BY <1>1, <1>2, <1>3

\* The elements of a queue that something was sent to.
LEMMA Ahead ==
    ASSUME NEW S, NEW s \in Seq(S), NEW e \in S
    PROVE  /\ Len(s) \in Nat /\ Len(Append(s, e)) = Len(s) + 1
           /\ \A m \in 1 .. Len(s) : m \in 1 .. Len(s) + 1 /\ Append(s, e)[m] = s[m]
           /\ Append(s, e)[Len(s) + 1] = e
           /\ \A m \in 1 .. Len(s) + 1 : m \in 1 .. Len(s) \/ m = Len(s) + 1
OBVIOUS

\* What a task carries.
LEMMA TaskFields ==
    ASSUME NEW t \in Task
    PROVE  /\ t.type = "Accept" => t.conn \in Conns
           /\ t.type = "Subcribe" => t.conn \in Clients /\ t.id \in Ids
BY DEF Task, Deregistration

-----------------------------------------------------------------------------
(* What the steps of handlers do to clients and queue *)

\* A server handler's step is nothing to the clients.
LEMMA ServerFrame ==
    ASSUME TypeInv, NEW s \in Servers, ServerStep(s)
    PROVE  /\ UNCHANGED <<deferred, cid>>
           /\ \A c \in Clients : /\ phase'[c] = phase[c] /\ excluded'[c] = excluded[c]
                                 /\ attempt'[c] = attempt[c] /\ inbox'[c] = inbox[c]
           /\ \A c \in Conns : phase[c] = "accepting" => phase'[c] = "accepting"
           /\ \/ queue' = queue
              \/ \E t \in Task : t.type \in {"Register", "StreamAck"} /\ queue' = Append(queue, t)
<1>1. /\ s \in Conns /\ \A c \in Clients : c \in Conns /\ c # s
      /\ phase \in [Conns -> ServerPhases \cup ClientPhases] /\ inbox \in [Conns -> Seq(ConnTask)]
      /\ excluded \in [Clients -> SUBSET Target] /\ attempt \in [Clients -> Target \cup {None}]
      /\ cid[s] \in Ids \cup {None} /\ toAck \subseteq Request
  BY ConnAssumption DEF TypeInv, TypeOK, Conns
<1>2. ASSUME Close(s)
      PROVE  /\ cid' = cid
             /\ \A c \in Clients : /\ phase'[c] = phase[c] /\ excluded'[c] = excluded[c]
                                   /\ attempt'[c] = attempt[c] /\ inbox'[c] = inbox[c]
             /\ \A c \in Conns : c # s => phase'[c] = phase[c]
  BY <1>1, <1>2 DEF Close, Goto, Forget
<1>3. CASE RecvRegisterFailed(s) \/ LoseSender(s) \/ RecvRetire(s) \/ LoseControl(s)
  BY <1>1, <1>2, <1>3 DEF RecvRegisterFailed, LoseSender, RecvRetire, LoseControl
<1>4. CASE RecvRegistered(s)
  BY <1>1, <1>4 DEF RecvRegistered, Take, Goto
<1>5. CASE ForwardStreamReq(s) \/ IgnoreUnexpected(s)
  BY <1>1, <1>5 DEF ForwardStreamReq, IgnoreUnexpected, Take, handlerVars
<1>6. CASE SendRegister(s)
  <2>1. [type |-> "Register", conn |-> s, id |-> cid[s]] \in Task
    BY <1>1, <1>6 DEF SendRegister, TypeInv, HandlerInv, Task
  <2> QED BY <1>1, <1>6, <2>1 DEF SendRegister, Send, Goto, handlerVars
<1>7. CASE ForwardStreamAck(s)
  <2>1. PICK q \in toAck :
          queue' = Append(queue, [type |-> "StreamAck", server |-> cid[s],
                                  client |-> q.client, gen |-> q.gen])
    BY <1>7 DEF ForwardStreamAck, Send
  <2>2. [type |-> "StreamAck", server |-> cid[s], client |-> q.client, gen |-> q.gen] \in Task
    BY <1>1, <1>7 DEF ForwardStreamAck, TypeInv, HandlerInv, Task, Request
  <2> QED BY <1>1, <1>7, <2>1, <2>2 DEF ForwardStreamAck, handlerVars
<1> QED BY <1>3, <1>4, <1>5, <1>6, <1>7, <1>1 DEF ServerStep

\* A client handler's step moves that client only, keeps its id, and sends a
\* subscribe, a retirement or nothing.
LEMMA ClientFrame ==
    ASSUME TypeInv, NEW c \in Clients, ClientStep(c)
    PROVE  /\ UNCHANGED <<deferred, cid>>
           /\ \A d \in Conns : d # c => phase'[d] = phase[d] /\ inbox'[d] = inbox[d]
           /\ \A d \in Clients : d # c => excluded'[d] = excluded[d] /\ attempt'[d] = attempt[d]
           /\ phase[c] # "accepting" /\ phase'[c] \in Subscribed
           /\ \/ queue' = queue /\ ~SendSubcribe(c)
              \/ \E t \in Task : t.type = "RetireServerConn" /\ queue' = Append(queue, t)
                                 /\ ~SendSubcribe(c)
              \/ \E t \in Task : /\ t.type = "Subcribe" /\ t.conn = c /\ t.id = cid[c]
                                 /\ t.excluded = excluded[c] /\ queue' = Append(queue, t)
                                 /\ SendSubcribe(c)
<1>1. /\ c \in Conns /\ phase \in [Conns -> ServerPhases \cup ClientPhases]
      /\ inbox \in [Conns -> Seq(ConnTask)] /\ cid[c] \in Ids \cup {None}
      /\ excluded \in [Clients -> SUBSET Target] /\ attempt \in [Clients -> Target \cup {None}]
      /\ KeyOf[c] \in Keys
  BY ConnAssumption DEF TypeInv, TypeOK, Conns
<1>2. ASSUME Close(c)
      PROVE  /\ cid' = cid /\ phase'[c] \in Subscribed
             /\ \A d \in Conns : d # c => phase'[d] = phase[d] /\ inbox'[d] = inbox[d]
             /\ \A d \in Clients : d # c => excluded'[d] = excluded[d] /\ attempt'[d] = attempt[d]
  BY <1>1, <1>2 DEF Close, Goto, Forget, Subscribed
<1>3. CASE RecoveryExpired(c) \/ RecvOther(c) \/ SubcribeTimeout(c) \/ LoseClient(c)
           \/ RecvNotStream(c) \/ FinishForwarding(c)
  BY <1>2, <1>3 DEF RecoveryExpired, RecvOther, SubcribeTimeout, LoseClient, RecvNotStream,
                    FinishForwarding, SendSubcribe
<1>4. CASE RecvSubcribeResp(c) \/ RecvSubcribeRetry(c) \/ RecvStreamAck(c) \/ RecvStream(c)
  BY <1>1, <1>4 DEF RecvSubcribeResp, RecvSubcribeRetry, RecvStreamAck, RecvStream, Take, Goto,
                    handlerVars, Subscribed, SendSubcribe
<1>5. CASE RecvStale(c)
  BY <1>1, <1>5 DEF RecvStale, Exclude, Take, Goto, Subscribed, SendSubcribe
<1>6. CASE StreamTimeout(c)
  <2>1. [type |-> "RetireServerConn", key |-> KeyOf[c], id |-> attempt[c].server] \in Task
    BY <1>1, <1>6 DEF StreamTimeout, TypeInv, HandlerInv, Task, Target
  <2> QED BY <1>1, <1>6, <2>1 DEF StreamTimeout, Exclude, Send, Goto, Subscribed, SendSubcribe
<1>7. CASE SendSubcribe(c)
  <2> DEFINE t == [type |-> "Subcribe", conn |-> c, id |-> cid[c], excluded |-> excluded[c]]
  <2>1. t \in Task
    BY <1>1, <1>7 DEF SendSubcribe, TypeInv, HandlerInv, Task
  <2> QED BY <1>1, <1>7, <2>1 DEF SendSubcribe, Send, Goto, handlerVars, Subscribed
<1> QED BY <1>3, <1>4, <1>5, <1>6, <1>7 DEF ClientStep

\* The last word of a client handler is its deregistration.
LEMMA LeaveFrame ==
    ASSUME TypeInv, NEW c \in Conns, Deregister(c) \/ Cancel(c)
    PROVE  /\ \A d \in Conns : d # c => /\ phase'[d] = phase[d] /\ cid'[d] = cid[d]
                                        /\ inbox'[d] = inbox[d]
           /\ \A d \in Clients : d # c => excluded'[d] = excluded[d] /\ attempt'[d] = attempt[d]
           /\ phase[c] # "accepting" /\ phase'[c] = "closed" /\ deferred \subseteq deferred'
           /\ \E t \in Task :
                /\ t.type \in {"DeRegisterServerConn", "DeRegisterClientConn"}
                /\ c \in Clients => Releases(t, cid[c])
                /\ \/ queue' = Append(queue, t)
                   \/ queue' = queue /\ t \in deferred'
<1>1. /\ phase \in [Conns -> ServerPhases \cup ClientPhases] /\ cid \in [Conns -> Ids \cup {None}]
      /\ inbox \in [Conns -> Seq(ConnTask)] /\ sid \in [Clients -> Ids \cup {None}]
      /\ excluded \in [Clients -> SUBSET Target] /\ attempt \in [Clients -> Target \cup {None}]
      /\ KeyOf \in [Conns -> Keys] /\ Servers \cap Clients = {}
      /\ phase[c] \notin {"new", "accepting", "closed"} /\ cid[c] # None
  BY ConnAssumption DEF TypeInv, TypeOK, HandlerInv, Deregister, Cancel, Guarded
<1> DEFINE t == DeregisterTask(c)
<1>2. /\ t \in Task /\ t.type \in {"DeRegisterServerConn", "DeRegisterClientConn"}
      /\ c \in Clients => Releases(t, cid[c])
  <2>1. CASE c \in Servers
    BY <1>1, <2>1 DEF DeregisterTask, Task, Deregistration, Conns
  <2>2. CASE c \in Clients
    BY <1>1, <2>2 DEF DeregisterTask, Task, Deregistration, Releases, Conns
  <2> QED BY <2>1, <2>2 DEF Conns
<1>3. CASE Deregister(c)
  <2>1. queue' = Append(queue, t) /\ deferred' = deferred /\ UNCHANGED <<inbox, excluded, attempt>>
        /\ phase' = [phase EXCEPT ![c] = "closed"] /\ cid' = [cid EXCEPT ![c] = None]
    BY <1>3 DEF Deregister, Send, Goto, Exit
  <2> HIDE DEF t
  <2> QED BY <1>1, <1>2, <2>1
<1>4. CASE Cancel(c)
  <2>1. /\ phase' = [phase EXCEPT ![c] = "closed"] /\ cid' = [cid EXCEPT ![c] = None]
        /\ inbox' = [inbox EXCEPT ![c] = <<>>]
        /\ attempt' = [x \in Clients |-> IF x = c THEN None ELSE attempt[x]]
        /\ excluded' = [x \in Clients |-> IF x = c THEN {} ELSE excluded[x]]
    BY <1>4 DEF Cancel, Goto, Exit, Forget
  <2>2. \/ queue' = Append(queue, t) /\ deferred' = deferred
        \/ queue' = queue /\ deferred' = deferred \cup {t}
    BY <1>4 DEF Cancel
  <2> HIDE DEF t
  <2>3. \A d \in Conns : d # c => phase'[d] = phase[d] /\ cid'[d] = cid[d] /\ inbox'[d] = inbox[d]
    BY <1>1, <2>1
  <2>4. \A d \in Clients : d # c => excluded'[d] = excluded[d] /\ attempt'[d] = attempt[d]
    BY <2>1
  <2> QED BY <1>1, <1>2, <2>1, <2>2, <2>3, <2>4
<1> QED BY <1>3, <1>4

\* What is sent on behalf of handlers that have ended, and of local servers.
LEMMA OtherFrame ==
    ASSUME TypeInv, SendDeferred \/ Dial \/ SendStream
    PROVE  /\ UNCHANGED <<phase, cid, inbox, excluded, attempt>>
           /\ \E t \in Task :
                /\ t.type \notin {"Accept", "Subcribe"} /\ queue' = Append(queue, t)
                /\ \A u \in deferred : u \in deferred' \/ u = t
<1>1. deferred \subseteq Deregistration /\ toDial \subseteq Request /\ dialled \subseteq StreamConn
  BY DEF TypeInv, TypeOK
<1>2. CASE SendDeferred
  <2>1. PICK t \in deferred : queue' = Append(queue, t) /\ deferred' = deferred \ {t}
    BY <1>2 DEF SendDeferred, Send
  <2>2. t \in Task /\ t.type \notin {"Accept", "Subcribe"}
    BY <1>1, <2>1 DEF Task, Deregistration
  <2> QED BY <1>2, <2>1, <2>2 DEF SendDeferred, handlerVars
<1>3. CASE Dial
  <2>1. PICK q \in toDial : queue' = Append(queue, [type |-> "AcceptStream", req |-> q])
    BY <1>3 DEF Dial, Send
  <2>2. [type |-> "AcceptStream", req |-> q] \in Task
    BY <1>1, <2>1 DEF Task
  <2> QED BY <1>3, <2>1, <2>2 DEF Dial, handlerVars
<1>4. CASE SendStream
  <2>1. PICK q \in dialled :
          queue' = Append(queue, [type |-> "Stream", srv |-> q.srv, sid |-> q.sid,
                                  client |-> q.client, gen |-> q.gen])
    BY <1>4 DEF SendStream, Send
  <2>2. [type |-> "Stream", srv |-> q.srv, sid |-> q.sid, client |-> q.client, gen |-> q.gen]
          \in Task
    BY <1>1, <2>1 DEF Task, StreamConn
  <2> QED BY <1>4, <2>1, <2>2 DEF SendStream, handlerVars
<1> QED BY <1>2, <1>3, <1>4

\* A connection that is accepted or turned away.
LEMMA ListenerFrame ==
    ASSUME TypeInv, NEW c \in Conns, Connect(c) \/ Reject(c)
    PROVE  /\ UNCHANGED <<deferred, inbox, excluded, attempt>>
           /\ \A d \in Conns : d # c => phase'[d] = phase[d] /\ cid'[d] = cid[d]
           /\ \/ /\ phase[c] = "new" /\ phase'[c] = "accepting"
                 /\ \E t \in Task : t.type = "Accept" /\ t.conn = c /\ queue' = Append(queue, t)
              \/ phase[c] = "accepted" /\ phase'[c] = "closed" /\ queue' = queue
<1>1. phase \in [Conns -> ServerPhases \cup ClientPhases] /\ cid \in [Conns -> Ids \cup {None}]
  BY DEF TypeInv, TypeOK
<1>2. CASE Connect(c)
  <2>1. [type |-> "Accept", conn |-> c] \in Task
    BY DEF Task
  <2> QED BY <1>1, <1>2, <2>1 DEF Connect, Send, Goto, handlerVars
<1>3. CASE Reject(c)
  BY <1>1, <1>3 DEF Reject, Goto, Exit
<1> QED BY <1>2, <1>3

-----------------------------------------------------------------------------
(* Handlers keep the order of the queue *)

\* What a handler step appends to the queue, if anything.
LEMMA HandlerQueue ==
    ASSUME TypeInv, AcceptInv, [Next]_vars, ~Manager
    PROVE  /\ \A c \in Conns : phase[c] = "accepting" => phase'[c] = "accepting"
           /\ \/ queue' = queue
              \/ \E t \in Task :
                   /\ queue' = Append(queue, t)
                   /\ t.type = "Accept" => phase[t.conn] = "new" /\ phase'[t.conn] = "accepting"
                   /\ t.type = "Subcribe" => Holds(t.conn, t.id)'
<1>1. ASSUME NEW c \in Conns, Connect(c) \/ Reject(c)
      PROVE  /\ \A d \in Conns : phase[d] = "accepting" => phase'[d] = "accepting"
             /\ \/ queue' = queue
                \/ \E t \in Task :
                     /\ queue' = Append(queue, t) /\ t.type = "Accept"
                     /\ phase[t.conn] = "new" /\ phase'[t.conn] = "accepting"
  BY <1>1, ListenerFrame
<1>2. ASSUME NEW c \in Conns, Deregister(c) \/ Cancel(c)
      PROVE  /\ \A d \in Conns : phase[d] = "accepting" => phase'[d] = "accepting"
             /\ \/ queue' = queue
                \/ \E t \in Task : /\ queue' = Append(queue, t)
                                   /\ t.type \in {"DeRegisterServerConn", "DeRegisterClientConn"}
  BY <1>2, LeaveFrame
<1>3. ASSUME NEW s \in Servers, ServerStep(s)
      PROVE  /\ \A d \in Conns : phase[d] = "accepting" => phase'[d] = "accepting"
             /\ \/ queue' = queue
                \/ \E t \in Task : queue' = Append(queue, t) /\ t.type \in {"Register", "StreamAck"}
  BY <1>3, ServerFrame
<1>4. ASSUME NEW c \in Clients, ClientStep(c)
      PROVE  /\ \A d \in Conns : phase[d] = "accepting" => phase'[d] = "accepting"
             /\ \/ queue' = queue
                \/ \E t \in Task : /\ queue' = Append(queue, t)
                                   /\ \/ t.type = "RetireServerConn"
                                      \/ t.type = "Subcribe" /\ Holds(t.conn, t.id)'
  <2>1. \A d \in Conns : phase[d] = "accepting" => phase'[d] = "accepting"
    BY <1>4, ClientFrame
  <2>2. cid' = cid /\ phase'[c] \in Subscribed
    BY <1>4, ClientFrame
  <2>3. \/ queue' = queue
        \/ \E t \in Task : t.type = "RetireServerConn" /\ queue' = Append(queue, t)
        \/ \E t \in Task : t.type = "Subcribe" /\ t.conn = c /\ t.id = cid[c]
                           /\ queue' = Append(queue, t)
    BY <1>4, ClientFrame
  <2> QED BY <2>1, <2>2, <2>3 DEF Holds
<1>5. CASE SendDeferred \/ Dial \/ SendStream
  <2>1. phase' = phase
        /\ \E t \in Task : queue' = Append(queue, t) /\ t.type \notin {"Accept", "Subcribe"}
    BY <1>5, OtherFrame
  <2> QED BY <2>1
<1>6. CASE UNCHANGED vars
  BY <1>6 DEF vars
<1> QED BY <1>1, <1>2, <1>3, <1>4, <1>5, <1>6 DEF Next

\* A client that holds an id goes on holding it, or leaves what releases it.
LEMMA HandlerHolds ==
    ASSUME TypeInv, [Next]_vars, ~Manager, NEW c \in Clients, NEW i, Holds(c, i)
    PROVE  \/ Holds(c, i)'
           \/ \E t \in deferred' : Releases(t, i)
           \/ \E t \in Task : queue' = Append(queue, t) /\ Releases(t, i)
<1>1. c \in Conns /\ phase[c] \notin {"new", "accepting", "accepted", "closed"}
  BY DEF Holds, Subscribed, Conns
<1>2. ASSUME NEW d \in Conns, Connect(d) \/ Reject(d) PROVE Holds(c, i)'
  <2>1. d # c
    BY <1>1, <1>2 DEF Connect, Reject
  <2> QED BY <1>1, <1>2, <2>1, ListenerFrame DEF Holds
<1>3. ASSUME NEW d \in Conns, Deregister(d) \/ Cancel(d)
      PROVE  \/ Holds(c, i)'
             \/ \E t \in deferred' : Releases(t, i)
             \/ \E t \in Task : queue' = Append(queue, t) /\ Releases(t, i)
  <2>1. CASE d # c
    BY <1>1, <1>3, <2>1, LeaveFrame DEF Holds
  <2>2. CASE d = c
    <3>1. PICK t \in Task : /\ Releases(t, cid[c])
                            /\ queue' = Append(queue, t) \/ t \in deferred'
      BY <1>3, <2>2, LeaveFrame
    <3> QED BY <3>1 DEF Holds
  <2> QED BY <2>1, <2>2
<1>4. ASSUME NEW s \in Servers, ServerStep(s) PROVE Holds(c, i)'
  BY <1>4, ServerFrame DEF Holds
<1>5. ASSUME NEW d \in Clients, ClientStep(d) PROVE Holds(c, i)'
  <2>1. cid' = cid /\ (d = c => phase'[c] \in Subscribed) /\ (d # c => phase'[c] = phase[c])
    BY <1>1, <1>5, ClientFrame
  <2> QED BY <2>1 DEF Holds
<1>6. CASE SendDeferred \/ Dial \/ SendStream
  BY <1>6, OtherFrame DEF Holds
<1>7. CASE UNCHANGED vars
  BY <1>7 DEF vars, handlerVars, Holds
<1> QED BY <1>2, <1>3, <1>4, <1>5, <1>6, <1>7 DEF Next

\* A deferred deregistration stays deferred until it is sent.
LEMMA HandlerDeferred ==
    ASSUME TypeInv, [Next]_vars, ~Manager, NEW u \in deferred
    PROVE  u \in deferred' \/ (u \in Task /\ queue' = Append(queue, u))
<1>1. ASSUME NEW c \in Conns, Connect(c) \/ Reject(c) \/ Deregister(c) \/ Cancel(c)
      PROVE  u \in deferred'
  BY <1>1, ListenerFrame, LeaveFrame
<1>2. ASSUME NEW s \in Servers, ServerStep(s) PROVE u \in deferred'
  BY <1>2, ServerFrame
<1>3. ASSUME NEW c \in Clients, ClientStep(c) PROVE u \in deferred'
  BY <1>3, ClientFrame
<1>4. CASE SendDeferred \/ Dial \/ SendStream
  BY <1>4, OtherFrame
<1>5. CASE UNCHANGED vars
  BY <1>5 DEF vars
<1> QED BY <1>1, <1>2, <1>3, <1>4, <1>5 DEF Next

\* So whatever releases an id goes on doing so.
LEMMA HandlerOwned ==
    ASSUME TypeInv, AcceptInv, [Next]_vars, ~Manager, NEW i, NEW n \in 1 .. Len(queue) + 1,
           Owned(i, n)
    PROVE  Owned(i, n)'
<1>1. queue \in Seq(Task) /\ Len(queue) \in Nat
  BY DEF TypeInv, TypeOK
<1>2. ASSUME NEW t \in Task, queue' = Append(queue, t)
      PROVE  /\ \A m \in n .. Len(queue) : m \in n .. Len(queue') /\ queue'[m] = queue[m]
             /\ Releases(t, i) => Owned(i, n)'
  <2>1. /\ Len(queue') = Len(queue) + 1 /\ queue'[Len(queue) + 1] = t
        /\ \A m \in 1 .. Len(queue) : queue'[m] = queue[m]
    BY <1>1, <1>2, Ahead
  <2>2. \A m \in n .. Len(queue) : m \in 1 .. Len(queue) /\ m \in n .. Len(queue')
    BY <1>1, <2>1
  <2>3. Len(queue) + 1 \in n .. Len(queue')
    BY <1>1, <2>1
  <2> QED BY <2>1, <2>2, <2>3 DEF Owned
<1>3. CASE \E c \in Clients : Holds(c, i)
  BY <1>2, <1>3, HandlerHolds DEF Owned
<1>4. CASE \E t \in deferred : Releases(t, i)
  BY <1>2, <1>4, HandlerDeferred DEF Owned
<1>5. CASE \E m \in n .. Len(queue) : Releases(queue[m], i)
  <2>1. queue' = queue \/ \E t \in Task : queue' = Append(queue, t)
    BY HandlerQueue
  <2> QED BY <1>2, <1>5, <2>1 DEF Owned
<1> QED BY <1>3, <1>4, <1>5 DEF Owned

\* A handler's step leaves every slot with someone who will release it.
LEMMA HandlerSlots ==
    ASSUME TypeInv, SlotsInv, [Next]_vars, ~Manager
    PROVE  SlotsInv'
<1>1. queue \in Seq(Task) /\ Len(queue) \in Nat /\ \A m \in 1 .. Len(queue) : queue[m] \in Task
  BY DEF TypeInv, TypeOK
<1>2. UNCHANGED pending
  BY HandlersKeepManager DEF managerVars
<1>3. /\ \A c \in Conns : phase[c] = "accepting" => phase'[c] = "accepting"
      /\ \/ queue' = queue
         \/ \E t \in Task :
              /\ queue' = Append(queue, t)
              /\ t.type = "Accept" => phase[t.conn] = "new" /\ phase'[t.conn] = "accepting"
              /\ t.type = "Subcribe" => Holds(t.conn, t.id)'
  BY HandlerQueue DEF SlotsInv
<1>4. \A p \in pending' : Owned(p.client, 1)'
  <2> SUFFICES ASSUME NEW p \in pending PROVE \A i : i = p.client => Owned(i, 1)'
    BY <1>2
  <2>1. 1 \in 1 .. Len(queue) + 1 /\ Owned(p.client, 1)
    BY <1>1 DEF SlotsInv, OwnedInv
  <2> QED BY <2>1, HandlerOwned DEF SlotsInv
<1>5. \A n \in 1 .. Len(queue) : \A i :
         queue[n].type = "Subcribe" /\ i = queue[n].id => Owned(i, n + 1)'
  <2> SUFFICES ASSUME NEW n \in 1 .. Len(queue), NEW i,
                      queue[n].type = "Subcribe", i = queue[n].id
               PROVE  Owned(i, n + 1)'
    OBVIOUS
  <2>1. n + 1 \in 1 .. Len(queue) + 1 /\ Owned(i, n + 1)
    BY <1>1 DEF SlotsInv, OwnedInv
  <2> QED BY <2>1, HandlerOwned DEF SlotsInv
<1>6. CASE queue' = queue
  <2>1. AcceptInv'
    BY <1>1, <1>3, <1>6, TaskFields DEF SlotsInv, AcceptInv
  <2>2. OwnedInv'
    BY <1>4, <1>5, <1>6 DEF OwnedInv
  <2> QED BY <2>1, <2>2 DEF SlotsInv
<1>7. CASE queue' # queue
  <2>1. PICK t \in Task :
              /\ queue' = Append(queue, t)
              /\ t.type = "Accept" => phase[t.conn] = "new" /\ phase'[t.conn] = "accepting"
              /\ t.type = "Subcribe" => Holds(t.conn, t.id)'
    BY <1>3, <1>7
  <2>2. /\ Len(queue') = Len(queue) + 1 /\ queue'[Len(queue) + 1] = t
        /\ \A m \in 1 .. Len(queue) : queue'[m] = queue[m]
        /\ \A m \in 1 .. Len(queue') : m \in 1 .. Len(queue) \/ m = Len(queue) + 1
    BY <1>1, <2>1, Ahead
  <2>3. AcceptInv'
    BY <1>1, <1>3, <2>1, <2>2, TaskFields DEF SlotsInv, AcceptInv
  <2>4. \A i, n : t.type = "Subcribe" /\ i = t.id => Owned(i, n)'
    BY <2>1, TaskFields DEF Owned
  <2>5. \A n \in 1 .. Len(queue') : \A i :
           queue'[n].type = "Subcribe" /\ i = queue'[n].id => Owned(i, n + 1)'
    BY <1>1, <1>5, <2>2, <2>4
  <2> QED BY <1>4, <2>3, <2>5 DEF OwnedInv, SlotsInv
<1> QED BY <1>6, <1>7

-----------------------------------------------------------------------------
(* The manager serves the queue in order *)

\* A task the manager serves is taken off the queue, and moves no handler but the
\* one it accepts.
LEMMA ManagerFrame ==
    ASSUME TypeInv, Manager
    PROVE  /\ deferred' = deferred
           /\ queue' = queue \/ (queue # <<>> /\ queue' = Tail(queue))
           /\ \/ UNCHANGED <<phase, cid>>
              \/ /\ queue # <<>> /\ Head(queue).type = "Accept" /\ queue' = Tail(queue)
                 /\ phase' = [phase EXCEPT ![Head(queue).conn] = "accepted"]
                 /\ \A c \in Conns : c # Head(queue).conn => cid'[c] = cid[c]
<1>1. selecting => queue # <<>>
  BY DEF TypeInv, HandlerInv
<1>2. CASE Accept
  BY <1>2 DEF Accept, HeadIs, Served, TypeInv, TypeOK
<1>3. CASE AcceptStream \/ RegisterFail \/ Register \/ DeRegisterServerConn \/ RetireServerConn
           \/ DeRegisterClientConn \/ StreamAck \/ Stream
  BY <1>3 DEF AcceptStream, RegisterFail, Register, DeRegisterServerConn, RetireServerConn,
              DeRegisterClientConn, StreamAck, Stream, HeadIs, Served, handlerVars
<1>4. ASSUME NEW m, Answer(m) PROVE UNCHANGED <<deferred, phase, cid>> /\ queue' = Tail(queue)
  BY <1>4 DEF Answer, Served, handlerVars
<1>5. CASE SubcribeOverLimit \/ SubcribeMissing \/ SubcribeOverRate
  <2>1. queue # <<>> /\ \E m : Answer(m)
    BY <1>5 DEF SubcribeOverLimit, SubcribeMissing, SubcribeOverRate, SubcribeAdmissible, HeadIs
  <2> QED BY <1>4, <2>1
<1>6. CASE SelectNone
  BY <1>1, <1>4, <1>6 DEF SelectNone
<1>7. CASE SubcribeAdmit \/ SelectFailed
  BY <1>7 DEF SubcribeAdmit, SelectFailed, handlerVars
<1>8. CASE SelectOk
  BY <1>1, <1>8 DEF SelectOk, Served, handlerVars
<1> QED BY <1>2, <1>3, <1>5, <1>6, <1>7, <1>8 DEF Manager

\* Serving a task leaves an id owned by what is behind that task.
LEMMA ManagerOwned ==
    ASSUME TypeInv, AcceptInv, Manager, NEW i, NEW n \in Nat \ {0}
    PROVE  /\ queue' = queue /\ Owned(i, n) => Owned(i, n)'
           /\ queue # <<>> /\ queue' = Tail(queue) /\ Owned(i, n + 1) => Owned(i, n)'
<1>1. queue \in Seq(Task) /\ phase \in [Conns -> ServerPhases \cup ClientPhases]
  BY DEF TypeInv, TypeOK
<1>2. ASSUME NEW c \in Clients, Holds(c, i) PROVE Holds(c, i)'
  <2>1. c \in Conns /\ phase[c] # "accepting"
    BY <1>2 DEF Holds, Subscribed, Conns
  <2>2. CASE UNCHANGED <<phase, cid>>
    BY <1>2, <2>2 DEF Holds
  <2>3. CASE /\ queue # <<>> /\ Head(queue).type = "Accept" /\ queue' = Tail(queue)
             /\ phase' = [phase EXCEPT ![Head(queue).conn] = "accepted"]
             /\ \A d \in Conns : d # Head(queue).conn => cid'[d] = cid[d]
    <3>1. phase[Head(queue).conn] = "accepting"
      BY <1>1, <2>3, Behind DEF AcceptInv
    <3>2. c # Head(queue).conn
      BY <2>1, <3>1
    <3> QED BY <1>1, <1>2, <2>1, <2>3, <3>2 DEF Holds
  <2> QED BY <2>2, <2>3, ManagerFrame
<1>3. deferred' = deferred
  BY ManagerFrame
<1>4. ASSUME queue # <<>>, queue' = Tail(queue),
             NEW m \in n + 1 .. Len(queue), Releases(queue[m], i)
      PROVE  \E k \in n .. Len(queue') : Releases(queue'[k], i)
  <2>1. /\ Len(queue) \in Nat /\ Len(queue') = Len(queue) - 1
        /\ \A k \in 1 .. Len(queue') : queue'[k] = queue[k + 1]
    BY <1>1, <1>4, Behind
  <2>2. m \in Int /\ m - 1 \in n .. Len(queue') /\ m - 1 \in 1 .. Len(queue') /\ (m - 1) + 1 = m
    BY <2>1
  <2>3. queue'[m - 1] = queue[m]
    BY <2>1, <2>2
  <2> QED BY <1>4, <2>2, <2>3
<1> QED BY <1>2, <1>3, <1>4 DEF Owned

\* The slots the manager keeps or files: every old one was not released by the
\* task it serves, a new one is the subscribe's.
LEMMA ManagerPending ==
    ASSUME TypeInv, Manager, NEW p \in pending'
    PROVE  \/ /\ p \in pending
              /\ queue # <<>> /\ queue' = Tail(queue) => ~Releases(Head(queue), p.client)
           \/ /\ queue # <<>> /\ queue' = Tail(queue)
              /\ Head(queue).type = "Subcribe" /\ p.client = Head(queue).id
<1>1. selecting => queue # <<>> /\ Head(queue).type = "Subcribe"
  BY DEF TypeInv, HandlerInv
<1>2. CASE Accept \/ AcceptStream \/ RegisterFail \/ Register
  BY <1>2 DEF Accept, AcceptStream, RegisterFail, Register, HeadIs, managerVars, Releases
<1>3. CASE DeRegisterServerConn \/ RetireServerConn
  BY <1>3 DEF DeRegisterServerConn, RetireServerConn, Unregister, HeadIs, Releases
<1>4. CASE DeRegisterClientConn
  BY <1>4 DEF DeRegisterClientConn, PendingOf, HeadIs, Releases
<1>5. CASE StreamAck \/ Stream
  BY <1>5 DEF StreamAck, Stream, HeadIs, managerVars, Releases
<1>6. CASE SubcribeOverLimit \/ SubcribeMissing \/ SubcribeOverRate \/ SubcribeAdmit
  BY <1>6 DEF SubcribeOverLimit, SubcribeMissing, SubcribeOverRate, SubcribeAdmit,
              SubcribeAdmissible, Answer, HeadIs, managerVars, Releases
<1>7. CASE SelectFailed \/ SelectNone
  BY <1>1, <1>7 DEF SelectFailed, SelectNone, Unregister, Answer, managerVars, Releases
<1>8. CASE SelectOk
  BY <1>1, <1>8 DEF SelectOk, Served, PendingOf, Releases
<1> QED BY <1>2, <1>3, <1>4, <1>5, <1>6, <1>7, <1>8 DEF Manager

\* Serving a task leaves every slot with someone who will release it.
LEMMA ManagerSlots ==
    ASSUME TypeInv, SlotsInv, Manager
    PROVE  SlotsInv'
<1>1. /\ queue \in Seq(Task) /\ Len(queue) \in Nat /\ \A m \in 1 .. Len(queue) : queue[m] \in Task
      /\ phase \in [Conns -> ServerPhases \cup ClientPhases]
  BY DEF TypeInv, TypeOK
<1>2. CASE queue' = queue
  <2>1. UNCHANGED phase
    <3>1. queue # <<>> => queue # Tail(queue)
      BY <1>1, Behind
    <3> QED BY <1>2, <3>1, ManagerFrame
  <2>2. AcceptInv'
    BY <1>2, <2>1 DEF SlotsInv, AcceptInv
  <2>3. \A i : \A n \in Nat \ {0} : Owned(i, n) => Owned(i, n)'
    BY <1>2, ManagerOwned DEF SlotsInv
  <2>4. \A p \in pending' : p \in pending
    <3>1. queue # <<>> => queue # Tail(queue)
      BY <1>1, Behind
    <3> QED BY <1>2, <3>1, ManagerPending
  <2>5. \A p \in pending' : Owned(p.client, 1)'
    <3> SUFFICES ASSUME NEW p \in pending' PROVE \A i : i = p.client => Owned(i, 1)'
      OBVIOUS
    <3> QED BY <2>3, <2>4 DEF SlotsInv, OwnedInv
  <2>6. \A n \in 1 .. Len(queue') : \A i :
           queue'[n].type = "Subcribe" /\ i = queue'[n].id => Owned(i, n + 1)'
    BY <1>1, <1>2, <2>3 DEF SlotsInv, OwnedInv
  <2> QED BY <2>2, <2>5, <2>6 DEF SlotsInv, OwnedInv
<1>3. CASE queue # <<>> /\ queue' = Tail(queue)
  <2>1. /\ Len(queue) \in Nat \ {0} /\ Len(queue') = Len(queue) - 1 /\ Head(queue) = queue[1]
        /\ \A m \in 1 .. Len(queue') : m + 1 \in 1 .. Len(queue) /\ queue'[m] = queue[m + 1]
    BY <1>1, <1>3, Behind
  <2>2. 1 \in 1 .. Len(queue)
    BY <2>1
  <2>3. AcceptInv'
    <3>1. \A m, n \in 1 .. Len(queue') :
             queue'[m].type = "Accept" /\ queue'[n].type = "Accept"
             /\ queue'[m].conn = queue'[n].conn => m = n
      BY <2>1 DEF SlotsInv, AcceptInv
    <3>2. ASSUME NEW m \in 1 .. Len(queue'), queue'[m].type = "Accept"
          PROVE  phase'[queue'[m].conn] = "accepting"
      <4>1. /\ m + 1 \in 1 .. Len(queue) /\ m + 1 # 1 /\ queue'[m] = queue[m + 1]
            /\ queue[m + 1] \in Task
        BY <1>1, <2>1
      <4>2. phase[queue'[m].conn] = "accepting" /\ queue'[m].conn \in Conns
        BY <3>2, <4>1, TaskFields DEF SlotsInv, AcceptInv
      <4>3. queue[1].type = "Accept" => queue[1].conn # queue'[m].conn
        BY <2>2, <3>2, <4>1 DEF SlotsInv, AcceptInv
      <4> QED BY <1>1, <2>1, <4>2, <4>3, ManagerFrame
    <3> QED BY <3>1, <3>2 DEF AcceptInv
  <2>4. \A i : \A n \in Nat \ {0} : Owned(i, n + 1) => Owned(i, n)'
    BY <1>3, ManagerOwned DEF SlotsInv
  <2>5. \A p \in pending' : Owned(p.client, 1)'
    <3> SUFFICES ASSUME NEW p \in pending', NEW i, i = p.client PROVE Owned(i, 1)'
      OBVIOUS
    <3>1. CASE p \in pending /\ ~Releases(queue[1], i)
      <4>1. Owned(i, 1) => Owned(i, 1 + 1)
        <5>1. \A m \in 1 .. Len(queue) : m # 1 => m \in 1 + 1 .. Len(queue)
          BY <2>1
        <5> QED BY <3>1, <5>1 DEF Owned
      <4> QED BY <2>4, <3>1, <4>1 DEF SlotsInv, OwnedInv
    <3>2. CASE queue[1].type = "Subcribe" /\ i = queue[1].id
      <4>1. Owned(i, 1 + 1)
        BY <2>2, <3>2 DEF SlotsInv, OwnedInv
      <4> QED BY <2>4, <4>1
    <3> QED BY <1>3, <2>1, <3>1, <3>2, ManagerPending
  <2>6. \A n \in 1 .. Len(queue') : \A i :
           queue'[n].type = "Subcribe" /\ i = queue'[n].id => Owned(i, n + 1)'
    <3> SUFFICES ASSUME NEW n \in 1 .. Len(queue'), NEW i,
                        queue'[n].type = "Subcribe", i = queue'[n].id
                 PROVE  Owned(i, n + 1)'
      OBVIOUS
    <3>1. n + 1 \in 1 .. Len(queue) /\ n + 1 \in Nat \ {0} /\ queue'[n] = queue[n + 1]
      BY <2>1
    <3>2. Owned(i, (n + 1) + 1)
      BY <3>1 DEF SlotsInv, OwnedInv
    <3> QED BY <2>4, <3>1, <3>2
  <2> QED BY <2>3, <2>5, <2>6 DEF SlotsInv, OwnedInv
<1> QED BY <1>2, <1>3, ManagerFrame

-----------------------------------------------------------------------------
(* A pending slot is never orphaned *)

\* Every step keeps the slots owned.
LEMMA NextSlots == TypeInv /\ SlotsInv /\ [Next]_vars => SlotsInv'
BY HandlerSlots, ManagerSlots

\* An idle relay has no slot.
LEMMA InitSlots == Init => SlotsInv
BY DEF Init, SlotsInv, AcceptInv, OwnedInv

\* Who owns a slot is who releases it.
LEMMA SlotsOwned == TypeInv /\ SlotsInv => SlotsAreOwned
<1> SUFFICES ASSUME TypeInv, SlotsInv, NEW p \in pending PROVE WillRelease(p.client)
  BY DEF SlotsAreOwned
<1>1. Owned(p.client, 1)
  BY DEF SlotsInv, OwnedInv
<1>2. ASSUME NEW c \in Clients, Holds(c, p.client) PROVE WillRelease(p.client)
  BY <1>2 DEF Holds, Subscribed, Guarded, WillRelease
<1>3. ASSUME NEW t \in deferred, Releases(t, p.client) PROVE WillRelease(p.client)
  BY <1>3 DEF Releases, WillRelease
<1>4. ASSUME NEW m \in 1 .. Len(queue), Releases(queue[m], p.client)
      PROVE  WillRelease(p.client)
  <2>1. queue \in Seq(Task) /\ DOMAIN queue = 1 .. Len(queue)
    BY DEF TypeInv, TypeOK
  <2>2. queue[m] \in Range(queue)
    BY <1>4, <2>1 DEF Range
  <2> QED BY <1>4, <2>2 DEF Releases, WillRelease
<1> QED BY <1>1, <1>2, <1>3, <1>4 DEF Owned

\* Whatever the order in which subscribes, answers, cancellations and deferred
\* deregistrations come, a slot of pending_streams always has a client handler
\* or a deregistration that will take it away (ClientConnGuard, Subcribe,
\* DeRegisterClientConn).
THEOREM NoSlotIsOrphaned == Spec => []SlotsAreOwned
BY InitSlots, NextSlots, SlotsOwned, TypeInvariant, PTL DEF Spec

-----------------------------------------------------------------------------
(* One subscribe out, or one answer *)

IsAnswer(m) == m.type \in {"SubcribeResp", "SubcribeRetry"}
AnswersIn(s) == {n \in 1 .. Len(s) : IsAnswer(s[n])}

\* A client whose subscribe waits has no answer, and has excluded nothing since;
\* one that has an answer has only that one, and it names no excluded registration.
SubcribeInv ==
    /\ \A n \in 1 .. Len(queue) : queue[n].type = "Subcribe" =>
          \/ phase[queue[n].conn] \in Ended
          \/ /\ phase[queue[n].conn] = "await_sub"
             /\ queue[n].excluded = excluded[queue[n].conn]
             /\ AnswersIn(inbox[queue[n].conn]) = {}
    /\ \A m, n \in 1 .. Len(queue) :
          queue[m].type = "Subcribe" /\ queue[n].type = "Subcribe" /\ queue[m].conn = queue[n].conn
          => m = n \/ phase[queue[n].conn] \in Ended
    /\ \A c \in Clients : \A m \in AnswersIn(inbox[c]) :
          /\ phase[c] = "await_sub" /\ \A n \in AnswersIn(inbox[c]) : m = n
          /\ inbox[c][m].type = "SubcribeResp" =>
                [server |-> inbox[c][m].server, gen |-> inbox[c][m].gen] \notin excluded[c]

AttemptInv == SlotsInv /\ SubcribeInv

\* What a handler's step may do to a client: nothing, end it, or move it on when
\* it has no subscribe out, leaving no answer.
Unasked(c) == \A n \in 1 .. Len(queue) : queue[n].type = "Subcribe" => queue[n].conn # c
Keeps(c) == phase'[c] = phase[c] /\ excluded'[c] = excluded[c] /\ inbox'[c] = inbox[c]
Stops(c) == phase'[c] \in Ended /\ AnswersIn(inbox'[c]) = {}
Moves(c) == Unasked(c) /\ AnswersIn(inbox'[c]) = {}

\* A channel without messages, and one whose first message was taken.
LEMMA NoAnswers ==
    /\ AnswersIn(<<>>) = {}
    /\ \A s \in Seq(ConnTask) :
          s # <<>> /\ (\A n \in AnswersIn(s) : n = 1) => AnswersIn(Tail(s)) = {}
<1>1. ASSUME NEW s \in Seq(ConnTask), s # <<>>, \A n \in AnswersIn(s) : n = 1,
             NEW m \in AnswersIn(Tail(s))
      PROVE  FALSE
  <2>1. m \in 1 .. Len(Tail(s)) /\ IsAnswer(Tail(s)[m])
    BY <1>1 DEF AnswersIn
  <2>2. m + 1 \in 1 .. Len(s) /\ Tail(s)[m] = s[m + 1] /\ m + 1 # 1
    BY <1>1, <2>1, Behind
  <2>3. m + 1 \in AnswersIn(s)
    BY <2>1, <2>2 DEF AnswersIn
  <2> QED BY <1>1, <2>2, <2>3
<1> QED BY <1>1 DEF AnswersIn

\* So a step of handlers keeps one subscribe out, or one answer.
LEMMA HandlerSteps ==
    ASSUME queue \in Seq(Task), SubcribeInv,
           \A c \in Clients : Keeps(c) \/ Stops(c) \/ Moves(c),
           \/ queue' = queue
           \/ \E t \in Task :
                /\ queue' = Append(queue, t)
                /\ t.type = "Subcribe" => /\ Moves(t.conn) /\ phase'[t.conn] = "await_sub"
                                          /\ t.excluded = excluded'[t.conn]
    PROVE  SubcribeInv'
<1>1. Len(queue) \in Nat /\ \A n \in 1 .. Len(queue) : queue[n] \in Task
  OBVIOUS
<1>2. ASSUME NEW n \in 1 .. Len(queue), queue[n].type = "Subcribe"
      PROVE  /\ queue[n].conn \in Clients
             /\ \/ phase'[queue[n].conn] \in Ended
                \/ /\ phase'[queue[n].conn] = "await_sub"
                   /\ queue[n].excluded = excluded'[queue[n].conn]
                   /\ AnswersIn(inbox'[queue[n].conn]) = {}
             /\ phase[queue[n].conn] \in Ended => phase'[queue[n].conn] \in Ended
  <2>1. queue[n].conn \in Clients
    BY <1>1, <1>2, TaskFields
  <2>2. Keeps(queue[n].conn) \/ Stops(queue[n].conn)
    BY <1>2, <2>1 DEF Moves, Unasked
  <2> QED BY <1>2, <2>1, <2>2 DEF SubcribeInv, Keeps, Stops
<1>3. ASSUME NEW c \in Clients, NEW m \in AnswersIn(inbox'[c])
      PROVE  /\ phase'[c] = "await_sub" /\ \A n \in AnswersIn(inbox'[c]) : m = n
             /\ inbox'[c][m].type = "SubcribeResp" =>
                   [server |-> inbox'[c][m].server, gen |-> inbox'[c][m].gen] \notin excluded'[c]
  <2>1. Keeps(c)
    BY <1>3 DEF Stops, Moves
  <2> QED BY <1>3, <2>1 DEF SubcribeInv, Keeps
<1>4. CASE queue' = queue
  BY <1>2, <1>3, <1>4 DEF SubcribeInv
<1>5. CASE queue' # queue
  <2>1. PICK t \in Task :
                /\ queue' = Append(queue, t)
                /\ t.type = "Subcribe" => /\ Moves(t.conn) /\ phase'[t.conn] = "await_sub"
                                          /\ t.excluded = excluded'[t.conn]
    BY <1>5
  <2>2. /\ Len(queue') = Len(queue) + 1 /\ queue'[Len(queue) + 1] = t
        /\ \A m \in 1 .. Len(queue) : queue'[m] = queue[m]
        /\ \A m \in 1 .. Len(queue') : m \in 1 .. Len(queue) \/ m = Len(queue) + 1
    BY <2>1, Ahead
  <2>3. ASSUME NEW n \in 1 .. Len(queue'), queue'[n].type = "Subcribe"
        PROVE  \/ phase'[queue'[n].conn] \in Ended
               \/ /\ phase'[queue'[n].conn] = "await_sub"
                  /\ queue'[n].excluded = excluded'[queue'[n].conn]
                  /\ AnswersIn(inbox'[queue'[n].conn]) = {}
    BY <1>2, <2>1, <2>2, <2>3 DEF Moves
  <2>4. ASSUME NEW m \in 1 .. Len(queue'), NEW n \in 1 .. Len(queue'),
               queue'[m].type = "Subcribe", queue'[n].type = "Subcribe",
               queue'[m].conn = queue'[n].conn, m # n
        PROVE  phase'[queue'[n].conn] \in Ended
    <3>1. m \in 1 .. Len(queue) /\ n \in 1 .. Len(queue)
      BY <2>1, <2>2, <2>4 DEF Moves, Unasked
    <3> QED BY <1>2, <2>2, <2>4, <3>1 DEF SubcribeInv
  <2> QED BY <1>3, <2>3, <2>4 DEF SubcribeInv
<1> QED BY <1>4, <1>5

\* Between two subscribes a client has nothing out and no answer.
LEMMA Between ==
    ASSUME SubcribeInv, NEW c \in Clients, phase[c] \notin Ended,
           phase[c] # "await_sub" \/ AnswersIn(inbox[c]) # {}
    PROVE  Unasked(c) /\ (phase[c] # "await_sub" => AnswersIn(inbox[c]) = {})
BY DEF SubcribeInv, Unasked

\* A step of a client handler ends it, or leaves it with nothing out, but for the
\* subscribe it sends.
LEMMA ClientMoves ==
    ASSUME TypeInv, SubcribeInv, NEW c \in Clients, ClientStep(c)
    PROVE  /\ Stops(c) \/ Moves(c)
           /\ SendSubcribe(c) => /\ Moves(c) /\ phase'[c] = "await_sub"
                                 /\ excluded'[c] = excluded[c]
<1>1. /\ c \in Conns /\ phase \in [Conns -> ServerPhases \cup ClientPhases]
      /\ inbox \in [Conns -> Seq(ConnTask)] /\ inbox[c] \in Seq(ConnTask)
  BY DEF TypeInv, TypeOK, Conns
<1>2. ASSUME Close(c) PROVE Stops(c)
  <2>1. phase'[c] = "closing" /\ inbox'[c] = <<>>
    BY <1>1, <1>2 DEF Close, Goto, Forget
  <2> QED BY <2>1, NoAnswers DEF Stops, Ended
<1>3. CASE RecoveryExpired(c) \/ RecvOther(c) \/ SubcribeTimeout(c) \/ LoseClient(c)
           \/ RecvNotStream(c) \/ FinishForwarding(c)
  <2>1. Close(c) /\ phase[c] \notin {"accepted", "subscribe"}
    BY <1>3 DEF RecoveryExpired, RecvOther, SubcribeTimeout, LoseClient, RecvNotStream,
                FinishForwarding
  <2> QED BY <1>2, <2>1 DEF SendSubcribe
<1>4. CASE SendSubcribe(c)
  <2>1. /\ phase[c] \in {"accepted", "subscribe"} /\ phase'[c] = "await_sub"
        /\ inbox' = inbox /\ excluded' = excluded
    BY <1>1, <1>4 DEF SendSubcribe, Goto, handlerVars
  <2> QED BY <2>1, Between DEF Moves, Ended
<1>5. CASE RecvSubcribeResp(c) \/ RecvSubcribeRetry(c)
  <2>1. /\ phase[c] = "await_sub" /\ inbox[c] # <<>> /\ IsAnswer(Head(inbox[c]))
        /\ inbox'[c] = Tail(inbox[c])
    BY <1>1, <1>5 DEF RecvSubcribeResp, RecvSubcribeRetry, Received, Take, IsAnswer
  <2>2. 1 \in AnswersIn(inbox[c])
    BY <1>1, <2>1, Behind DEF AnswersIn
  <2>3. \A n \in AnswersIn(inbox[c]) : n = 1
    BY <2>2 DEF SubcribeInv
  <2>4. AnswersIn(inbox'[c]) = {}
    BY <1>1, <2>1, <2>3, NoAnswers
  <2> QED BY <2>1, <2>2, <2>4, Between DEF Moves, Ended, SendSubcribe
<1>6. CASE RecvStreamAck(c) \/ RecvStale(c) \/ StreamTimeout(c) \/ RecvStream(c)
  <2>1. /\ phase[c] \in {"await_ack", "await_ready"}
        /\ \/ inbox'[c] \in {inbox[c], <<>>}
           \/ inbox[c] # <<>> /\ inbox'[c] = Tail(inbox[c])
    BY <1>1, <1>6 DEF RecvStreamAck, RecvStale, StreamTimeout, RecvStream, Received, Take, IsAck
  <2>2. Unasked(c) /\ AnswersIn(inbox[c]) = {}
    BY <2>1, Between DEF Ended
  <2>3. AnswersIn(inbox'[c]) = {}
    BY <1>1, <2>1, <2>2, NoAnswers
  <2> QED BY <2>1, <2>2, <2>3 DEF Moves, SendSubcribe
<1> QED BY <1>3, <1>4, <1>5, <1>6 DEF ClientStep

\* A client that leaves, by itself or cancelled, has no answer left.
LEMMA LeaveStops ==
    ASSUME TypeInv, SubcribeInv, NEW c \in Clients, Deregister(c) \/ Cancel(c)
    PROVE  Stops(c)
<1>1. c \in Conns /\ phase'[c] = "closed"
  BY LeaveFrame DEF Conns
<1>2. inbox \in [Conns -> Seq(ConnTask)]
  BY DEF TypeInv, TypeOK
<1>3. CASE Deregister(c)
  <2>1. phase[c] = "closing" /\ inbox' = inbox
    BY <1>3 DEF Deregister
  <2> QED BY <1>1, <2>1 DEF Stops, Ended, SubcribeInv
<1>4. CASE Cancel(c)
  BY <1>1, <1>2, <1>4, NoAnswers DEF Cancel, Forget, Stops, Ended
<1> QED BY <1>3, <1>4

\* No handler sends a second subscribe, or keeps an answer it has acted on.
LEMMA HandlerSubcribe ==
    ASSUME TypeInv, SubcribeInv, [Next]_vars, ~Manager
    PROVE  SubcribeInv'
<1>1. queue \in Seq(Task) /\ \A c \in Clients : c \in Conns
  BY DEF TypeInv, TypeOK, Conns
<1>2. ASSUME NEW c \in Conns, Connect(c) \/ Reject(c) PROVE SubcribeInv'
  <2>1. /\ UNCHANGED <<inbox, excluded>> /\ \A d \in Conns : d # c => phase'[d] = phase[d]
        /\ phase[c] \in {"new", "accepted"}
        /\ queue' = queue \/ \E t \in Task : t.type = "Accept" /\ queue' = Append(queue, t)
    BY <1>2, ListenerFrame
  <2>2. c \in Clients => Moves(c)
    BY <2>1, Between DEF Moves, Ended
  <2>3. \A d \in Clients : Keeps(d) \/ Moves(d)
    BY <1>1, <2>1, <2>2 DEF Keeps
  <2> QED BY <1>1, <2>1, <2>3, HandlerSteps
<1>3. ASSUME NEW c \in Conns, Deregister(c) \/ Cancel(c) PROVE SubcribeInv'
  <2>1. /\ \A d \in Clients : d # c => Keeps(d)
        /\ \/ queue' = queue
           \/ \E t \in Task : t.type # "Subcribe" /\ queue' = Append(queue, t)
    BY <1>1, <1>3, LeaveFrame DEF Keeps
  <2>2. \A d \in Clients : Keeps(d) \/ Stops(d)
    BY <1>3, <2>1, LeaveStops
  <2> QED BY <1>1, <2>1, <2>2, HandlerSteps
<1>4. ASSUME NEW s \in Servers, ServerStep(s) PROVE SubcribeInv'
  <2>1. /\ \A d \in Clients : Keeps(d)
        /\ \/ queue' = queue
           \/ \E t \in Task : t.type # "Subcribe" /\ queue' = Append(queue, t)
    BY <1>4, ServerFrame DEF Keeps
  <2> QED BY <1>1, <2>1, HandlerSteps
<1>5. ASSUME NEW c \in Clients, ClientStep(c) PROVE SubcribeInv'
  <2>1. \A d \in Clients : d # c => Keeps(d)
    BY <1>1, <1>5, ClientFrame DEF Keeps
  <2>2. \A d \in Clients : Keeps(d) \/ Stops(d) \/ Moves(d)
    BY <1>5, <2>1, ClientMoves
  <2>3. \/ queue' = queue
        \/ \E t \in Task : t.type = "RetireServerConn" /\ queue' = Append(queue, t)
        \/ \E t \in Task : /\ t.type = "Subcribe" /\ t.conn = c /\ t.excluded = excluded[c]
                           /\ queue' = Append(queue, t) /\ SendSubcribe(c)
    BY <1>5, ClientFrame
  <2>4. \/ queue' = queue
        \/ \E t \in Task :
              /\ queue' = Append(queue, t)
              /\ t.type = "Subcribe" => /\ Moves(t.conn) /\ phase'[t.conn] = "await_sub"
                                        /\ t.excluded = excluded'[t.conn]
    <3>1. CASE \E t \in Task : /\ t.type = "Subcribe" /\ t.conn = c /\ t.excluded = excluded[c]
                               /\ queue' = Append(queue, t) /\ SendSubcribe(c)
      BY <1>5, <3>1, ClientMoves
    <3>2. CASE \E t \in Task : t.type = "RetireServerConn" /\ queue' = Append(queue, t)
      BY <3>2
    <3> QED BY <2>3, <3>1, <3>2
  <2> QED BY <1>1, <2>2, <2>4, HandlerSteps
<1>6. CASE SendDeferred \/ Dial \/ SendStream
  <2>1. /\ \A d \in Clients : Keeps(d)
        /\ \E t \in Task : t.type # "Subcribe" /\ queue' = Append(queue, t)
    BY <1>6, OtherFrame DEF Keeps
  <2> QED BY <1>1, <2>1, HandlerSteps
<1>7. CASE UNCHANGED vars
  <2>1. queue' = queue /\ \A d \in Clients : Keeps(d)
    BY <1>7 DEF vars, handlerVars, Keeps
  <2> QED BY <1>1, <2>1, HandlerSteps
<1> QED BY <1>2, <1>3, <1>4, <1>5, <1>6, <1>7 DEF Next

-----------------------------------------------------------------------------
(* The manager answers a subscribe once *)

\* What the manager does to a client's channel: no answer, or one, to a client
\* that waits for it, with a registration it has not excluded.
Quiet(c) ==
    /\ AnswersIn(inbox'[c]) = AnswersIn(inbox[c])
    /\ \A n \in AnswersIn(inbox[c]) : inbox'[c][n] = inbox[c][n]
Answered(c) ==
    /\ Receiving(c) /\ queue # <<>> /\ queue' = Tail(queue)
    /\ Head(queue).type = "Subcribe" /\ Head(queue).conn = c
    /\ \E s \in Seq(ConnTask), m \in ConnTask :
          /\ AnswersIn(s) = AnswersIn(inbox[c]) /\ inbox'[c] = Append(s, m)
          /\ m.type = "SubcribeResp" =>
                [server |-> m.server, gen |-> m.gen] \notin Head(queue).excluded

\* A message posted to a channel comes last, and any other channel is kept.
LEMMA PostChannel ==
    ASSUME NEW box \in [Conns -> Seq(ConnTask)], NEW c \in Conns, NEW m \in ConnTask,
           NEW d \in Conns
    PROVE  /\ d # c \/ ~Receiving(c) => Post(box, c, m)[d] = box[d]
           /\ d = c /\ Receiving(c) => Post(box, c, m)[d] = Append(box[d], m)
BY DEF Post

\* Which answers a channel has after one more message.
LEMMA OneMore ==
    ASSUME NEW s \in Seq(ConnTask), NEW m \in ConnTask
    PROVE  /\ \A n \in AnswersIn(s) : Append(s, m)[n] = s[n] /\ n \in AnswersIn(Append(s, m))
           /\ ~IsAnswer(m) => AnswersIn(Append(s, m)) = AnswersIn(s)
           /\ AnswersIn(Append(s, m)) \subseteq AnswersIn(s) \cup {Len(s) + 1}
           /\ Append(s, m)[Len(s) + 1] = m
<1>1. /\ Len(s) \in Nat /\ Len(Append(s, m)) = Len(s) + 1
      /\ \A n \in 1 .. Len(s) : n \in 1 .. Len(s) + 1 /\ Append(s, m)[n] = s[n]
      /\ Append(s, m)[Len(s) + 1] = m
      /\ \A n \in 1 .. Len(s) + 1 : n \in 1 .. Len(s) \/ n = Len(s) + 1
  BY Ahead
<1> QED BY <1>1 DEF AnswersIn

\* A message that is no answer.
LEMMA QuietPost ==
    ASSUME TypeInv, NEW c \in Conns, NEW m \in ConnTask, ~IsAnswer(m),
           inbox' = Post(inbox, c, m)
    PROVE  \A d \in Clients : Quiet(d)
<1> SUFFICES ASSUME NEW d \in Clients PROVE Quiet(d)
  OBVIOUS
<1>1. inbox \in [Conns -> Seq(ConnTask)] /\ d \in Conns /\ inbox[d] \in Seq(ConnTask)
  BY DEF TypeInv, TypeOK, Conns
<1>2. CASE inbox'[d] = inbox[d]
  BY <1>2 DEF Quiet
<1>3. CASE inbox'[d] = Append(inbox[d], m)
  <2>1. /\ \A n \in AnswersIn(inbox[d]) : Append(inbox[d], m)[n] = inbox[d][n]
        /\ AnswersIn(Append(inbox[d], m)) = AnswersIn(inbox[d])
    BY <1>1, OneMore
  <2> QED BY <1>3, <2>1 DEF Quiet
<1> QED BY <1>1, <1>2, <1>3, PostChannel

\* The answer to the subscribe at the head of the queue.
LEMMA AnswerChannels ==
    ASSUME TypeInv, queue # <<>>, Head(queue).type = "Subcribe", queue' = Tail(queue),
           NEW box \in [Conns -> Seq(ConnTask)], NEW m \in ConnTask,
           \A d \in Clients : /\ AnswersIn(box[d]) = AnswersIn(inbox[d])
                              /\ \A n \in AnswersIn(inbox[d]) : box[d][n] = inbox[d][n],
           inbox' = Post(box, Head(queue).conn, m),
           m.type = "SubcribeResp" =>
              [server |-> m.server, gen |-> m.gen] \notin Head(queue).excluded
    PROVE  \A d \in Clients : Quiet(d) \/ Answered(d)
<1> SUFFICES ASSUME NEW d \in Clients PROVE Quiet(d) \/ Answered(d)
  OBVIOUS
<1>1. d \in Conns /\ Head(queue).conn \in Clients /\ Head(queue).conn \in Conns
  BY HeadTask DEF TypeInv, Conns
<1>2. CASE d # Head(queue).conn \/ ~Receiving(Head(queue).conn)
  <2>1. inbox'[d] = box[d]
    BY <1>1, <1>2, PostChannel
  <2> QED BY <2>1 DEF Quiet
<1>3. CASE d = Head(queue).conn /\ Receiving(d)
  <2>1. inbox'[d] = Append(box[d], m) /\ box[d] \in Seq(ConnTask)
    BY <1>1, <1>3, PostChannel
  <2> QED BY <1>3, <2>1 DEF Answered
<1> QED BY <1>2, <1>3

\* Every task of the manager leaves a client's channel quiet, or answers it.
LEMMA ManagerAnswers ==
    ASSUME TypeInv, Manager
    PROVE  \A c \in Clients : Quiet(c) \/ Answered(c)
<1>1. /\ inbox \in [Conns -> Seq(ConnTask)] /\ nextGen \in Nat /\ pending \subseteq Pending
      /\ registry \subseteq Registration /\ active \in [Ids -> Conns \cup {None}]
      /\ TypeOK /\ (selecting => queue # <<>> /\ Head(queue).type = "Subcribe")
      /\ \A s \in Servers : s \in Conns
      /\ \A c \in Clients : c \in Conns
  BY DEF TypeInv, TypeOK, HandlerInv, Conns
<1>2. (inbox' = inbox) => \A c \in Clients : Quiet(c)
  BY DEF Quiet
<1>3. CASE Accept \/ AcceptStream \/ DeRegisterServerConn \/ DeRegisterClientConn
  BY <1>2, <1>3 DEF Accept, AcceptStream, DeRegisterServerConn, DeRegisterClientConn
<1>4. CASE RegisterFail
  <2> DEFINE m == [type |-> "RegisterFailed"]
  <2>1. m \in ConnTask /\ ~IsAnswer(m)
    BY DEF ConnTask, IsAnswer
  <2>2. Head(queue).conn \in Servers /\ inbox' = Post(inbox, Head(queue).conn, m)
    BY <1>1, <1>4, HeadTask DEF RegisterFail, HeadIs
  <2> HIDE DEF m
  <2> QED BY <1>1, <2>1, <2>2, QuietPost
<1>5. CASE Register
  <2> DEFINE m == [type |-> "RegisterResp", gen |-> nextGen]
  <2>1. m \in ConnTask /\ ~IsAnswer(m)
    BY <1>1 DEF ConnTask, IsAnswer
  <2>2. Head(queue).conn \in Servers /\ inbox' = Post(inbox, Head(queue).conn, m)
    BY <1>1, <1>5, HeadTask DEF Register, HeadIs
  <2> HIDE DEF m
  <2> QED BY <1>1, <2>1, <2>2, QuietPost
<1>6. CASE RetireServerConn
  <2> DEFINE m == [type |-> "Retire"]
  <2>1. m \in ConnTask /\ ~IsAnswer(m)
    BY DEF ConnTask, IsAnswer
  <2>2. Head(queue).id \in Ids
    BY <1>1, <1>6, HeadTask DEF RetireServerConn, HeadIs
  <2>3. inbox' = inbox \/ (active[Head(queue).id] \in Conns
                           /\ inbox' = Post(inbox, active[Head(queue).id], m))
    BY <1>1, <1>6, <2>2 DEF RetireServerConn
  <2> HIDE DEF m
  <2> QED BY <1>2, <2>1, <2>3, QuietPost
<1>7. ASSUME NEW i \in Ids, NEW m \in ConnTask, ~IsAnswer(m), ToClient(i, m)
      PROVE  \A c \in Clients : Quiet(c)
  <2>1. inbox' = inbox \/ (active[i] \in Conns /\ inbox' = Post(inbox, active[i], m))
    BY <1>1, <1>7 DEF ToClient
  <2> QED BY <1>2, <1>7, <2>1, QuietPost
<1>8. CASE StreamAck
  <2> DEFINE t == Head(queue)
             m == [type |-> "StreamAck", server |-> t.server, gen |-> t.gen]
  <2>1. t.client \in Ids /\ t.server \in Ids /\ t.gen \in Nat
    BY <1>1, <1>8, HeadTask DEF StreamAck, HeadIs
  <2>2. m \in ConnTask /\ ~IsAnswer(m)
    BY <2>1 DEF ConnTask, IsAnswer
  <2>3. inbox' = inbox \/ ToClient(t.client, m)
    BY <1>8 DEF StreamAck
  <2> HIDE DEF m
  <2> QED BY <1>2, <1>7, <2>1, <2>2, <2>3
<1>9. CASE Stream
  <2> DEFINE t == Head(queue)
             m(p) == [type |-> "StreamResp", srv |-> t.srv, sid |-> t.sid, gen |-> p.gen]
  <2>1. t.client \in Ids /\ t.srv \in Servers /\ t.sid \in Ids
    BY <1>1, <1>9, HeadTask DEF Stream, HeadIs
  <2>2. \A p \in pending : m(p) \in ConnTask /\ ~IsAnswer(m(p))
    BY <1>1, <2>1 DEF ConnTask, IsAnswer, Pending
  <2>3. inbox' = inbox \/ \E p \in pending : ToClient(t.client, m(p))
    BY <1>9 DEF Stream, PendingOf
  <2> HIDE DEF m
  <2> QED BY <1>2, <1>7, <2>1, <2>2, <2>3
<1>10. ASSUME NEW m \in ConnTask, m.type # "SubcribeResp", Answer(m),
              queue # <<>>, Head(queue).type = "Subcribe"
       PROVE  \A c \in Clients : Quiet(c) \/ Answered(c)
  <2>1. inbox' = Post(inbox, Head(queue).conn, m) /\ queue' = Tail(queue)
    BY <1>10 DEF Answer, Served
  <2> QED BY <1>1, <1>10, <2>1, AnswerChannels
<1>11. CASE SubcribeOverLimit \/ SubcribeMissing \/ SubcribeOverRate \/ SelectNone
  <2>1. queue # <<>> /\ Head(queue).type = "Subcribe"
    BY <1>1, <1>11 DEF SubcribeOverLimit, SubcribeMissing, SubcribeOverRate, SelectNone,
                       SubcribeAdmissible, HeadIs
  <2>2. \A e : Unavailable(e) \in ConnTask /\ Unavailable(e).type # "SubcribeResp"
    BY DEF Unavailable, ConnTask
  <2>3. \A code \in {"limit", "rate"} :
           [type |-> "SubcribeFailed", code |-> code] \in ConnTask
    BY DEF ConnTask
  <2>4. \E m \in ConnTask : m.type # "SubcribeResp" /\ Answer(m)
    <3>1. CASE SubcribeOverLimit
      BY <2>3, <3>1 DEF SubcribeOverLimit
    <3>2. CASE SubcribeOverRate
      BY <2>3, <3>2 DEF SubcribeOverRate
    <3>3. CASE SubcribeMissing \/ SelectNone
      BY <2>2, <3>3 DEF SubcribeMissing, SelectNone
    <3> QED BY <1>11, <3>1, <3>2, <3>3
  <2> QED BY <1>10, <2>1, <2>4
<1>12. CASE SubcribeAdmit \/ SelectFailed
  BY <1>2, <1>12 DEF SubcribeAdmit, SelectFailed
<1>13. CASE SelectOk
  <2> DEFINE i   == Head(queue).id
             req(r) == [type |-> "StreamReq", client |-> i, gen |-> r.gen]
             rsp(r) == [type |-> "SubcribeResp", server |-> r.id, gen |-> r.gen]
  <2>1. queue # <<>> /\ Head(queue).type = "Subcribe" /\ queue' = Tail(queue) /\ i \in Ids
    BY <1>1, <1>13, HeadTask DEF SelectOk, Served
  <2>2. PICK r \in registry :
          /\ r \in Candidates(Head(queue)) /\ active[r.id] # None
          /\ inbox' = Post(Post(inbox, active[r.id], req(r)), Head(queue).conn, rsp(r))
    BY <1>13 DEF SelectOk, Newest
  <2>3. r.id \in Ids /\ r.gen \in Nat /\ active[r.id] \in Conns
    BY <1>1, <2>2 DEF Registration
  <2>4. req(r) \in ConnTask /\ ~IsAnswer(req(r)) /\ rsp(r) \in ConnTask
        /\ [server |-> rsp(r).server, gen |-> rsp(r).gen] = [server |-> r.id, gen |-> r.gen]
    BY <2>1, <2>3 DEF ConnTask, IsAnswer
  <2>5. [server |-> r.id, gen |-> r.gen] \notin Head(queue).excluded
    BY <2>2 DEF Candidates
  <2> DEFINE box == Post(inbox, active[r.id], req(r))
  <2> HIDE DEF req, rsp
  <2>6. box \in [Conns -> Seq(ConnTask)]
    BY <1>1, <2>3, <2>4, PostType
  <2>7. ASSUME NEW d \in Clients
        PROVE  /\ AnswersIn(box[d]) = AnswersIn(inbox[d])
               /\ \A n \in AnswersIn(inbox[d]) : box[d][n] = inbox[d][n]
    <3>1. d \in Conns /\ inbox[d] \in Seq(ConnTask)
      BY <1>1
    <3>2. box[d] = inbox[d] \/ box[d] = Append(inbox[d], req(r))
      BY <1>1, <2>3, <2>4, <3>1, PostChannel
    <3>3. /\ \A n \in AnswersIn(inbox[d]) : Append(inbox[d], req(r))[n] = inbox[d][n]
          /\ AnswersIn(Append(inbox[d], req(r))) = AnswersIn(inbox[d])
      BY <2>4, <3>1, OneMore
    <3> QED BY <3>2, <3>3
  <2>8. inbox' = Post(box, Head(queue).conn, rsp(r))
    BY <2>2
  <2> HIDE DEF box
  <2> QED BY <2>1, <2>4, <2>5, <2>6, <2>7, <2>8, AnswerChannels
<1> QED BY <1>3, <1>4, <1>5, <1>6, <1>8, <1>9, <1>11, <1>12, <1>13 DEF Manager

\* The manager knows nothing of attempts.
LEMMA ManagerAttempts == Manager => UNCHANGED <<attempt, excluded>>
<1>1. CASE Accept \/ AcceptStream \/ RegisterFail \/ Register \/ DeRegisterServerConn
           \/ RetireServerConn \/ DeRegisterClientConn \/ StreamAck \/ Stream
  BY <1>1 DEF Accept, AcceptStream, RegisterFail, Register, DeRegisterServerConn,
              RetireServerConn, DeRegisterClientConn, StreamAck, Stream, handlerVars
<1>2. CASE SubcribeOverLimit \/ SubcribeMissing \/ SubcribeOverRate \/ SubcribeAdmit
           \/ SelectFailed \/ SelectOk \/ SelectNone
  BY <1>2 DEF SubcribeOverLimit, SubcribeMissing, SubcribeOverRate, SubcribeAdmit,
              SubcribeAdmissible, SelectFailed, SelectOk, SelectNone, Answer, handlerVars
<1> QED BY <1>1, <1>2 DEF Manager

\* Serving a task keeps one subscribe out, or one answer.
LEMMA ManagerSubcribe ==
    ASSUME TypeInv, AcceptInv, SubcribeInv, Manager
    PROVE  SubcribeInv'
<1>1. /\ queue \in Seq(Task) /\ Len(queue) \in Nat /\ \A n \in 1 .. Len(queue) : queue[n] \in Task
      /\ phase \in [Conns -> ServerPhases \cup ClientPhases] /\ \A c \in Clients : c \in Conns
      /\ inbox \in [Conns -> Seq(ConnTask)]
  BY DEF TypeInv, TypeOK, Conns
<1>2. excluded' = excluded
  BY ManagerAttempts
<1>3. \A c \in Clients : phase'[c] = phase[c] \/ phase[c] = "accepting"
  <2>1. CASE UNCHANGED <<phase, cid>>
    BY <2>1
  <2>2. CASE /\ queue # <<>> /\ Head(queue).type = "Accept"
             /\ phase' = [phase EXCEPT ![Head(queue).conn] = "accepted"]
    <3>1. phase[Head(queue).conn] = "accepting"
      BY <1>1, <2>2, Behind DEF AcceptInv
    <3> QED BY <1>1, <2>2, <3>1
  <2> QED BY <2>1, <2>2, ManagerFrame
\* Every task that is left was in the queue, and its client was not answered.
<1>4. \A n \in 1 .. Len(queue') : \E k \in 1 .. Len(queue) :
         /\ queue'[n] = queue[k] /\ (queue' = queue => k = n)
         /\ (queue # <<>> /\ queue' = Tail(queue) => k = n + 1)
  <2>1. CASE queue' = queue
    <3>1. queue # <<>> => queue # Tail(queue)
      BY <1>1, Behind
    <3> QED BY <2>1, <3>1
  <2>2. CASE queue # <<>> /\ queue' = Tail(queue)
    <3>1. queue # Tail(queue) /\ \A m \in 1 .. Len(queue') :
             m + 1 \in 1 .. Len(queue) /\ queue'[m] = queue[m + 1]
      BY <1>1, <2>2, Behind
    <3> QED BY <2>2, <3>1
  <2> QED BY <2>1, <2>2, ManagerFrame
<1>5. \A c \in Clients : Quiet(c) \/ Answered(c)
  BY ManagerAnswers
\* An answered client had its subscribe at the head, and no other.
<1>6. ASSUME NEW c \in Clients, Answered(c)
      PROVE  /\ phase[c] = "await_sub" /\ phase'[c] = "await_sub" /\ AnswersIn(inbox[c]) = {}
             /\ Head(queue).excluded = excluded[c]
             /\ \A n \in 1 .. Len(queue') : queue'[n].type = "Subcribe" => queue'[n].conn # c
  <2>1. /\ 1 \in 1 .. Len(queue) /\ Head(queue) = queue[1] /\ queue # <<>> /\ queue' = Tail(queue)
        /\ queue[1].type = "Subcribe" /\ queue[1].conn = c
    BY <1>1, <1>6, Behind DEF Answered
  <2>2. phase[c] \notin Ended
    BY <1>6, ConnAssumption DEF Answered, Receiving, Ended
  <2>3. phase[c] = "await_sub" /\ AnswersIn(inbox[c]) = {} /\ queue[1].excluded = excluded[c]
    BY <2>1, <2>2 DEF SubcribeInv
  <2>4. ASSUME NEW n \in 1 .. Len(queue'), queue'[n].type = "Subcribe" PROVE queue'[n].conn # c
    <3>1. n + 1 \in 1 .. Len(queue) /\ queue'[n] = queue[n + 1] /\ n + 1 # 1
      BY <1>1, <2>1, Behind
    <3> QED BY <2>1, <2>2, <2>4, <3>1 DEF SubcribeInv
  <2> QED BY <1>3, <2>1, <2>3, <2>4
<1>7. ASSUME NEW n \in 1 .. Len(queue'), queue'[n].type = "Subcribe"
      PROVE  \/ phase'[queue'[n].conn] \in Ended
             \/ /\ phase'[queue'[n].conn] = "await_sub"
                /\ queue'[n].excluded = excluded'[queue'[n].conn]
                /\ AnswersIn(inbox'[queue'[n].conn]) = {}
  <2>1. PICK k \in 1 .. Len(queue) : queue'[n] = queue[k]
    BY <1>4
  <2> DEFINE c == queue[k].conn
  <2>2. c \in Clients /\ queue[k].type = "Subcribe"
    BY <1>1, <1>7, <2>1, TaskFields
  <2>3. \/ phase[c] \in Ended
        \/ phase[c] = "await_sub" /\ queue[k].excluded = excluded[c] /\ AnswersIn(inbox[c]) = {}
    BY <2>2 DEF SubcribeInv
  <2>4. phase'[c] = phase[c]
    BY <1>3, <2>2, <2>3 DEF Ended
  <2>5. Quiet(c)
    BY <1>5, <1>6, <1>7, <2>1, <2>2
  <2> QED BY <1>2, <2>1, <2>3, <2>4, <2>5 DEF Quiet
<1>8. ASSUME NEW m \in 1 .. Len(queue'), NEW n \in 1 .. Len(queue'),
             queue'[m].type = "Subcribe", queue'[n].type = "Subcribe",
             queue'[m].conn = queue'[n].conn, m # n
      PROVE  phase'[queue'[n].conn] \in Ended
  <2>1. PICK j \in 1 .. Len(queue) :
          /\ queue'[m] = queue[j] /\ (queue' = queue => j = m)
          /\ (queue # <<>> /\ queue' = Tail(queue) => j = m + 1)
    BY <1>4
  <2>2. PICK k \in 1 .. Len(queue) :
          /\ queue'[n] = queue[k] /\ (queue' = queue => k = n)
          /\ (queue # <<>> /\ queue' = Tail(queue) => k = n + 1)
    BY <1>4
  <2>3. j # k
    BY <1>8, <2>1, <2>2, ManagerFrame
  <2>4. phase[queue[k].conn] \in Ended /\ queue[k].conn \in Clients
    BY <1>1, <1>8, <2>1, <2>2, <2>3, TaskFields DEF SubcribeInv
  <2> QED BY <1>3, <2>2, <2>4 DEF Ended
<1>9. ASSUME NEW c \in Clients, NEW m \in AnswersIn(inbox'[c])
      PROVE  /\ phase'[c] = "await_sub" /\ \A n \in AnswersIn(inbox'[c]) : m = n
             /\ inbox'[c][m].type = "SubcribeResp" =>
                   [server |-> inbox'[c][m].server, gen |-> inbox'[c][m].gen] \notin excluded'[c]
  <2>1. CASE Quiet(c)
    <3>1. m \in AnswersIn(inbox[c]) /\ inbox'[c][m] = inbox[c][m]
          /\ AnswersIn(inbox'[c]) = AnswersIn(inbox[c])
      BY <1>9, <2>1 DEF Quiet
    <3>2. /\ phase[c] = "await_sub" /\ \A n \in AnswersIn(inbox[c]) : m = n
          /\ inbox[c][m].type = "SubcribeResp" =>
                [server |-> inbox[c][m].server, gen |-> inbox[c][m].gen] \notin excluded[c]
      BY <3>1 DEF SubcribeInv
    <3>3. phase'[c] = phase[c]
      BY <1>3, <3>2
    <3> QED BY <1>2, <3>1, <3>2, <3>3
  <2>2. CASE Answered(c)
    <3>1. PICK s \in Seq(ConnTask), msg \in ConnTask :
            /\ AnswersIn(s) = {} /\ inbox'[c] = Append(s, msg)
            /\ msg.type = "SubcribeResp" =>
                  [server |-> msg.server, gen |-> msg.gen] \notin excluded[c]
      BY <1>6, <2>2 DEF Answered
    <3>2. /\ \A n \in AnswersIn(inbox'[c]) : n = Len(s) + 1
          /\ inbox'[c][Len(s) + 1] = msg
      BY <3>1, OneMore
    <3> QED BY <1>2, <1>6, <1>9, <2>2, <3>1, <3>2
  <2> QED BY <1>5, <2>1, <2>2
<1> QED BY <1>7, <1>8, <1>9 DEF SubcribeInv

-----------------------------------------------------------------------------
(* A retry is given another registration *)

\* Every step keeps one subscribe out, or one answer, for each client.
LEMMA NextAttempts == TypeInv /\ AttemptInv /\ [Next]_vars => AttemptInv'
BY NextSlots, HandlerSubcribe, ManagerSubcribe DEF AttemptInv, SlotsInv

\* An idle relay has neither.
LEMMA InitAttempts == Init => AttemptInv
<1> SUFFICES ASSUME Init PROVE AttemptInv
  OBVIOUS
<1>1. \A c \in Clients : inbox[c] = <<>>
  BY DEF Init, Conns
<1>2. \A c \in Clients : AnswersIn(inbox[c]) = {}
  BY <1>1, NoAnswers
<1>3. SubcribeInv
  BY <1>2 DEF Init, SubcribeInv
<1> QED BY <1>3, InitSlots DEF AttemptInv

\* The only step that gives a client an attempt is its answer.
LEMMA AttemptStarts ==
    ASSUME TypeInv, [Next]_vars, NEW c \in Clients, attempt'[c] # attempt[c], attempt'[c] # None
    PROVE  /\ inbox[c] # <<>> /\ Head(inbox[c]).type = "SubcribeResp"
           /\ attempt'[c] = [server |-> Head(inbox[c]).server, gen |-> Head(inbox[c]).gen]
<1>1. /\ attempt \in [Clients -> Target \cup {None}] /\ c \in Conns
      /\ \A d \in Clients : d \in Conns
  BY DEF TypeInv, TypeOK, Conns
<1>2. ~Manager /\ ~UNCHANGED vars
  BY ManagerAttempts DEF vars, handlerVars
<1>3. ASSUME NEW d \in Conns PROVE ~(Connect(d) \/ Reject(d) \/ Deregister(d) \/ Cancel(d))
  <2>1. ~(Connect(d) \/ Reject(d))
    BY ListenerFrame
  <2>2. ~Deregister(d)
    BY DEF Deregister
  <2>3. ~Cancel(d)
    BY <1>1 DEF Cancel, Forget
  <2> QED BY <2>1, <2>2, <2>3
<1>4. ASSUME NEW s \in Servers PROVE ~ServerStep(s)
  BY ServerFrame
<1>5. ~(SendDeferred \/ Dial \/ SendStream)
  BY OtherFrame
<1>6. PICK d \in Clients : ClientStep(d)
  BY <1>2, <1>3, <1>4, <1>5 DEF Next
<1>7. d = c
  BY <1>6, ClientFrame
<1>8. ASSUME Close(c) PROVE FALSE
  BY <1>1, <1>8 DEF Close, Forget
<1>9. ~(RecoveryExpired(c) \/ RecvOther(c) \/ SubcribeTimeout(c) \/ LoseClient(c)
        \/ RecvNotStream(c) \/ FinishForwarding(c))
  BY <1>8 DEF RecoveryExpired, RecvOther, SubcribeTimeout, LoseClient, RecvNotStream,
              FinishForwarding
<1>10. ~(SendSubcribe(c) \/ RecvSubcribeRetry(c) \/ RecvStreamAck(c) \/ RecvStream(c))
  BY DEF SendSubcribe, RecvSubcribeRetry, RecvStreamAck, RecvStream, handlerVars
<1>11. ~(RecvStale(c) \/ StreamTimeout(c))
  BY <1>1 DEF RecvStale, StreamTimeout, Exclude
<1>12. RecvSubcribeResp(c)
  BY <1>6, <1>7, <1>9, <1>10, <1>11 DEF ClientStep
<1> QED BY <1>1, <1>12 DEF RecvSubcribeResp, Received

\* An attempt that starts is not one the client has excluded.
LEMMA AttemptsAreNew ==
    ASSUME TypeInv, AttemptInv, [Next]_vars, NEW c \in Clients, attempt'[c] # attempt[c]
    PROVE  attempt'[c] \notin excluded[c]
<1>1. excluded[c] \subseteq Target /\ inbox[c] \in Seq(ConnTask)
  BY DEF TypeInv, TypeOK, Conns
<1>2. CASE attempt'[c] = None
  BY <1>1, <1>2, ConnAssumption DEF Target
<1>3. CASE attempt'[c] # None
  <2>1. /\ inbox[c] # <<>> /\ Head(inbox[c]).type = "SubcribeResp"
        /\ attempt'[c] = [server |-> Head(inbox[c]).server, gen |-> Head(inbox[c]).gen]
    BY <1>3, AttemptStarts
  <2>2. 1 \in AnswersIn(inbox[c]) /\ Head(inbox[c]) = inbox[c][1]
    BY <1>1, <2>1, Behind DEF AnswersIn, IsAnswer
  <2>3. [server |-> inbox[c][1].server, gen |-> inbox[c][1].gen] \notin excluded[c]
    BY <2>1, <2>2 DEF AttemptInv, SubcribeInv
  <2> QED BY <2>1, <2>2, <2>3
<1> QED BY <1>2, <1>3

\* However many registrations come and go, and however late its answers are, a
\* client that retries is never given a registration it has given up before
\* (get_server_stream's excluded_server_conns, the filter of Subcribe).
THEOREM RetriesMoveOn == Spec => NeverReselected
<1>1. TypeInv /\ AttemptInv /\ [Next]_vars =>
        [\A c \in Clients : attempt'[c] # attempt[c] => attempt'[c] \notin excluded[c]]_vars
  BY AttemptsAreNew
<1> QED BY <1>1, InitAttempts, NextAttempts, TypeInvariant, PTL DEF Spec, NeverReselected

-----------------------------------------------------------------------------
(* The stream count *)

\* The relay of an administrator who issues no temporary keys, say: every
\* service is in one namespace.
OneNamespaceServed == \A k, q \in Keys : NamespaceOf[k] = NamespaceOf[q]

\* A client id has one slot, as pending_streams is a map; the count is checked
\* before a server is chosen, and nothing counts until the choice is made.
CountInv ==
    /\ IsFiniteSet(pending)
    /\ \A p, q \in pending : p.client = q.client => p = q
    /\ selecting => ~LimitReached(KeyOf[Head(queue).conn])
    /\ SlotsAreCounted

\* Where one namespace is served every slot is in it.
LEMMA SlotsOfServed ==
    ASSUME OneNamespaceServed, TypeOK, NEW k \in Keys
    PROVE  /\ SlotsOf(NamespaceOf[k]) = pending
           /\ \A n : n # NamespaceOf[k] => SlotsOf(n) = {}
           /\ pending' \subseteq Pending =>
                /\ SlotsOf(NamespaceOf[k])' = pending'
                /\ \A n : n # NamespaceOf[k] => SlotsOf(n)' = {}
<1>1. \A p \in Pending : NamespaceOf[p.key] = NamespaceOf[k]
  BY DEF OneNamespaceServed, Pending
<1>2. pending \subseteq Pending
  BY DEF TypeOK
<1> QED BY <1>1, <1>2 DEF SlotsOf

\* The slot of an id, if it has one, is taken away and counted down.
LEMMA DeRegisterCounts ==
    ASSUME OneNamespaceServed, TypeInv, CountInv, DeRegisterClientConn
    PROVE  CountInv'
<1>1. /\ pending \subseteq Pending /\ nsCount \in [Namespaces -> Nat]
      /\ MaxStreams \in Nat /\ NamespaceOf \in [Keys -> Namespaces]
      /\ selecting' = FALSE
  BY ConnAssumption, LimitAssumption DEF TypeInv, TypeOK, DeRegisterClientConn, Served
<1>2. PICK i : pending' = pending \ PendingOf(i)
             /\ \/ \E p \in PendingOf(i) : nsCount' = CountDown(NamespaceOf[p.key])
                \/ PendingOf(i) = {} /\ UNCHANGED nsCount
  BY DEF DeRegisterClientConn
<1>3. CASE PendingOf(i) = {} /\ UNCHANGED nsCount
  <2>1. pending' = pending
    BY <1>2, <1>3
  <2> QED BY <1>1, <1>3, <2>1 DEF CountInv, SlotsAreCounted, SlotsOf
<1>4. ASSUME NEW p \in PendingOf(i), nsCount' = CountDown(NamespaceOf[p.key])
      PROVE  CountInv'
  <2>1. /\ p \in pending /\ p.key \in Keys /\ NamespaceOf[p.key] \in Namespaces
        /\ PendingOf(i) = {p} /\ pending' = pending \ {p}
    BY <1>1, <1>2, <1>4 DEF PendingOf, CountInv, Pending
  <2>2. /\ IsFiniteSet(pending') /\ Cardinality(pending') = Cardinality(pending) - 1
    BY <2>1, FS_RemoveElement DEF CountInv
  <2>3. Cardinality(pending) \in Nat /\ Cardinality(pending') \in Nat
    BY <2>2, FS_CardinalityType DEF CountInv
  <2> DEFINE n0 == NamespaceOf[p.key]
  <2>4. /\ SlotsOf(n0) = pending /\ SlotsOf(n0)' = pending'
        /\ \A n : n # n0 => SlotsOf(n) = {} /\ SlotsOf(n)' = {}
    BY <1>1, <2>1, SlotsOfServed DEF TypeInv
  <2>5. nsCount[n0] = Cardinality(pending) /\ nsCount[n0] <= MaxStreams
    BY <2>1, <2>4 DEF CountInv, SlotsAreCounted
  <2>6. /\ nsCount'[n0] = nsCount[n0] - 1
        /\ \A n \in Namespaces : n # n0 => nsCount'[n] = nsCount[n]
    BY <1>1, <1>4, <2>1, <2>2, <2>3, <2>5 DEF CountDown
  <2>7. \A n \in Namespaces : nsCount'[n] = Cardinality(SlotsOf(n)') /\ nsCount'[n] <= MaxStreams
    <3>1. nsCount'[n0] = Cardinality(SlotsOf(n0)') /\ nsCount'[n0] <= MaxStreams
      BY <1>1, <2>2, <2>3, <2>4, <2>5, <2>6
    <3>2. ASSUME NEW n \in Namespaces, n # n0
          PROVE  nsCount'[n] = Cardinality(SlotsOf(n)') /\ nsCount'[n] <= MaxStreams
      BY <2>4, <2>6, <3>2 DEF CountInv, SlotsAreCounted
    <3> QED BY <3>1, <3>2
  <2>8. \A q, r \in pending' : q.client = r.client => q = r
    BY <2>1 DEF CountInv
  <2> QED BY <1>1, <2>2, <2>7, <2>8 DEF CountInv, SlotsAreCounted
<1> QED BY <1>2, <1>3, <1>4

\* The chosen server's slot is a new one, which counts, or takes the place of
\* the one that the id has.
LEMMA SelectOkCounts ==
    ASSUME OneNamespaceServed, TypeInv, CountInv, SelectOk
    PROVE  CountInv'
<1>1. /\ pending \subseteq Pending /\ nsCount \in [Namespaces -> Nat]
      /\ MaxStreams \in Nat /\ NamespaceOf \in [Keys -> Namespaces]
      /\ selecting /\ selecting' = FALSE /\ KeyOf[Head(queue).conn] \in Keys
  <2>1. Head(queue).conn \in Clients
    BY HeadTask DEF TypeInv, HandlerInv, SelectOk
  <2> QED
    BY <2>1, ConnAssumption, LimitAssumption DEF TypeInv, TypeOK, SelectOk, Served, Conns
<1>2. PICK r \in registry :
        /\ Newest(r, Head(queue))
        /\ pending' = (pending \ PendingOf(Head(queue).id)) \cup
              {[client |-> Head(queue).id, server |-> r.id, gen |-> r.gen, key |-> r.key]}
        /\ nsCount' = CountUp(Head(queue).id, NamespaceOf[r.key])
  BY DEF SelectOk
<1> DEFINE i == Head(queue).id
           e == [client |-> i, server |-> r.id, gen |-> r.gen, key |-> r.key]
           n0 == NamespaceOf[r.key]
<1>3. r.key = KeyOf[Head(queue).conn] /\ r.key \in Keys /\ n0 \in Namespaces
  BY <1>1, <1>2 DEF Newest, Candidates, EntriesOf
<1>4. pending' \subseteq Pending
  <2>1. TypeOK'
    BY SelectOkType DEF TypeInv
  <2> QED BY <2>1 DEF TypeOK
<1>5. e.client = i /\ pending' = (pending \ PendingOf(i)) \cup {e}
      /\ \A p \in pending : p.client = i <=> p \in PendingOf(i)
  BY <1>2 DEF PendingOf
<1> HIDE DEF e, i, n0
<1>6. /\ SlotsOf(n0) = pending /\ SlotsOf(n0)' = pending'
      /\ \A n : n # n0 => SlotsOf(n) = {} /\ SlotsOf(n)' = {}
  BY <1>3, <1>4, SlotsOfServed DEF TypeInv, n0
<1>7. nsCount[n0] = Cardinality(pending) /\ nsCount[n0] < MaxStreams
  BY <1>1, <1>3, <1>6 DEF CountInv, SlotsAreCounted, LimitReached, n0
<1>8. Cardinality(pending) \in Nat
  BY FS_CardinalityType DEF CountInv
<1>9. /\ IsFiniteSet(pending')
      /\ nsCount'[n0] = Cardinality(pending') /\ nsCount'[n0] <= MaxStreams
      /\ \A n \in Namespaces : n # n0 => nsCount'[n] = nsCount[n]
  <2>1. CASE PendingOf(i) = {}
    <3>1. pending' = pending \cup {e} /\ e \notin pending
      BY <1>5, <2>1
    <3>2. IsFiniteSet(pending') /\ Cardinality(pending') = Cardinality(pending) + 1
      BY <3>1, FS_AddElement DEF CountInv
    <3>3. nsCount' = [nsCount EXCEPT ![n0] = @ + 1]
      BY <1>2, <2>1 DEF CountUp, n0, i
    <3> QED BY <1>1, <1>3, <1>7, <1>8, <3>2, <3>3
  <2>2. CASE PendingOf(i) # {}
    <3>1. PICK p \in pending : PendingOf(i) = {p} /\ p.client = i
      BY <2>2 DEF PendingOf, CountInv
    <3>2. /\ IsFiniteSet(pending \ {p}) /\ Cardinality(pending \ {p}) = Cardinality(pending) - 1
      BY <3>1, FS_RemoveElement DEF CountInv
    <3>3. pending' = (pending \ {p}) \cup {e} /\ e \notin pending \ {p}
      BY <1>5, <3>1
    <3>4. /\ IsFiniteSet(pending')
          /\ Cardinality(pending') = Cardinality(pending \ {p}) + 1
      BY <3>2, <3>3, FS_AddElement
    <3>5. nsCount' = nsCount
      BY <1>2, <2>2 DEF CountUp, i
    <3> QED BY <1>1, <1>7, <1>8, <3>2, <3>4, <3>5
  <2> QED BY <2>1, <2>2
<1>10. \A p, q \in pending' : p.client = q.client => p = q
  BY <1>5 DEF CountInv
<1>11. \A n \in Namespaces : nsCount'[n] = Cardinality(SlotsOf(n)') /\ nsCount'[n] <= MaxStreams
  <2>1. nsCount'[n0] = Cardinality(SlotsOf(n0)') /\ nsCount'[n0] <= MaxStreams
    BY <1>6, <1>9
  <2>2. ASSUME NEW n \in Namespaces, n # n0
        PROVE  nsCount'[n] = Cardinality(SlotsOf(n)') /\ nsCount'[n] <= MaxStreams
    BY <1>6, <1>9, <2>2 DEF CountInv, SlotsAreCounted
  <2> QED BY <2>1, <2>2
<1>12. SlotsAreCounted'
  BY <1>11 DEF SlotsAreCounted
<1>13. ~selecting' /\ IsFiniteSet(pending')
  BY <1>1, <1>9
<1> QED BY <1>10, <1>12, <1>13 DEF CountInv

\* No other step touches slots and counts, and a choice ends with its subscribe.
LEMMA OthersKeepCounts ==
    ASSUME TypeInv, AcceptInv, [Next]_vars, ~DeRegisterClientConn, ~SelectOk
    PROVE  /\ UNCHANGED <<pending, nsCount>>
           /\ \/ ~selecting'
              \/ selecting /\ Head(queue') = Head(queue)
              \/ SubcribeAdmit
<1>1. selecting => queue # <<>>
  BY DEF TypeInv, HandlerInv
<1>2. CASE Manager
  <2>1. ASSUME NEW m, Answer(m) PROVE UNCHANGED <<pending, nsCount>> /\ ~selecting'
    BY <2>1 DEF Answer, Served, managerVars
  <2>2. CASE SubcribeOverLimit \/ SubcribeMissing \/ SubcribeOverRate \/ SelectNone
    BY <2>1, <2>2 DEF SubcribeOverLimit, SubcribeMissing, SubcribeOverRate, SelectNone
  <2>3. CASE SubcribeAdmit \/ SelectFailed
    BY <2>3 DEF SubcribeAdmit, SelectFailed, Unregister, managerVars
  <2>4. CASE Accept \/ AcceptStream \/ RegisterFail \/ Register \/ DeRegisterServerConn
             \/ RetireServerConn \/ StreamAck \/ Stream
    BY <2>4 DEF Accept, AcceptStream, RegisterFail, Register, DeRegisterServerConn,
                RetireServerConn, StreamAck, Stream, Unregister, Served, managerVars
  <2> QED BY <1>2, <2>2, <2>3, <2>4 DEF Manager
<1>3. CASE ~Manager
  <2>1. UNCHANGED <<selecting, pending, nsCount>>
    BY <1>3, HandlersKeepManager DEF managerVars
  <2>2. queue' = queue \/ \E t \in Task : queue' = Append(queue, t)
    BY <1>3, HandlerQueue
  <2>3. queue # <<>> => \A t \in Task : Head(Append(queue, t)) = Head(queue)
    BY DEF TypeInv, TypeOK
  <2> QED BY <1>1, <2>1, <2>2, <2>3
<1> QED BY <1>2, <1>3

\* Whatever happens, where one namespace is served.
LEMMA NextCounts ==
    ASSUME OneNamespaceServed, TypeInv, AcceptInv, CountInv, [Next]_vars
    PROVE  CountInv'
<1>1. CASE DeRegisterClientConn
  BY <1>1, DeRegisterCounts
<1>2. CASE SelectOk
  BY <1>2, SelectOkCounts
<1>3. CASE ~DeRegisterClientConn /\ ~SelectOk
  <2>1. /\ UNCHANGED <<pending, nsCount>>
        /\ \/ ~selecting'
           \/ selecting /\ Head(queue') = Head(queue)
           \/ SubcribeAdmit
    BY <1>3, OthersKeepCounts
  <2>2. selecting' => ~LimitReached(KeyOf[Head(queue).conn])'
    BY <2>1 DEF CountInv, LimitReached, SubcribeAdmit, SubcribeAdmissible
  <2> QED BY <2>1, <2>2 DEF CountInv, SlotsAreCounted, SlotsOf
<1> QED BY <1>1, <1>2, <1>3

LEMMA InitCounts == Init => CountInv
<1>1. ASSUME Init, NEW n \in Namespaces PROVE SlotsOf(n) = {} /\ nsCount[n] = 0
  BY <1>1 DEF Init, SlotsOf
<1>2. ASSUME Init PROVE SlotsAreCounted
  BY <1>1, <1>2, FS_EmptySet, LimitAssumption DEF SlotsAreCounted
<1>3. ASSUME Init PROVE IsFiniteSet(pending) /\ pending = {} /\ ~selecting
  BY <1>3, FS_EmptySet DEF Init
<1> QED BY <1>2, <1>3 DEF CountInv

\* In a relay that serves one namespace the stream count is exact whatever
\* becomes of clients, ids and answers, and the limit on it holds (Subcribe,
\* DeRegisterClientConn, decrement_namespace_stream_count).
THEOREM StreamsAreCounted ==
    ASSUME \A k, q \in Keys : NamespaceOf[k] = NamespaceOf[q]
    PROVE  Spec => []SlotsAreCounted
<1>1. OneNamespaceServed
  BY DEF OneNamespaceServed
<1>2. TypeInv /\ SlotsInv /\ CountInv /\ [Next]_vars => CountInv'
  BY <1>1, NextCounts DEF SlotsInv
<1>3. CountInv => SlotsAreCounted
  BY DEF CountInv
<1> QED BY <1>2, <1>3, InitCounts, InitSlots, NextSlots, TypeInvariant, PTL DEF Spec

-----------------------------------------------------------------------------
(* Streams of the last attempt                                               *)

\* Ids name one registration.  They are handed out unused, but a stale deregistration
\* can free an id a handler still holds (StaleDeregistrationIsHarmless), and then two
\* holders of an id may register.  The one filed last is asked in the other's name.
IdsNameOneRegistration == \A r, q \in registry : r.id = q.id => r = q

\* A server handler asks for its registration once, and is granted one generation.
Asks(s) == {n \in 1 .. Len(queue) : queue[n].type = "Register" /\ queue[n].conn = s}
Grants(s, g) == \E m \in Range(inbox[s]) : m.type = "RegisterResp" /\ m.gen = g
Unregistered(s) == gen[s] = 0 /\ Asks(s) = {} /\ \A g \in Nat : ~Grants(s, g)
Awaiting(s) ==
    /\ gen[s] = 0
    /\ \A m, n \in Asks(s) : m = n
    /\ \A g, h \in Nat : Grants(s, g) => g # 0 /\ Asks(s) = {} /\ (Grants(s, h) => g = h)
Live(s) == Asks(s) = {} /\ \A g \in Nat : Grants(s, g) => g = gen[s]
OnceInv ==
    \A s \in Servers :
        \/ phase[s] \in Ended
        \/ phase[s] \in {"new", "accepting", "accepted"} /\ Unregistered(s)
        \/ phase[s] = "registering" /\ Awaiting(s)
        \/ phase[s] = "live" /\ Live(s)

\* Server s was registered with generation g, if it is still there.
Registered(s, g) == g # 0 /\ (phase[s] \in Ended \/ gen[s] = g \/ Grants(s, g))
\* A stream of s is of generation g, or s does not send its generation.
Matched(s, g) == s \in Legacy \/ (g # 0 /\ gen[s] = g)
\* The generation s sends with the streams it dials.
Sends(s, g) == IF s \in Legacy THEN g = 0 ELSE g # 0 /\ gen[s] = g

\* The server whose sender is filed under a registration's id was registered with
\* it; and so was one that is asked for a stream of a generation, one that dials
\* it, and one that a client is joined with.
FiledInv ==
    /\ \A i \in Ids : active[i] # None => i < nextId
    /\ \A r \in registry : \A s \in Servers : active[r.id] = s => Registered(s, r.gen)
AskedInv ==
    \A s \in Servers : \A m \in Range(inbox[s]) : m.type = "StreamReq" => Registered(s, m.gen)
DialledInv ==
    /\ \A q \in toDial : Sends(q.srv, q.gen)
    /\ \A q \in dialled : Sends(q.srv, q.gen)
    /\ \A t \in Range(queue) : /\ t.type = "AcceptStream" => Sends(t.req.srv, t.req.gen)
                               /\ t.type = "Stream" => Sends(t.srv, t.gen)
AnsweredInv ==
    \A c \in Conns : \A m \in Range(inbox[c]) : m.type = "StreamResp" => Matched(m.srv, m.gen)
JoinedInv ==
    \A c \in Clients : phase[c] = "forwarding" =>
        peer[c] \in Servers /\ Matched(peer[c], attempt[c].gen)
StreamInv == OnceInv /\ FiledInv /\ AskedInv /\ DialledInv /\ AnsweredInv /\ JoinedInv

\* What a step does to a server handler.
Rests(s) == phase'[s] = phase[s] /\ inbox'[s] = inbox[s]
Ends(s) == phase'[s] \in Ended
Begins(s) == /\ inbox'[s] = inbox[s]
             /\ \/ phase[s] = "new" /\ phase'[s] = "accepting"
                \/ phase[s] = "accepted" /\ phase'[s] = "registering"
Reads(s) == phase[s] = "live" /\ phase'[s] = "live" /\ inbox[s] # <<>> /\ inbox'[s] = Tail(inbox[s])

LEMMA ServerTypes ==
    ASSUME TypeInv
    PROVE  /\ \A s \in Servers : s \in Conns /\ s \notin Clients /\ s # None
           /\ \A c \in Clients : c \in Conns /\ c \notin Servers /\ c # None
           /\ phase \in [Conns -> ServerPhases \cup ClientPhases] /\ inbox \in [Conns -> Seq(ConnTask)]
           /\ gen \in [Servers -> Nat] /\ queue \in Seq(Task) /\ registry \subseteq Registration
           /\ active \in [Ids -> Conns \cup {None}] /\ nextGen \in Nat \ {0} /\ nextId \in Nat
           /\ toDial \subseteq Request /\ dialled \subseteq StreamConn
           /\ peer \in [Clients -> Servers \cup {None}] /\ pending \subseteq Pending
           /\ attempt \in [Clients -> Target \cup {None}]
BY ConnAssumption, LimitAssumption DEF TypeInv, TypeOK, Conns

\* Handlers' steps as a server handler sees them.
LEMMA ServerSteps ==
    ASSUME TypeInv, [Next]_vars, ~Manager, NEW s \in Servers
    PROVE  Rests(s) \/ Ends(s) \/ Begins(s) \/ Reads(s) \/ RecvRegistered(s)
<1>1. /\ s \in Conns /\ s \notin Clients
      /\ phase \in [Conns -> ServerPhases \cup ClientPhases] /\ inbox \in [Conns -> Seq(ConnTask)]
  BY ServerTypes
<1>2. ASSUME NEW c \in Conns, Connect(c) \/ Reject(c) PROVE Rests(s) \/ Ends(s) \/ Begins(s)
  <2>1. CASE Connect(c)
    BY <1>1, <2>1 DEF Connect, Goto, Rests, Begins
  <2>2. CASE Reject(c)
    BY <1>1, <2>2 DEF Reject, Goto, Rests, Ends, Ended
  <2> QED BY <1>2, <2>1, <2>2
<1>3. ASSUME NEW c \in Conns, Deregister(c) \/ Cancel(c) PROVE Rests(s) \/ Ends(s)
  BY <1>1, <1>3, LeaveFrame DEF Rests, Ends, Ended
<1>4. ASSUME NEW c \in Clients, ClientStep(c) PROVE Rests(s)
  BY <1>1, <1>4, ClientFrame DEF Rests
<1>5. CASE SendDeferred \/ Dial \/ SendStream
  BY <1>5, OtherFrame DEF Rests
<1>6. ASSUME NEW z \in Servers, ServerStep(z)
      PROVE  Rests(s) \/ Ends(s) \/ Begins(s) \/ Reads(s) \/ RecvRegistered(s)
  <2>1. z \in Conns
    BY DEF Conns
  <2>2. ASSUME Close(z) PROVE Rests(s) \/ Ends(s)
    BY <1>1, <2>1, <2>2 DEF Close, Goto, Forget, Rests, Ends, Ended
  <2>3. CASE RecvRegisterFailed(z) \/ LoseSender(z) \/ RecvRetire(z) \/ LoseControl(z)
    BY <2>2, <2>3 DEF RecvRegisterFailed, LoseSender, RecvRetire, LoseControl
  <2>4. CASE RecvRegistered(z)
    BY <1>1, <2>1, <2>4 DEF RecvRegistered, Take, Goto, Rests
  <2>5. CASE ForwardStreamReq(z) \/ IgnoreUnexpected(z)
    <3>1. phase[z] = "live" /\ inbox[z] # <<>> /\ Take(z) /\ phase' = phase
      BY <2>5 DEF ForwardStreamReq, IgnoreUnexpected, Received
    <3> QED BY <1>1, <2>1, <3>1 DEF Take, Rests, Reads
  <2>6. CASE SendRegister(z)
    BY <1>1, <2>1, <2>6 DEF SendRegister, Goto, Rests, Begins
  <2>7. CASE ForwardStreamAck(z)
    BY <2>7 DEF ForwardStreamAck, Rests
  <2> QED BY <1>6, <2>3, <2>4, <2>5, <2>6, <2>7 DEF ServerStep
<1>7. CASE UNCHANGED vars
  BY <1>7 DEF vars, Rests
<1> QED BY <1>2, <1>3, <1>4, <1>5, <1>6, <1>7 DEF Next

\* Only the answer to a registration changes a generation.
LEMMA GenSteps ==
    ASSUME [Next]_vars
    PROVE  gen' = gen \/ (~Manager /\ \E z \in Servers : RecvRegistered(z))
<1>1. CASE Manager
  <2>1. CASE Accept
    BY <2>1 DEF Accept
  <2>2. CASE ~Accept
    BY <1>1, <2>2
    DEF Manager, AcceptStream, RegisterFail, Register, StreamAck, Stream, SubcribeOverLimit,
        SubcribeMissing, SubcribeOverRate, SubcribeAdmit, SelectNone, Answer,
        DeRegisterServerConn, RetireServerConn, SelectFailed, DeRegisterClientConn, SelectOk, handlerVars
  <2> QED BY <2>1, <2>2
<1>2. ASSUME NEW c \in Conns, Connect(c) \/ Reject(c) \/ Deregister(c) \/ Cancel(c) PROVE gen' = gen
  BY <1>2 DEF Connect, Reject, Deregister, Cancel, Forget, handlerVars
<1>3. ASSUME NEW s \in Servers, ServerStep(s) PROVE gen' = gen \/ RecvRegistered(s)
  BY <1>3 DEF ServerStep, SendRegister, RecvRegisterFailed, LoseSender, ForwardStreamReq,
              IgnoreUnexpected, RecvRetire, LoseControl, ForwardStreamAck, Close, Forget, handlerVars
<1>4. ASSUME NEW c \in Clients, ClientStep(c) PROVE gen' = gen
  BY <1>4 DEF ClientStep, SendSubcribe, RecvSubcribeResp, RecvSubcribeRetry, RecoveryExpired,
              RecvOther, SubcribeTimeout, StreamTimeout, RecvStream, LoseClient,
              RecvStreamAck, RecvStale, RecvNotStream, FinishForwarding, Close, Forget, handlerVars
<1>5. CASE SendDeferred \/ Dial \/ SendStream
  BY <1>5 DEF SendDeferred, Dial, SendStream, handlerVars
<1>6. CASE UNCHANGED vars
  BY <1>6 DEF vars, handlerVars
<1> QED BY <1>1, <1>2, <1>3, <1>4, <1>5, <1>6 DEF Next

\* A handler appends a registration when it starts to wait for it.
LEMMA RegisterSteps ==
    ASSUME TypeInv, [Next]_vars, ~Manager
    PROVE  \/ queue' = queue
           \/ \E t \in Task :
                /\ queue' = Append(queue, t)
                /\ t.type = "Register" =>
                      t.conn \in Servers /\ phase[t.conn] = "accepted" /\ phase'[t.conn] = "registering"
<1>1. ASSUME NEW c \in Conns, Connect(c) \/ Reject(c)
      PROVE  queue' = queue \/ \E t \in Task : t.type = "Accept" /\ queue' = Append(queue, t)
  BY <1>1, ListenerFrame
<1>2. ASSUME NEW c \in Conns, Deregister(c) \/ Cancel(c)
      PROVE  queue' = queue \/ \E t \in Task : t.type # "Register" /\ queue' = Append(queue, t)
  BY <1>2, LeaveFrame
<1>3. ASSUME NEW s \in Servers, ServerStep(s)
      PROVE  \/ queue' = queue
             \/ \E t \in Task : t.type # "Register" /\ queue' = Append(queue, t)
             \/ SendRegister(s)
  <2>1. CASE ForwardStreamAck(s)
    <3>1. queue' = queue \/ \E t : t.type = "StreamAck" /\ queue' = Append(queue, t)
      BY <2>1 DEF ForwardStreamAck, Send
    <3>2. queue' = queue \/ \E t \in Task : t.type \in {"Register", "StreamAck"} /\ queue' = Append(queue, t)
      BY <1>3, ServerFrame
    <3>3. queue \in Seq(Task)
      BY ServerTypes
    <3>4. ASSUME NEW t, NEW u, Append(queue, t) = Append(queue, u) PROVE t = u
      <4>1. Append(queue, t)[Len(queue) + 1] = t /\ Append(queue, u)[Len(queue) + 1] = u
        BY <3>3
      <4> QED BY <3>4, <4>1
    <3> QED BY <3>1, <3>2, <3>4
  <2> QED BY <1>3, <2>1 DEF ServerStep, RecvRegistered, RecvRegisterFailed, LoseSender,
             ForwardStreamReq, IgnoreUnexpected, RecvRetire, LoseControl
<1>4. ASSUME NEW c \in Clients, ClientStep(c)
      PROVE  queue' = queue \/ \E t \in Task : t.type # "Register" /\ queue' = Append(queue, t)
  BY <1>4, ClientFrame
<1>5. CASE SendDeferred \/ Dial \/ SendStream
  <2>1. CASE SendDeferred
    <3>1. deferred \subseteq Deregistration
      BY DEF TypeInv, TypeOK
    <3>2. PICK t \in deferred : queue' = Append(queue, t)
      BY <2>1 DEF SendDeferred, Send
    <3>3. t \in Task /\ t.type # "Register"
      BY <3>1, <3>2 DEF Task, Deregistration
    <3> QED BY <3>2, <3>3
  <2>2. CASE Dial
    <3>1. PICK q \in toDial : queue' = Append(queue, [type |-> "AcceptStream", req |-> q])
      BY <2>2 DEF Dial, Send
    <3>2. [type |-> "AcceptStream", req |-> q] \in Task
      BY <3>1, ServerTypes DEF Task
    <3> QED BY <3>1, <3>2
  <2>3. CASE SendStream
    <3>1. PICK q \in dialled :
            queue' = Append(queue, [type |-> "Stream", srv |-> q.srv, sid |-> q.sid,
                                    client |-> q.client, gen |-> q.gen])
      BY <2>3 DEF SendStream, Send
    <3>2. [type |-> "Stream", srv |-> q.srv, sid |-> q.sid, client |-> q.client, gen |-> q.gen] \in Task
      BY <3>1, ServerTypes DEF Task, StreamConn
    <3> QED BY <3>1, <3>2
  <2> QED BY <1>5, <2>1, <2>2, <2>3
<1>6. ASSUME NEW s \in Servers, SendRegister(s)
      PROVE  \E t \in Task : /\ queue' = Append(queue, t) /\ t.conn \in Servers
                             /\ phase[t.conn] = "accepted" /\ phase'[t.conn] = "registering"
  <2>1. s \in Conns /\ cid[s] \in Ids
    BY <1>6 DEF SendRegister, TypeInv, TypeOK, HandlerInv, Conns
  <2>2. [type |-> "Register", conn |-> s, id |-> cid[s]] \in Task
    BY <2>1 DEF Task
  <2>3. phase[s] = "accepted" /\ phase'[s] = "registering"
    BY <1>6, <2>1, ServerTypes DEF SendRegister, Goto
  <2> QED BY <1>6, <2>2, <2>3 DEF SendRegister, Send
<1>7. CASE UNCHANGED vars
  BY <1>7 DEF vars
<1> QED BY <1>1, <1>2, <1>3, <1>4, <1>5, <1>6, <1>7 DEF Next

\* The registrations asked for, after a task is sent or served.
LEMMA AsksAhead ==
    ASSUME queue \in Seq(Task), NEW t \in Task, queue' = Append(queue, t), NEW s
    PROVE  /\ Asks(s)' \subseteq Asks(s) \cup {Len(queue) + 1}
           /\ t.type # "Register" \/ t.conn # s => Asks(s)' = Asks(s)
<1>1. /\ Len(queue) \in Nat /\ Len(queue') = Len(queue) + 1
      /\ \A m \in 1 .. Len(queue) : m \in 1 .. Len(queue) + 1 /\ queue'[m] = queue[m]
      /\ queue'[Len(queue) + 1] = t
      /\ \A m \in 1 .. Len(queue) + 1 : m \in 1 .. Len(queue) \/ m = Len(queue) + 1
  BY Ahead
<1> QED BY <1>1 DEF Asks

LEMMA AsksBehind ==
    ASSUME queue \in Seq(Task), queue # <<>>, queue' = Tail(queue), NEW s
    PROVE  /\ \A n \in Asks(s)' : n \in Nat \ {0} /\ n + 1 \in Asks(s)
           /\ Head(queue).type = "Register" /\ Head(queue).conn = s => 1 \in Asks(s)
<1>1. /\ Len(queue) \in Nat \ {0} /\ Len(queue') = Len(queue) - 1 /\ Head(queue) = queue[1]
      /\ \A m \in 1 .. Len(queue') : m + 1 \in 1 .. Len(queue) /\ queue'[m] = queue[m + 1]
  BY Behind
<1> QED BY <1>1 DEF Asks

\* What a posted message adds to a channel.
LEMMA PostKeeps ==
    ASSUME NEW box \in [Conns -> Seq(ConnTask)], NEW c \in Conns, NEW m \in ConnTask
    PROVE  /\ \A d \in Conns : Range(box[d]) \subseteq Range(Post(box, c, m)[d])
           /\ Receiving(c) => m \in Range(Post(box, c, m)[c])
<1>1. ASSUME NEW d \in Conns PROVE Range(box[d]) \subseteq Range(Append(box[d], m)) /\ m \in Range(Append(box[d], m))
  <2>1. box[d] \in Seq(ConnTask)
    OBVIOUS
  <2>2. /\ Len(box[d]) \in Nat /\ Len(Append(box[d], m)) = Len(box[d]) + 1
        /\ \A n \in 1 .. Len(box[d]) : n \in 1 .. Len(box[d]) + 1 /\ Append(box[d], m)[n] = box[d][n]
        /\ Append(box[d], m)[Len(box[d]) + 1] = m
    BY <2>1, Ahead
  <2>3. DOMAIN box[d] = 1 .. Len(box[d]) /\ DOMAIN Append(box[d], m) = 1 .. Len(box[d]) + 1
        /\ Len(box[d]) + 1 \in 1 .. Len(box[d]) + 1
    BY <2>1, <2>2
  <2> QED BY <2>2, <2>3 DEF Range
<1>2. \A d \in Conns : Post(box, c, m)[d] = box[d] \/ Post(box, c, m)[d] = Append(box[d], m)
  BY PostChannel
<1>3. Receiving(c) => Post(box, c, m)[c] = Append(box[c], m)
  BY PostChannel
<1> QED BY <1>1, <1>2, <1>3

\* The manager's messages that are about registrations and streams.
Granting(c, m) == /\ Register /\ m.type = "RegisterResp" /\ c = Head(queue).conn /\ Receiving(c)
                  /\ m.gen = nextGen
Asking(c, m) == SelectOk /\ m.type = "StreamReq" /\ \E r \in registry : c = active[r.id] /\ m.gen = r.gen
Answering(m) ==
    /\ Stream /\ m.type = "StreamResp" /\ m.srv = Head(queue).srv
    /\ \E p \in pending : StreamMatches(p, Head(queue)) /\ m.gen = p.gen
Other(m) == m.type \notin {"RegisterResp", "StreamReq", "StreamResp"}

LEMMA ManagerInbox ==
    ASSUME TypeInv, Manager
    PROVE  \/ inbox' = inbox
           \/ \E c \in Conns, m \in ConnTask :
                inbox' = Post(inbox, c, m) /\ (Other(m) \/ (Granting(c, m) \/ Answering(m)))
           \/ \E c, d \in Conns, m, n \in ConnTask :
                inbox' = Post(Post(inbox, c, m), d, n) /\ Asking(c, m) /\ Other(n)
<1>1. /\ TypeOK /\ pending \subseteq Pending /\ registry \subseteq Registration /\ nextGen \in Nat
      /\ active \in [Ids -> Conns \cup {None}] /\ \A s \in Servers : s \in Conns
      /\ \A c \in Clients : c \in Conns
      /\ (selecting => queue # <<>> /\ Head(queue).type = "Subcribe")
  BY ServerTypes DEF TypeInv, HandlerInv
<1>2. CASE Accept \/ AcceptStream \/ DeRegisterServerConn \/ DeRegisterClientConn \/ SubcribeAdmit \/ SelectFailed
  BY <1>2 DEF Accept, AcceptStream, DeRegisterServerConn, DeRegisterClientConn, SubcribeAdmit, SelectFailed
<1>3. CASE RegisterFail
  <2> DEFINE m == [type |-> "RegisterFailed"]
  <2>1. m \in ConnTask /\ Other(m)
    BY DEF ConnTask, Other
  <2>2. Head(queue).conn \in Conns /\ inbox' = Post(inbox, Head(queue).conn, m)
    BY <1>1, <1>3, HeadTask DEF RegisterFail, HeadIs
  <2> HIDE DEF m
  <2> QED BY <2>1, <2>2
<1>4. CASE Register
  <2> DEFINE m == [type |-> "RegisterResp", gen |-> nextGen]  c == Head(queue).conn
  <2>1. m \in ConnTask /\ m.type = "RegisterResp" /\ m.gen = nextGen
    BY <1>1 DEF ConnTask
  <2>2. c \in Conns /\ inbox' = Post(inbox, c, m)
    BY <1>1, <1>4, HeadTask DEF Register, HeadIs
  <2>3. c = Head(queue).conn
    OBVIOUS
  <2> HIDE DEF m, c
  <2>4. CASE Receiving(c)
    BY <1>4, <2>1, <2>2, <2>3, <2>4 DEF Granting
  <2>5. CASE ~Receiving(c)
    BY <2>2, <2>5 DEF Post
  <2> QED BY <2>4, <2>5
<1>5. CASE RetireServerConn
  <2> DEFINE m == [type |-> "Retire"]
  <2>1. m \in ConnTask /\ Other(m)
    BY DEF ConnTask, Other
  <2>2. Head(queue).id \in Ids
    BY <1>1, <1>5, HeadTask DEF RetireServerConn, HeadIs
  <2>3. inbox' = inbox \/ (active[Head(queue).id] \in Conns /\ inbox' = Post(inbox, active[Head(queue).id], m))
    BY <1>1, <1>5, <2>2 DEF RetireServerConn
  <2> HIDE DEF m
  <2> QED BY <2>1, <2>3
<1>6. ASSUME NEW i \in Ids, NEW m \in ConnTask, ToClient(i, m)
      PROVE  inbox' = inbox \/ \E c \in Conns : inbox' = Post(inbox, c, m)
  BY <1>1, <1>6 DEF ToClient
<1>7. CASE StreamAck
  <2> DEFINE t == Head(queue)
             m == [type |-> "StreamAck", server |-> t.server, gen |-> t.gen]
  <2>1. t.client \in Ids /\ t.server \in Ids /\ t.gen \in Nat
    BY <1>1, <1>7, HeadTask DEF StreamAck, HeadIs
  <2>2. m \in ConnTask /\ Other(m)
    BY <2>1 DEF ConnTask, Other
  <2>3. inbox' = inbox \/ ToClient(t.client, m)
    BY <1>7 DEF StreamAck
  <2> HIDE DEF m
  <2> QED BY <1>6, <2>1, <2>2, <2>3
<1>8. CASE Stream
  <2> DEFINE t == Head(queue)
             m(p) == [type |-> "StreamResp", srv |-> t.srv, sid |-> t.sid, gen |-> p.gen]
  <2>1. t.client \in Ids /\ t.srv \in Servers /\ t.sid \in Ids
    BY <1>1, <1>8, HeadTask DEF Stream, HeadIs
  <2>2. \A p \in pending : m(p) \in ConnTask /\ m(p).type = "StreamResp" /\ m(p).srv = t.srv /\ m(p).gen = p.gen
    BY <1>1, <2>1 DEF ConnTask, Pending
  <2>3. inbox' = inbox \/ \E p \in pending : ToClient(t.client, m(p)) /\ StreamMatches(p, t)
    BY <1>8 DEF Stream, PendingOf
  <2> HIDE DEF m
  <2>4. CASE \E p \in pending : ToClient(t.client, m(p)) /\ StreamMatches(p, t)
    <3>1. PICK p \in pending : ToClient(t.client, m(p)) /\ StreamMatches(p, t)
      BY <2>4
    <3>2. Answering(m(p)) /\ m(p) \in ConnTask
      BY <1>8, <2>2, <3>1 DEF Answering
    <3> QED BY <1>6, <2>1, <3>1, <3>2
  <2> QED BY <2>3, <2>4
<1>9. ASSUME NEW m \in ConnTask, Other(m), Answer(m), queue # <<>>, Head(queue).type = "Subcribe"
      PROVE  \E c \in Conns : inbox' = Post(inbox, c, m)
  BY <1>1, <1>9, HeadTask DEF Answer
<1>10. CASE SubcribeOverLimit \/ SubcribeMissing \/ SubcribeOverRate \/ SelectNone
  <2>1. queue # <<>> /\ Head(queue).type = "Subcribe"
    BY <1>1, <1>10 DEF SubcribeOverLimit, SubcribeMissing, SubcribeOverRate, SelectNone,
                       SubcribeAdmissible, HeadIs
  <2>2. \A e : Unavailable(e) \in ConnTask /\ Other(Unavailable(e))
    BY DEF Unavailable, ConnTask, Other
  <2>3. \A code \in {"limit", "rate"} :
           [type |-> "SubcribeFailed", code |-> code] \in ConnTask
           /\ Other([type |-> "SubcribeFailed", code |-> code])
    BY DEF ConnTask, Other
  <2>4. \E m \in ConnTask : Other(m) /\ Answer(m)
    <3>1. CASE SubcribeOverLimit
      BY <2>3, <3>1 DEF SubcribeOverLimit
    <3>2. CASE SubcribeOverRate
      BY <2>3, <3>2 DEF SubcribeOverRate
    <3>3. CASE SubcribeMissing \/ SelectNone
      BY <2>2, <3>3 DEF SubcribeMissing, SelectNone
    <3> QED BY <1>10, <3>1, <3>2, <3>3
  <2> QED BY <1>9, <2>1, <2>4
<1>11. CASE SelectOk
  <2> DEFINE i   == Head(queue).id
             req(r) == [type |-> "StreamReq", client |-> i, gen |-> r.gen]
             rsp(r) == [type |-> "SubcribeResp", server |-> r.id, gen |-> r.gen]
  <2>1. Head(queue).conn \in Conns /\ i \in Ids
    BY <1>1, <1>11, HeadTask DEF SelectOk
  <2>2. PICK r \in registry :
          /\ active[r.id] # None
          /\ inbox' = Post(Post(inbox, active[r.id], req(r)), Head(queue).conn, rsp(r))
    BY <1>11 DEF SelectOk
  <2>3. r.id \in Ids /\ r.gen \in Nat /\ active[r.id] \in Conns
    BY <1>1, <2>2 DEF Registration
  <2>4. req(r) \in ConnTask /\ rsp(r) \in ConnTask /\ Other(rsp(r))
        /\ req(r).type = "StreamReq" /\ req(r).gen = r.gen
    BY <2>1, <2>3 DEF ConnTask, Other
  <2> HIDE DEF req, rsp
  <2>5. Asking(active[r.id], req(r))
    BY <1>11, <2>4 DEF Asking
  <2> QED BY <2>1, <2>2, <2>3, <2>4, <2>5
<1> QED BY <1>2, <1>3, <1>4, <1>5, <1>7, <1>8, <1>10, <1>11 DEF Manager

\* So its steps add those messages to the channels, and take none away.
LEMMA ManagerPosts ==
    ASSUME TypeInv, Manager, NEW c \in Conns
    PROVE  /\ Range(inbox[c]) \subseteq Range(inbox'[c])
           /\ \A m \in Range(inbox'[c]) : \/ m \in Range(inbox[c]) \/ Other(m)
                                          \/ Granting(c, m) \/ Answering(m) \/ Asking(c, m)
<1>1. inbox \in [Conns -> Seq(ConnTask)]
  BY ServerTypes
<1>2. CASE inbox' = inbox
  BY <1>2
<1>3. ASSUME NEW d \in Conns, NEW n \in ConnTask, inbox' = Post(inbox, d, n),
             Other(n) \/ (Granting(d, n) \/ Answering(n))
      PROVE  /\ Range(inbox[c]) \subseteq Range(inbox'[c])
             /\ \A m \in Range(inbox'[c]) : \/ m \in Range(inbox[c]) \/ Other(m)
                                            \/ Granting(c, m) \/ Answering(m) \/ Asking(c, m)
  <2>1. Range(inbox[c]) \subseteq Range(inbox'[c])
    BY <1>1, <1>3, PostKeeps
  <2>2. \A m \in Range(inbox'[c]) : m \in Range(inbox[c]) \/ (c = d /\ m = n)
    BY <1>1, <1>3, PostRange
  <2> QED BY <1>3, <2>1, <2>2
<1>4. ASSUME NEW d \in Conns, NEW e \in Conns, NEW n \in ConnTask, NEW o \in ConnTask,
             inbox' = Post(Post(inbox, d, n), e, o), Asking(d, n), Other(o)
      PROVE  /\ Range(inbox[c]) \subseteq Range(inbox'[c])
             /\ \A m \in Range(inbox'[c]) : \/ m \in Range(inbox[c]) \/ Other(m)
                                            \/ Granting(c, m) \/ Answering(m) \/ Asking(c, m)
  <2> DEFINE box == Post(inbox, d, n)
  <2>1. box \in [Conns -> Seq(ConnTask)] /\ Range(inbox[c]) \subseteq Range(box[c])
    BY <1>1, PostType, PostKeeps
  <2>2. \A m \in Range(box[c]) : m \in Range(inbox[c]) \/ (c = d /\ m = n)
    BY <1>1, PostRange
  <2>3. inbox' = Post(box, e, o)
    BY <1>4
  <2> HIDE DEF box
  <2>4. /\ Range(box[c]) \subseteq Range(inbox'[c])
        /\ \A m \in Range(inbox'[c]) : m \in Range(box[c]) \/ m = o
    BY <2>1, <2>3, PostKeeps, PostRange
  <2> QED BY <1>4, <2>1, <2>2, <2>4
<1> QED BY <1>2, <1>3, <1>4, ManagerInbox

\* A registration is asked for once: the steps of the handlers.
LEMMA HandlerOnce ==
    ASSUME TypeInv, OnceInv, [Next]_vars, ~Manager PROVE OnceInv'
<1> SUFFICES ASSUME NEW s \in Servers
             PROVE  \/ phase'[s] \in Ended
                    \/ phase'[s] \in {"new", "accepting", "accepted"} /\ Unregistered(s)'
                    \/ phase'[s] = "registering" /\ Awaiting(s)'
                    \/ phase'[s] = "live" /\ Live(s)'
  BY DEF OnceInv
<1>1. /\ s \in Conns /\ queue \in Seq(Task) /\ inbox[s] \in Seq(ConnTask)
      /\ inbox \in [Conns -> Seq(ConnTask)] /\ gen \in [Servers -> Nat]
  BY ServerTypes
<1>2. \/ phase[s] \in Ended
      \/ phase[s] \in {"new", "accepting", "accepted"} /\ Unregistered(s)
      \/ phase[s] = "registering" /\ Awaiting(s)
      \/ phase[s] = "live" /\ Live(s)
  BY DEF OnceInv
<1>3. /\ Asks(s)' \subseteq Asks(s) \cup {Len(queue) + 1}
      /\ phase[s] # "accepted" \/ phase'[s] # "registering" => Asks(s)' = Asks(s)
  <2>1. CASE queue' = queue
    BY <2>1 DEF Asks
  <2>2. CASE queue' # queue
    <3>1. PICK t \in Task : /\ queue' = Append(queue, t)
                            /\ t.type = "Register" => /\ t.conn \in Servers /\ phase[t.conn] = "accepted"
                                                      /\ phase'[t.conn] = "registering"
      BY <2>2, RegisterSteps
    <3>2. /\ Asks(s)' \subseteq Asks(s) \cup {Len(queue) + 1}
          /\ t.type # "Register" \/ t.conn # s => Asks(s)' = Asks(s)
      BY <1>1, <3>1, AsksAhead
    <3> QED BY <3>1, <3>2
  <2> QED BY <2>1, <2>2
<1>4. gen'[s] = gen[s] \/ RecvRegistered(s)
  <2>1. CASE gen' = gen
    BY <2>1
  <2>2. ASSUME NEW z \in Servers, RecvRegistered(z) PROVE gen'[s] = gen[s] \/ RecvRegistered(s)
    BY <1>1, <2>2 DEF RecvRegistered
  <2> QED BY <2>1, <2>2, GenSteps
<1>5. CASE RecvRegistered(s)
  <2>1. /\ phase[s] = "registering" /\ phase'[s] = "live" /\ inbox[s] # <<>>
        /\ Head(inbox[s]).type = "RegisterResp" /\ gen'[s] = Head(inbox[s]).gen
        /\ inbox'[s] = Tail(inbox[s])
    BY <1>1, <1>5, ServerTypes DEF RecvRegistered, Received, Take, Goto
  <2> DEFINE g == Head(inbox[s]).gen
  <2>2. g \in Nat /\ Head(inbox[s]) \in Range(inbox[s]) /\ Range(inbox'[s]) \subseteq Range(inbox[s])
    BY <1>1, <2>1, HeadMessage, TailRange DEF TypeInv
  <2>3. Grants(s, g)
    BY <2>1, <2>2 DEF Grants
  <2>4. gen'[s] = g
    BY <2>1
  <2> HIDE DEF g
  <2>5. Awaiting(s)
    BY <1>2, <2>1 DEF Ended
  <2>6. Asks(s) = {} /\ \A h \in Nat : Grants(s, h) => h = g
    BY <2>2, <2>3, <2>5 DEF Awaiting
  <2>7. \A h \in Nat : Grants(s, h)' => Grants(s, h)
    BY <2>2 DEF Grants
  <2>8. Asks(s)' = {}
    BY <1>3, <2>1, <2>6
  <2> QED BY <2>1, <2>4, <2>6, <2>7, <2>8 DEF Live
<1>6. CASE gen'[s] = gen[s] /\ Rests(s)
  <2>1. phase'[s] = phase[s] /\ Asks(s)' = Asks(s) /\ \A g : Grants(s, g)' = Grants(s, g)
    BY <1>3, <1>6 DEF Rests, Grants
  <2> QED BY <1>2, <1>6, <2>1 DEF Unregistered, Awaiting, Live
<1>7. CASE Ends(s)
  BY <1>7 DEF Ends
<1>8. CASE gen'[s] = gen[s] /\ Reads(s)
  <2>1. /\ phase[s] = "live" /\ phase'[s] = "live" /\ inbox[s] # <<>> /\ inbox'[s] = Tail(inbox[s])
        /\ Asks(s)' = Asks(s)
    BY <1>3, <1>8 DEF Reads
  <2>2. Range(inbox'[s]) \subseteq Range(inbox[s])
    BY <1>1, <2>1, TailRange
  <2>3. Live(s)
    BY <1>2, <2>1 DEF Ended
  <2>4. \A g : Grants(s, g)' => Grants(s, g)
    BY <2>2 DEF Grants
  <2> QED BY <1>8, <2>1, <2>3, <2>4 DEF Live
<1>9. CASE gen'[s] = gen[s] /\ Begins(s)
  <2>1. \A g : Grants(s, g)' = Grants(s, g)
    BY <1>9 DEF Begins, Grants
  <2>2. CASE phase[s] = "new" /\ phase'[s] = "accepting"
    BY <1>2, <1>3, <1>9, <2>1, <2>2 DEF Unregistered, Ended
  <2>3. CASE phase[s] = "accepted" /\ phase'[s] = "registering"
    <3>1. Unregistered(s)
      BY <1>2, <2>3 DEF Ended
    <3>2. \A m, n \in Asks(s)' : m = n
      BY <1>3, <3>1 DEF Unregistered
    <3> QED BY <1>9, <2>1, <2>3, <3>1, <3>2 DEF Unregistered, Awaiting
  <2> QED BY <1>9, <2>2, <2>3 DEF Begins
<1> QED BY <1>4, <1>5, <1>6, <1>7, <1>8, <1>9, ServerSteps

\* The manager grants a generation for each registration it serves.
LEMMA ManagerOnce ==
    ASSUME TypeInv, AcceptInv, OnceInv, Manager PROVE OnceInv'
<1> SUFFICES ASSUME NEW s \in Servers
             PROVE  \/ phase'[s] \in Ended
                    \/ phase'[s] \in {"new", "accepting", "accepted"} /\ Unregistered(s)'
                    \/ phase'[s] = "registering" /\ Awaiting(s)'
                    \/ phase'[s] = "live" /\ Live(s)'
  BY DEF OnceInv
<1>1. s \in Conns /\ queue \in Seq(Task) /\ nextGen \in Nat \ {0} /\ gen \in [Servers -> Nat]
      /\ phase \in [Conns -> ServerPhases \cup ClientPhases]
  BY ServerTypes
<1>2. \/ phase[s] \in Ended
      \/ phase[s] \in {"new", "accepting", "accepted"} /\ Unregistered(s)
      \/ phase[s] = "registering" /\ Awaiting(s)
      \/ phase[s] = "live" /\ Live(s)
  BY DEF OnceInv
<1>3. gen'[s] = gen[s]
  BY GenSteps DEF Next
<1>4. phase'[s] = phase[s] \/ (phase[s] = "accepting" /\ phase'[s] = "accepted")
  <2>1. CASE phase' = phase
    BY <2>1
  <2>2. CASE /\ queue # <<>> /\ Head(queue).type = "Accept"
             /\ phase' = [phase EXCEPT ![Head(queue).conn] = "accepted"]
    <3>1. Len(queue) \in Nat \ {0} /\ Head(queue) = queue[1] /\ 1 \in 1 .. Len(queue)
      BY <1>1, <2>2, Behind
    <3>2. phase[Head(queue).conn] = "accepting"
      BY <2>2, <3>1 DEF AcceptInv
    <3> QED BY <1>1, <2>2, <3>2
  <2> QED BY <2>1, <2>2, ManagerFrame
<1>5. /\ Asks(s) = {} => Asks(s)' = {}
      /\ (\A m, n \in Asks(s) : m = n) => \A m, n \in Asks(s)' : m = n
  <2>1. CASE queue' = queue
    BY <2>1 DEF Asks
  <2>2. CASE queue # <<>> /\ queue' = Tail(queue)
    <3>1. \A n \in Asks(s)' : n \in Nat \ {0} /\ n + 1 \in Asks(s)
      BY <1>1, <2>2, AsksBehind
    <3>2. ASSUME \A m, n \in Asks(s) : m = n, NEW m \in Asks(s)', NEW n \in Asks(s)' PROVE m = n
      <4>1. m \in Nat /\ n \in Nat /\ m + 1 = n + 1
        BY <3>1, <3>2
      <4> QED BY <4>1
    <3> QED BY <3>1, <3>2
  <2> QED BY <2>1, <2>2, ManagerFrame
<1>6. ASSUME NEW g \in Nat, Grants(s, g)', ~Grants(s, g)
      PROVE  Register /\ s = Head(queue).conn /\ g = nextGen
  <2>1. PICK m \in Range(inbox'[s]) : m.type = "RegisterResp" /\ m.gen = g
    BY <1>6 DEF Grants
  <2>2. m \notin Range(inbox[s])
    BY <1>6, <2>1 DEF Grants
  <2> QED BY <1>1, <2>1, <2>2, ManagerPosts DEF Other, Granting, Answering, Asking
<1>7. ASSUME Register, s = Head(queue).conn
      PROVE  1 \in Asks(s) /\ (\A n \in Asks(s)' : n + 1 \in Asks(s) /\ n + 1 # 1)
  <2>1. queue # <<>> /\ queue' = Tail(queue) /\ Head(queue).type = "Register"
    BY <1>7 DEF Register, HeadIs, Served
  <2>2. \A n \in Asks(s)' : n \in Nat \ {0} /\ n + 1 \in Asks(s)
    BY <1>1, <2>1, AsksBehind
  <2>3. 1 \in Asks(s)
    BY <1>1, <1>7, <2>1, AsksBehind
  <2> QED BY <2>2, <2>3
<1>8. CASE Asks(s) = {}
  <2>1. Asks(s)' = {} /\ \A g \in Nat : Grants(s, g)' => Grants(s, g)
    BY <1>5, <1>6, <1>7, <1>8
  <2>2. CASE phase[s] \in {"new", "accepting", "accepted"} /\ Unregistered(s)
    BY <1>3, <1>4, <2>1, <2>2 DEF Unregistered
  <2>3. CASE phase[s] = "registering" /\ Awaiting(s)
    <3>1. Awaiting(s)'
      BY <1>3, <2>1, <2>3 DEF Awaiting
    <3> QED BY <1>4, <2>3, <3>1
  <2>4. CASE phase[s] = "live" /\ Live(s)
    BY <1>3, <1>4, <2>1, <2>4 DEF Live
  <2>5. CASE phase[s] \in Ended
    BY <1>4, <2>5 DEF Ended
  <2> QED BY <1>2, <2>2, <2>3, <2>4, <2>5
<1>9. CASE Asks(s) # {}
  <2>1. phase[s] \in Ended \/ (phase[s] = "registering" /\ Awaiting(s))
    BY <1>2, <1>9 DEF Unregistered, Live
  <2>2. CASE phase[s] = "registering" /\ Awaiting(s)
    <3>1. gen[s] = 0 /\ (\A m, n \in Asks(s) : m = n) /\ \A g \in Nat : ~Grants(s, g)
      BY <1>9, <2>2 DEF Awaiting
    <3>2. \A m, n \in Asks(s)' : m = n
      BY <1>5, <3>1
    <3>3. ASSUME NEW g \in Nat, NEW h \in Nat, Grants(s, g)'
          PROVE  g # 0 /\ Asks(s)' = {} /\ (Grants(s, h)' => g = h)
      <4>1. Register /\ s = Head(queue).conn /\ g = nextGen
        BY <1>6, <3>1, <3>3
      <4>2. Grants(s, h)' => h = nextGen
        BY <1>6, <3>1
      <4>3. Asks(s)' = {}
        BY <1>7, <3>1, <4>1
      <4> QED BY <1>1, <4>1, <4>2, <4>3
    <3> QED BY <1>3, <1>4, <2>2, <3>1, <3>2, <3>3 DEF Awaiting
  <2>3. CASE phase[s] \in Ended
    BY <1>4, <2>3 DEF Ended
  <2> QED BY <2>1, <2>2, <2>3
<1> QED BY <1>8, <1>9

\* So a registration granted is known until the handler ends.
LEMMA RegisteredStays ==
    ASSUME TypeInv, AcceptInv, OnceInv, [Next]_vars, NEW s \in Servers, NEW g \in Nat, Registered(s, g)
    PROVE  Registered(s, g)'
<1>1. /\ s \in Conns /\ inbox \in [Conns -> Seq(ConnTask)] /\ gen \in [Servers -> Nat]
      /\ phase \in [Conns -> ServerPhases \cup ClientPhases]
  BY ServerTypes
<1>2. g # 0 /\ (phase[s] \in Ended \/ gen[s] = g \/ Grants(s, g))
  BY DEF Registered
<1>3. CASE Manager
  <2>1. gen'[s] = gen[s]
    BY <1>3, GenSteps
  <2>2. Grants(s, g) => Grants(s, g)'
    BY <1>1, <1>3, ManagerPosts DEF Grants
  <2>3. phase[s] \in Ended => phase'[s] \in Ended
    <3>1. OnceInv /\ queue \in Seq(Task)
      BY ServerTypes
    <3>2. CASE phase' = phase
      BY <3>2
    <3>3. CASE /\ queue # <<>> /\ Head(queue).type = "Accept"
               /\ phase' = [phase EXCEPT ![Head(queue).conn] = "accepted"]
      <4>1. Len(queue) \in Nat \ {0} /\ Head(queue) = queue[1] /\ 1 \in 1 .. Len(queue)
        BY <3>1, <3>3, Behind
      <4>2. phase[Head(queue).conn] = "accepting"
        BY <3>3, <4>1 DEF AcceptInv
      <4> QED BY <1>1, <3>3, <4>2 DEF Ended
    <3> QED BY <1>3, <3>2, <3>3, ManagerFrame
  <2> QED BY <1>2, <2>1, <2>2, <2>3 DEF Registered
<1>4. CASE ~Manager
  <2>1. gen'[s] = gen[s] \/ RecvRegistered(s)
    <3>1. CASE gen' = gen
      BY <3>1
    <3>2. ASSUME NEW z \in Servers, RecvRegistered(z) PROVE gen'[s] = gen[s] \/ RecvRegistered(s)
      BY <1>1, <3>2 DEF RecvRegistered
    <3> QED BY <3>1, <3>2, GenSteps
  <2>2. CASE RecvRegistered(s)
    <3>1. /\ phase[s] = "registering" /\ inbox[s] # <<>> /\ gen'[s] = Head(inbox[s]).gen
          /\ Head(inbox[s]).type = "RegisterResp"
      BY <1>1, <2>2 DEF RecvRegistered, Received
    <3>2. Head(inbox[s]) \in Range(inbox[s]) /\ Head(inbox[s]).gen \in Nat
      BY <1>1, <3>1, HeadMessage, TailRange DEF TypeInv
    <3>3. Awaiting(s)
      BY <3>1 DEF OnceInv, Ended
    <3>4. Grants(s, Head(inbox[s]).gen)
      BY <3>1, <3>2 DEF Grants
    <3>5. Grants(s, g)
      BY <1>2, <3>1, <3>3 DEF Awaiting, Ended
    <3>6. gen'[s] = g
      BY <3>1, <3>2, <3>3, <3>4, <3>5 DEF Awaiting
    <3> QED BY <1>2, <3>6 DEF Registered
  <2>3. CASE gen'[s] = gen[s] /\ (Rests(s) \/ Begins(s))
    <3>1. Grants(s, g)' = Grants(s, g) /\ (phase[s] \in Ended => phase'[s] \in Ended)
      BY <2>3 DEF Rests, Begins, Grants, Ended
    <3> QED BY <1>2, <2>3, <3>1 DEF Registered
  <2>4. CASE Ends(s)
    BY <1>2, <2>4 DEF Ends, Registered
  <2>5. CASE gen'[s] = gen[s] /\ Reads(s)
    <3>1. phase[s] = "live"
      BY <2>5 DEF Reads
    <3>2. gen[s] = g
      BY <1>2, <3>1 DEF OnceInv, Live, Ended
    <3> QED BY <1>2, <2>5, <3>2 DEF Registered
  <2> QED BY <1>4, <2>1, <2>2, <2>3, <2>4, <2>5, ServerSteps
<1> QED BY <1>3, <1>4

\* And the generations of streams stay the ones of their servers.
LEMMA GenStays ==
    ASSUME TypeInv, OnceInv, [Next]_vars, NEW s \in Servers
    PROVE  gen[s] # 0 => gen'[s] = gen[s]
<1>1. gen \in [Servers -> Nat]
  BY ServerTypes
<1>2. ASSUME NEW z \in Servers, RecvRegistered(z) PROVE gen[s] # 0 => gen'[s] = gen[s]
  <2>1. phase[z] = "registering" /\ gen' = [gen EXCEPT ![z] = Head(inbox[z]).gen]
    BY <1>2 DEF RecvRegistered
  <2>2. gen[z] = 0
    BY <2>1 DEF OnceInv, Awaiting, Ended
  <2> QED BY <1>1, <2>1, <2>2
<1> QED BY <1>2, GenSteps

-----------------------------------------------------------------------------
(* What is filed *)

\* What a task of the manager does to the connection table and the registry.
LEMMA FiledSteps ==
    ASSUME TypeInv, Manager, ~Register
    PROVE  /\ \A i \in Ids : \/ active'[i] \in {active[i], None}
                             \/ active'[i] \in Clients /\ i < nextId
           /\ nextId <= nextId' /\ registry' \subseteq registry
<1>1. /\ active \in [Ids -> Conns \cup {None}] /\ nextId \in Nat /\ TypeOK
      /\ (selecting => queue # <<>> /\ Head(queue).type = "Subcribe")
  BY ServerTypes DEF TypeInv, HandlerInv
<1>2. ASSUME NEW act \in [Ids -> Conns \cup {None}], NEW j, NEW i \in Ids
      PROVE  DropSender(act, j)[i] \in {act[i], None}
  BY DEF DropSender
<1>3. ASSUME NEW k, NEW j, Unregister(k, j)
      PROVE  /\ \A i \in Ids : active'[i] \in {active[i], None}
             /\ nextId' = nextId /\ registry' \subseteq registry
  BY <1>1, <1>2, <1>3 DEF Unregister, RemoveServerConn
<1>4. CASE DeRegisterServerConn \/ RetireServerConn \/ SelectFailed
  <2>1. \E k, j : Unregister(k, j)
    BY <1>4 DEF DeRegisterServerConn, RetireServerConn, SelectFailed
  <2> QED BY <1>1, <1>3, <2>1
<1>5. CASE Accept \/ AcceptStream
  <2>1. UNCHANGED <<active, registry>> /\ \E i \in Ids : GetConnId(i)
    BY <1>5 DEF Accept, AcceptStream
  <2>2. nextId <= nextId'
    BY <1>1, <2>1 DEF GetConnId
  <2> QED BY <2>1, <2>2
<1>6. CASE RegisterFail \/ StreamAck \/ Stream \/ SubcribeAdmit
  BY <1>1, <1>6 DEF RegisterFail, StreamAck, Stream, SubcribeAdmit, managerVars
<1>7. CASE SubcribeOverLimit \/ SubcribeMissing \/ SubcribeOverRate \/ SelectNone
  <2>1. \E m : Answer(m)
    BY <1>7 DEF SubcribeOverLimit, SubcribeMissing, SubcribeOverRate, SelectNone
  <2> QED BY <1>1, <2>1 DEF Answer, managerVars
<1>8. CASE DeRegisterClientConn
  <2> DEFINE t   == Head(queue)
             act == IF t.server = None THEN active ELSE DropSender(active, t.server)
  <2>1. active' = DropSender(act, t.id) /\ UNCHANGED <<nextId, registry>>
    BY <1>8 DEF DeRegisterClientConn
  <2>2. act \in [Ids -> Conns \cup {None}] /\ \A i \in Ids : act[i] \in {active[i], None}
    BY <1>1, <1>2 DEF DropSender
  <2> HIDE DEF act, t
  <2>3. \A i \in Ids : active'[i] \in {act[i], None}
    BY <1>2, <2>1, <2>2
  <2> QED BY <1>1, <2>1, <2>2, <2>3
<1>9. CASE SelectOk
  <2> DEFINE c   == Head(queue).conn
             j   == Head(queue).id
             act == IF active[j] = None THEN SignUp(active, j, c) ELSE active
  <2>1. UNCHANGED <<nextId, registry>> /\ active' = IF Receiving(c) THEN act ELSE DropSender(act, j)
    BY <1>9 DEF SelectOk
  <2>2. c \in Clients /\ j \in Ids
    BY <1>1, <1>9, HeadTask DEF SelectOk
  <2>3. /\ act \in [Ids -> Conns \cup {None}]
        /\ \A i \in Ids : act[i] = active[i] \/ (act[i] \in Clients /\ i < nextId)
    BY <1>1, <2>2 DEF SignUp, Conns
  <2> HIDE DEF act, c, j
  <2>4. \A i \in Ids : active'[i] \in {act[i], None}
    BY <1>2, <2>1, <2>3
  <2> QED BY <1>1, <2>1, <2>3, <2>4
<1> QED BY <1>4, <1>5, <1>6, <1>7, <1>8, <1>9 DEF Manager

\* A registration that is filed is granted to who asked for it, if it is there.
LEMMA RegisterFiles ==
    ASSUME TypeInv, OnceInv, FiledInv, Register
    PROVE  /\ \A i \in Ids : active'[i] # active[i] => i = Head(queue).id /\ i < nextId
           /\ \E r : /\ r \in registry' /\ registry' = registry \cup {r}
                     /\ r.id = Head(queue).id
                     /\ \A s \in Servers : active'[r.id] = s => Registered(s, r.gen)'
           /\ nextId' = nextId
<1> DEFINE c == Head(queue).conn
           i == Head(queue).id
           r == [key |-> KeyOf[c], id |-> i, gen |-> nextGen, datagram |-> c \in Datagram]
           m == [type |-> "RegisterResp", gen |-> nextGen]
<1>1. /\ active' = SignUp(active, i, c) /\ registry' = registry \cup {r}
      /\ inbox' = Post(inbox, c, m) /\ UNCHANGED <<nextId, phase, gen>>
      /\ queue # <<>> /\ Head(queue).type = "Register"
  BY DEF Register, HeadIs, handlerVars
<1>2. /\ c \in Servers /\ c \in Conns /\ c # None /\ i \in Ids /\ nextGen \in Nat \ {0}
      /\ active \in [Ids -> Conns \cup {None}] /\ nextId \in Nat /\ queue \in Seq(Task)
      /\ inbox \in [Conns -> Seq(ConnTask)]
  BY <1>1, HeadTask, ServerTypes DEF TypeInv
<1>3. r.id = i /\ r.gen = nextGen /\ m.type = "RegisterResp" /\ m.gen = nextGen /\ m \in ConnTask
  BY <1>2 DEF ConnTask
<1> HIDE DEF r, m
<1>4. \A j \in Ids : active'[j] # active[j] => j = i /\ j < nextId
  BY <1>1, <1>2 DEF SignUp
<1>5. ASSUME NEW s \in Servers, active'[i] = s PROVE s = c
  <2>1. CASE i < nextId
    BY <1>1, <1>2, <1>5, <2>1 DEF SignUp
  <2>2. CASE ~(i < nextId)
    <3>1. active[i] = None /\ active'[i] = active[i]
      BY <1>1, <1>2, <2>2 DEF SignUp, FiledInv
    <3>2. s # None
      BY ServerTypes
    <3> QED BY <1>5, <3>1, <3>2
  <2> QED BY <2>1, <2>2
<1>6. ASSUME NEW s \in Servers, NEW g \in Nat, s = c, g = nextGen PROVE Registered(s, g)'
  <2>1. Asks(c) # {}
    <3>1. Len(queue) \in Nat \ {0} /\ Head(queue) = queue[1]
      BY <1>1, <1>2, Behind
    <3>2. 1 \in Asks(c)
      BY <1>1, <3>1 DEF Asks
    <3> QED BY <3>2
  <2>2. phase[c] \in Ended \/ phase[c] = "registering"
    BY <1>2, <2>1 DEF OnceInv, Unregistered, Live
  <2>3. Receiving(c) => m \in Range(Post(inbox, c, m)[c])
    BY <1>2, <1>3, PostKeeps
  <2>4. phase[c] = "registering" => \E x \in Range(inbox'[c]) : x.type = "RegisterResp" /\ x.gen = nextGen
    BY <1>1, <1>2, <1>3, <2>3 DEF Receiving
  <2>5. phase'[c] \in Ended \/ \E x \in Range(inbox'[c]) : x.type = "RegisterResp" /\ x.gen = nextGen
    BY <1>1, <2>2, <2>4
  <2>6. g # 0
    BY <1>2, <1>6
  <2>7. phase'[s] \in Ended \/ \E x \in Range(inbox'[s]) : x.type = "RegisterResp" /\ x.gen = g
    BY <1>6, <2>5
  <2> QED BY <2>6, <2>7 DEF Registered, Grants
<1>7. ASSUME NEW s \in Servers, NEW q, q = r, active'[q.id] = s PROVE Registered(s, q.gen)'
  <2>1. s = c /\ q.gen = nextGen /\ q.gen \in Nat
    BY <1>2, <1>3, <1>5, <1>7
  <2> QED BY <1>6, <2>1
<1>8. \E q : /\ q \in registry' /\ registry' = registry \cup {q} /\ q.id = i
             /\ \A s \in Servers : active'[q.id] = s => Registered(s, q.gen)'
  BY <1>1, <1>3, <1>7
<1> QED BY <1>1, <1>4, <1>8

\* Whose sender is filed under a registration's id was registered with it.
LEMMA NextFiled ==
    ASSUME TypeInv, AcceptInv, OnceInv, FiledInv, IdsNameOneRegistration', [Next]_vars
    PROVE  FiledInv'
<1>1. /\ active \in [Ids -> Conns \cup {None}] /\ nextId \in Nat /\ registry \subseteq Registration
      /\ \A s \in Servers : s # None /\ s \notin Clients
  BY ServerTypes
<1>2. ASSUME NEW r \in registry, NEW s \in Servers, active[r.id] = s PROVE Registered(s, r.gen)'
  <2>1. r.gen \in Nat /\ Registered(s, r.gen)
    BY <1>1, <1>2 DEF FiledInv, Registration
  <2> QED BY <2>1, RegisteredStays
<1>3. CASE Register
  <2>1. /\ \A i \in Ids : active'[i] # active[i] => i = Head(queue).id /\ i < nextId
        /\ nextId' = nextId
    BY <1>3, RegisterFiles
  <2>2. PICK r : /\ r \in registry' /\ registry' = registry \cup {r}
                 /\ r.id = Head(queue).id
                 /\ \A s \in Servers : active'[r.id] = s => Registered(s, r.gen)'
    BY <1>3, RegisterFiles
  <2>3. \A i \in Ids : active'[i] # None => i < nextId'
    BY <2>1 DEF FiledInv
  <2>4. ASSUME NEW q \in registry', NEW s \in Servers, active'[q.id] = s PROVE Registered(s, q.gen)'
    <3>1. CASE q = r
      BY <2>2, <2>4, <3>1
    <3>2. CASE q # r
      <4>1. q \in registry /\ q.id # r.id /\ q.id \in Ids
        BY <1>1, <2>2, <2>4, <3>2 DEF IdsNameOneRegistration, Registration
      <4>2. active[q.id] = s
        BY <2>1, <2>2, <2>4, <4>1
      <4> QED BY <1>2, <4>1, <4>2
    <3> QED BY <3>1, <3>2
  <2> QED BY <2>3, <2>4 DEF FiledInv
<1>4. CASE Manager /\ ~Register
  <2>1. /\ \A i \in Ids : \/ active'[i] \in {active[i], None}
                          \/ active'[i] \in Clients /\ i < nextId
        /\ nextId <= nextId' /\ registry' \subseteq registry
    BY <1>4, FiledSteps
  <2>2. ASSUME NEW i \in Ids, active'[i] # None PROVE i < nextId'
    <3>1. i < nextId
      BY <2>1, <2>2 DEF FiledInv
    <3>2. i \in Nat /\ nextId' \in Nat
      BY NextType DEF Ids, TypeInv, TypeOK
    <3> QED BY <1>1, <2>1, <3>1, <3>2
  <2>3. ASSUME NEW r \in registry', NEW s \in Servers, active'[r.id] = s PROVE Registered(s, r.gen)'
    <3>1. r \in registry /\ r.id \in Ids
      BY <1>1, <2>1 DEF Registration
    <3>2. active[r.id] = s
      BY <1>1, <2>1, <2>3, <3>1
    <3> QED BY <1>2, <3>1, <3>2
  <2> QED BY <2>2, <2>3 DEF FiledInv
<1>5. CASE ~Manager
  <2>1. UNCHANGED <<active, registry, nextId>>
    BY <1>5, HandlersKeepManager DEF managerVars
  <2>2. \A r \in registry' : \A s \in Servers : active'[r.id] = s => Registered(s, r.gen)'
    BY <1>2, <2>1
  <2>3. \A i \in Ids : active'[i] # None => i < nextId'
    BY <2>1 DEF FiledInv
  <2> QED BY <2>2, <2>3 DEF FiledInv
<1> QED BY <1>3, <1>4, <1>5

\* Who is asked for a stream of a generation was registered with it.
LEMMA NextAsked ==
    ASSUME TypeInv, AcceptInv, OnceInv, FiledInv, AskedInv, [Next]_vars
    PROVE  AskedInv'
<1> SUFFICES ASSUME NEW s \in Servers, NEW m \in Range(inbox'[s]), m.type = "StreamReq"
             PROVE  Registered(s, m.gen)'
  BY DEF AskedInv
<1>1. /\ s \in Conns /\ TypeInv' /\ registry \subseteq Registration
      /\ inbox \in [Conns -> Seq(ConnTask)] /\ inbox' \in [Conns -> Seq(ConnTask)]
  <2>1. TypeInv'
    BY NextType
  <2> QED BY <2>1, ServerTypes DEF TypeInv, TypeOK
<1>2. m.gen \in Nat
  <2>1. inbox'[s] \in Seq(ConnTask)
    BY <1>1
  <2>2. m \in ConnTask
    BY <2>1 DEF Range
  <2> QED BY <2>2 DEF ConnTask
<1>3. CASE m \in Range(inbox[s])
  BY <1>2, <1>3, RegisteredStays DEF AskedInv
<1>4. CASE m \notin Range(inbox[s])
  <2>1. Manager
    BY <1>1, <1>4, HandlerChannels
  <2>2. Asking(s, m)
    BY <1>1, <1>4, <2>1, ManagerPosts DEF Other, Granting, Answering
  <2>3. PICK r \in registry : s = active[r.id] /\ m.gen = r.gen
    BY <2>2 DEF Asking
  <2>4. Registered(s, m.gen)
    BY <2>3 DEF FiledInv
  <2> QED BY <1>2, <2>4, RegisteredStays
<1> QED BY <1>3, <1>4

-----------------------------------------------------------------------------
(* What is dialled, answered and joined *)

LEMMA SentRange ==
    ASSUME NEW S, NEW q \in Seq(S), NEW e \in S, NEW x \in Range(Append(q, e))
    PROVE  x \in Range(q) \/ x = e
<1>1. /\ Len(q) \in Nat /\ Len(Append(q, e)) = Len(q) + 1
      /\ \A m \in 1 .. Len(q) : m \in 1 .. Len(q) + 1 /\ Append(q, e)[m] = q[m]
      /\ Append(q, e)[Len(q) + 1] = e
      /\ \A m \in 1 .. Len(q) + 1 : m \in 1 .. Len(q) \/ m = Len(q) + 1
  BY Ahead
<1>2. DOMAIN q = 1 .. Len(q) /\ DOMAIN Append(q, e) = 1 .. Len(q) + 1
  BY <1>1
<1>3. PICK m \in 1 .. Len(q) + 1 : x = Append(q, e)[m]
  BY <1>2 DEF Range
<1> QED BY <1>1, <1>2, <1>3 DEF Range

\* What reaches the queue about a stream was asked for, then dialled.
LEMMA StreamTasks ==
    ASSUME TypeInv, [Next]_vars, NEW t \in Range(queue')
    PROVE  \/ t \in Range(queue)
           \/ t.type \notin {"AcceptStream", "Stream"}
           \/ t.type = "AcceptStream" /\ t.req \in toDial
           \/ t.type = "Stream" /\ \E q \in dialled : t.srv = q.srv /\ t.gen = q.gen
<1> DEFINE Good == \/ t \in Range(queue)
                   \/ t.type \notin {"AcceptStream", "Stream"}
                   \/ t.type = "AcceptStream" /\ t.req \in toDial
                   \/ t.type = "Stream" /\ \E q \in dialled : t.srv = q.srv /\ t.gen = q.gen
<1>1. queue \in Seq(Task) /\ deferred \subseteq Deregistration
  BY DEF TypeInv, TypeOK
<1>2. ASSUME queue' = queue PROVE Good
  BY <1>2
<1>3. ASSUME queue # <<>> /\ queue' = Tail(queue) PROVE Good
  BY <1>1, <1>3, TailRange
<1>4. ASSUME NEW u \in Task, queue' = Append(queue, u) PROVE t \in Range(queue) \/ t = u
  BY <1>1, <1>4, SentRange
<1> DEFINE Silent == {"Accept", "Register", "StreamAck", "RetireServerConn", "Subcribe",
                      "DeRegisterServerConn", "DeRegisterClientConn"}
<1>5. ASSUME NEW u \in Task, queue' = Append(queue, u), u.type \in Silent PROVE Good
  BY <1>4, <1>5
<1> HIDE DEF Good
<1>6. ASSUME Manager PROVE Good
  BY <1>2, <1>3, <1>6, ManagerFrame
<1>7. ASSUME NEW c \in Conns, Connect(c) \/ Reject(c) PROVE Good
  BY <1>2, <1>5, <1>7, ListenerFrame
<1>8. ASSUME NEW c \in Conns, Deregister(c) \/ Cancel(c) PROVE Good
  BY <1>2, <1>5, <1>8, LeaveFrame
<1>9. ASSUME NEW s \in Servers, ServerStep(s) PROVE Good
  BY <1>2, <1>5, <1>9, ServerFrame
<1>10. ASSUME NEW c \in Clients, ClientStep(c) PROVE Good
  BY <1>2, <1>5, <1>10, ClientFrame
<1>11. ASSUME SendDeferred PROVE Good
  <2>1. PICK u \in deferred : queue' = Append(queue, u)
    BY <1>11 DEF SendDeferred, Send
  <2>2. u \in Task /\ u.type \in Silent
    BY <1>1, <2>1 DEF Task, Deregistration
  <2> QED BY <1>5, <2>1, <2>2
<1>12. ASSUME Dial PROVE Good
  <2>1. PICK q \in toDial : queue' = Append(queue, [type |-> "AcceptStream", req |-> q])
    BY <1>12 DEF Dial, Send
  <2>2. [type |-> "AcceptStream", req |-> q] \in Task
    BY <2>1, ServerTypes DEF Task
  <2>3. t \in Range(queue) \/ t = [type |-> "AcceptStream", req |-> q]
    BY <1>4, <2>1, <2>2
  <2> QED BY <2>3 DEF Good
<1>13. ASSUME SendStream PROVE Good
  <2>1. PICK q \in dialled :
          queue' = Append(queue, [type |-> "Stream", srv |-> q.srv, sid |-> q.sid,
                                  client |-> q.client, gen |-> q.gen])
    BY <1>13 DEF SendStream, Send
  <2> DEFINE u == [type |-> "Stream", srv |-> q.srv, sid |-> q.sid, client |-> q.client, gen |-> q.gen]
  <2>2. u \in Task /\ u.type = "Stream" /\ u.srv = q.srv /\ u.gen = q.gen
    BY <2>1, ServerTypes DEF Task, StreamConn
  <2>3. queue' = Append(queue, u)
    BY <2>1
  <2> HIDE DEF u
  <2>4. t \in Range(queue) \/ t = u
    BY <1>4, <2>2, <2>3
  <2> QED BY <2>2, <2>4 DEF Good
<1>14. ASSUME UNCHANGED vars PROVE Good
  BY <1>2, <1>14 DEF vars
<1>15. Good
  BY <1>6, <1>7, <1>8, <1>9, <1>10, <1>11, <1>12, <1>13, <1>14 DEF Next
<1> QED BY <1>15 DEF Good

\* Who adds to what is to be dialled, and to what was.
LEMMA DialSteps ==
    ASSUME TypeInv, [Next]_vars
    PROVE  /\ \/ toDial' \subseteq toDial
              \/ ~Manager /\ \E s \in Servers : ForwardStreamReq(s)
           /\ \/ dialled' \subseteq dialled
              \/ Manager /\ AcceptStream
<1>1. CASE Manager
  <2>1. CASE AcceptStream
    BY <1>1, <2>1 DEF AcceptStream
  <2>2. CASE ~AcceptStream
    <3>1. UNCHANGED localVars
      BY <1>1, <2>2
      DEF Manager, Accept, RegisterFail, Register, StreamAck, Stream, SubcribeOverLimit,
          SubcribeMissing, SubcribeOverRate, SubcribeAdmit, SelectNone, Answer,
          DeRegisterServerConn, RetireServerConn, SelectFailed, DeRegisterClientConn, SelectOk
    <3> QED BY <3>1 DEF localVars
  <2> QED BY <2>1, <2>2
<1>2. ASSUME NEW c \in Conns, Connect(c) \/ Reject(c) \/ Deregister(c) \/ Cancel(c)
      PROVE  UNCHANGED <<toDial, dialled>>
  BY <1>2 DEF Connect, Reject, Deregister, Cancel, Forget, localVars
<1>3. ASSUME NEW s \in Servers, ServerStep(s)
      PROVE  dialled' = dialled /\ (toDial' = toDial \/ ForwardStreamReq(s))
  BY <1>3 DEF ServerStep, SendRegister, RecvRegistered, RecvRegisterFailed, LoseSender,
              ForwardStreamReq, IgnoreUnexpected, RecvRetire, LoseControl, ForwardStreamAck,
              Close, Forget, localVars
<1>4. ASSUME NEW c \in Clients, ClientStep(c) PROVE UNCHANGED <<toDial, dialled>>
  BY <1>4 DEF ClientStep, SendSubcribe, RecvSubcribeResp, RecvSubcribeRetry, RecoveryExpired,
              RecvOther, SubcribeTimeout, StreamTimeout, RecvStream, LoseClient,
              RecvStreamAck, RecvStale, RecvNotStream, FinishForwarding, Close, Forget, localVars
<1>5. CASE SendDeferred \/ Dial \/ SendStream
  BY <1>5 DEF SendDeferred, Dial, SendStream, localVars
<1>6. CASE UNCHANGED vars
  BY <1>6 DEF vars, localVars
<1> QED BY <1>1, <1>2, <1>3, <1>4, <1>5, <1>6 DEF Next

\* A local server sends the generation its control connection was granted.
LEMMA RequestsMatch ==
    ASSUME TypeInv, OnceInv, AskedInv, NEW s \in Servers, ForwardStreamReq(s)
    PROVE  gen' = gen /\ \E q : /\ toDial' = toDial \cup {q} /\ q.srv = s /\ Sends(s, q.gen)
<1> DEFINE m == Head(inbox[s])
           g == IF s \in Legacy THEN 0 ELSE m.gen
           q == [srv |-> s, client |-> m.client, gen |-> g]
<1>1. /\ phase[s] = "live" /\ inbox[s] # <<>> /\ m.type = "StreamReq" /\ gen' = gen
      /\ toDial' = toDial \cup {q}
  BY DEF ForwardStreamReq, Received, handlerVars
<1>2. s \in Conns /\ inbox[s] \in Seq(ConnTask) /\ gen[s] \in Nat
  BY ServerTypes
<1>3. m \in Range(inbox[s]) /\ m.gen \in Nat
  BY <1>1, <1>2, TailRange, HeadMessage DEF TypeInv
<1>4. Registered(s, m.gen)
  BY <1>1, <1>3 DEF AskedInv
<1>5. Live(s)
  BY <1>1 DEF OnceInv, Ended
<1>6. m.gen # 0 /\ gen[s] = m.gen
  BY <1>1, <1>3, <1>4, <1>5 DEF Registered, Live, Ended
<1>7. Sends(s, g)
  BY <1>6 DEF Sends
<1>8. q.srv = s /\ q.gen = g
  OBVIOUS
<1> HIDE DEF q, g
<1> QED BY <1>1, <1>7, <1>8

LEMMA SendsStays ==
    ASSUME TypeInv, OnceInv, [Next]_vars, NEW s \in Servers, NEW g, Sends(s, g)
    PROVE  Sends(s, g)'
BY GenStays DEF Sends

\* What is dialled has the generation of who dials it.
LEMMA NextDialled ==
    ASSUME TypeInv, OnceInv, AskedInv, DialledInv, [Next]_vars
    PROVE  DialledInv'
<1>1. /\ toDial \subseteq Request /\ dialled \subseteq StreamConn /\ queue \in Seq(Task) /\ TypeOK
  BY ServerTypes DEF TypeInv
<1>2. ASSUME NEW q \in toDial PROVE Sends(q.srv, q.gen)'
  <2>1. q.srv \in Servers /\ Sends(q.srv, q.gen)
    BY <1>1 DEF Request, DialledInv
  <2> QED BY <2>1, SendsStays
<1>3. ASSUME NEW q \in dialled PROVE Sends(q.srv, q.gen)'
  <2>1. q.srv \in Servers /\ Sends(q.srv, q.gen)
    BY <1>1 DEF StreamConn, DialledInv
  <2> QED BY <2>1, SendsStays
<1>4. ASSUME NEW t \in Range(queue) PROVE /\ t.type = "AcceptStream" => Sends(t.req.srv, t.req.gen)'
                                          /\ t.type = "Stream" => Sends(t.srv, t.gen)'
  <2>1. t \in Task
    BY <1>1 DEF Range
  <2>2. CASE t.type = "AcceptStream"
    <3>1. t.req \in Request
      BY <2>1, <2>2 DEF Task, Deregistration
    <3>2. t.req.srv \in Servers /\ Sends(t.req.srv, t.req.gen)
      BY <2>2, <3>1 DEF Request, DialledInv
    <3> QED BY <2>2, <3>2, SendsStays
  <2>3. CASE t.type = "Stream"
    <3>1. t.srv \in Servers /\ Sends(t.srv, t.gen)
      BY <2>1, <2>3 DEF Task, Deregistration, DialledInv
    <3> QED BY <2>3, <3>1, SendsStays
  <2> QED BY <2>2, <2>3
<1>5. ASSUME NEW q \in toDial' PROVE Sends(q.srv, q.gen)'
  <2>1. ASSUME NEW s \in Servers, ForwardStreamReq(s) PROVE Sends(q.srv, q.gen)'
    <3>1. PICK p : toDial' = toDial \cup {p} /\ p.srv = s /\ Sends(s, p.gen)
      BY <2>1, RequestsMatch
    <3>2. CASE q = p
      BY <3>1, <3>2, SendsStays
    <3> QED BY <1>2, <3>1, <3>2
  <2> QED BY <1>2, <2>1, DialSteps
<1>6. ASSUME NEW q \in dialled' PROVE Sends(q.srv, q.gen)'
  <2>1. CASE AcceptStream
    <3> DEFINE p == Head(queue).req
    <3>1. /\ queue # <<>> /\ Head(queue).type = "AcceptStream"
          /\ \E i \in Ids : dialled' = dialled \cup
                {[srv |-> p.srv, client |-> p.client, gen |-> p.gen, sid |-> i]}
      BY <2>1 DEF AcceptStream, HeadIs
    <3>2. Head(queue) \in Range(queue) /\ p.srv \in Servers
      BY <1>1, <3>1, TailRange, HeadTask DEF Request
    <3>3. Sends(p.srv, p.gen)
      BY <3>1, <3>2 DEF DialledInv
    <3>4. q \in dialled \/ (q.srv = p.srv /\ q.gen = p.gen)
      BY <3>1
    <3> HIDE DEF p
    <3>5. ASSUME q.srv = p.srv, q.gen = p.gen PROVE Sends(q.srv, q.gen)'
      <4>1. q.srv \in Servers /\ Sends(q.srv, q.gen)
        BY <3>2, <3>3, <3>5
      <4> QED BY <4>1, SendsStays
    <3> QED BY <1>3, <3>4, <3>5
  <2> QED BY <1>3, <2>1, DialSteps
<1>7. ASSUME NEW t \in Range(queue') PROVE /\ t.type = "AcceptStream" => Sends(t.req.srv, t.req.gen)'
                                           /\ t.type = "Stream" => Sends(t.srv, t.gen)'
  <2>1. CASE t.type = "Stream" /\ \E q \in dialled : t.srv = q.srv /\ t.gen = q.gen
    <3>1. PICK q \in dialled : t.srv = q.srv /\ t.gen = q.gen
      BY <2>1
    <3>2. t.srv \in Servers /\ Sends(t.srv, t.gen)
      BY <1>1, <3>1 DEF StreamConn, DialledInv
    <3> QED BY <2>1, <3>2, SendsStays
  <2>2. CASE t.type = "AcceptStream" /\ t.req \in toDial
    BY <1>2, <2>2
  <2> QED BY <1>4, <2>1, <2>2, StreamTasks
<1> QED BY <1>5, <1>6, <1>7 DEF DialledInv

LEMMA MatchedStays ==
    ASSUME TypeInv, OnceInv, [Next]_vars, NEW s \in Servers, NEW g, Matched(s, g)
    PROVE  Matched(s, g)'
BY GenStays DEF Matched

\* A client is answered with a stream of the generation it was promised.
LEMMA NextAnswered ==
    ASSUME TypeInv, OnceInv, DialledInv, AnsweredInv, [Next]_vars
    PROVE  AnsweredInv'
<1> SUFFICES ASSUME NEW c \in Conns, NEW m \in Range(inbox'[c]), m.type = "StreamResp"
             PROVE  Matched(m.srv, m.gen)'
  BY DEF AnsweredInv
<1>1. TypeOK /\ queue \in Seq(Task) /\ inbox' \in [Conns -> Seq(ConnTask)]
  BY NextType, ServerTypes DEF TypeInv, TypeOK
<1>2. m.srv \in Servers
  <2>1. inbox'[c] \in Seq(ConnTask)
    BY <1>1
  <2>2. m \in ConnTask
    BY <2>1 DEF Range
  <2> QED BY <2>2 DEF ConnTask
<1>3. Matched(m.srv, m.gen)
  <2>1. CASE m \in Range(inbox[c])
    BY <2>1 DEF AnsweredInv
  <2>2. CASE m \notin Range(inbox[c])
    <3>1. Manager
      BY <2>2, HandlerChannels
    <3>2. Answering(m)
      BY <2>2, <3>1, ManagerPosts DEF Other, Granting, Asking
    <3> DEFINE t == Head(queue)
    <3>3. queue # <<>> /\ t.type = "Stream"
      BY <3>2 DEF Answering, Stream, HeadIs
    <3>4. t \in Range(queue)
      BY <1>1, <3>3, TailRange
    <3>5. Sends(t.srv, t.gen) /\ m.srv = t.srv /\ (t.gen = 0 \/ m.gen = t.gen)
      BY <3>2, <3>3, <3>4 DEF DialledInv, Answering, StreamMatches
    <3> HIDE DEF t
    <3> QED BY <3>5 DEF Sends, Matched
  <2> QED BY <2>1, <2>2
<1> QED BY <1>2, <1>3, MatchedStays

\* While a client forwards its attempt is kept.
LEMMA AttemptStays ==
    ASSUME TypeInv, [Next]_vars, NEW c \in Clients, phase'[c] = "forwarding", ~RecvStream(c)
    PROVE  phase[c] = "forwarding" /\ peer'[c] = peer[c] /\ attempt'[c] = attempt[c]
<1>1. phase[c] = "forwarding" /\ peer'[c] = peer[c]
  BY ForwardingStarts
<1>2. c \in Conns /\ phase \in [Conns -> ServerPhases \cup ClientPhases]
  BY ServerTypes
<1>3. CASE Manager
  BY <1>1, <1>3, ManagerAttempts
<1>4. ASSUME NEW d \in Conns, Connect(d) \/ Reject(d) PROVE attempt'[c] = attempt[c]
  BY <1>4, ListenerFrame
<1>5. ASSUME NEW d \in Conns, Deregister(d) \/ Cancel(d) PROVE attempt'[c] = attempt[c]
  BY <1>5, LeaveFrame
<1>6. ASSUME NEW s \in Servers, ServerStep(s) PROVE attempt'[c] = attempt[c]
  BY <1>6, ServerFrame
<1>7. ASSUME NEW d \in Clients, ClientStep(d) PROVE attempt'[c] = attempt[c]
  <2>1. CASE d # c
    BY <1>7, <2>1, ClientFrame
  <2>2. CASE d = c
    <3>1. FinishForwarding(c)
      BY <1>1, <1>7, <2>2
      DEF ClientStep, SendSubcribe, RecvSubcribeResp, RecvSubcribeRetry, RecoveryExpired,
          RecvOther, SubcribeTimeout, StreamTimeout, RecvStream, LoseClient,
          RecvStreamAck, RecvStale, RecvNotStream
    <3>2. phase'[c] = "closing"
      BY <1>2, <3>1 DEF FinishForwarding, Close, Goto
    <3> QED BY <3>2
  <2> QED BY <2>1, <2>2
<1>8. CASE SendDeferred \/ Dial \/ SendStream
  BY <1>1, <1>8, OtherFrame
<1>9. CASE UNCHANGED vars
  BY <1>9 DEF vars, handlerVars
<1> QED BY <1>1, <1>3, <1>4, <1>5, <1>6, <1>7, <1>8, <1>9 DEF Next

\* And it is joined with that stream.
LEMMA NextJoined ==
    ASSUME TypeInv, OnceInv, AnsweredInv, JoinedInv, [Next]_vars
    PROVE  JoinedInv'
<1> SUFFICES ASSUME NEW c \in Clients, phase'[c] = "forwarding"
             PROVE  peer'[c] \in Servers /\ Matched(peer[c], attempt[c].gen)'
  BY DEF JoinedInv
<1>1. /\ c \in Conns /\ inbox[c] \in Seq(ConnTask) /\ peer \in [Clients -> Servers \cup {None}]
  BY ServerTypes
<1>2. \E s \in Servers : peer'[c] = s /\ Matched(s, attempt'[c].gen)
  <2>1. CASE RecvStream(c)
    <3> DEFINE m == Head(inbox[c])
    <3>1. /\ inbox[c] # <<>> /\ m.type = "StreamResp" /\ m.gen = attempt[c].gen
          /\ peer'[c] = m.srv /\ attempt' = attempt
      BY <1>1, <2>1 DEF RecvStream, IsStream, Received
    <3>2. m \in Range(inbox[c]) /\ m.srv \in Servers
      BY <1>1, <3>1, TailRange, HeadMessage DEF TypeInv
    <3>3. Matched(m.srv, m.gen)
      BY <1>1, <3>1, <3>2 DEF AnsweredInv
    <3> HIDE DEF m
    <3> QED BY <3>1, <3>2, <3>3
  <2>2. CASE ~RecvStream(c)
    <3>1. phase[c] = "forwarding" /\ peer'[c] = peer[c] /\ attempt'[c] = attempt[c]
      BY <2>2, AttemptStays
    <3> QED BY <3>1 DEF JoinedInv
  <2> QED BY <2>1, <2>2
<1>3. PICK s \in Servers : peer'[c] = s /\ Matched(s, attempt'[c].gen)
  BY <1>2
<1>4. \A g : Matched(s, g) => Matched(s, g)'
  BY MatchedStays
<1> QED BY <1>3, <1>4 DEF Matched

LEMMA InitStreams == Init => StreamInv
<1> SUFFICES ASSUME Init PROVE StreamInv
  OBVIOUS
<1>1. /\ queue = <<>> /\ inbox = [c \in Conns |-> <<>>] /\ phase = [c \in Conns |-> "new"]
      /\ gen = [s \in Servers |-> 0] /\ active = [i \in Ids |-> None] /\ registry = {}
      /\ toDial = {} /\ dialled = {}
  BY DEF Init
<1>2. Range(<<>>) = {} /\ \A s \in Servers : s \in Conns
  BY DEF Range, Conns
<1>3. OnceInv
  <2>1. \A s \in Servers : Asks(s) = {} /\ \A g \in Nat : ~Grants(s, g)
    BY <1>1, <1>2 DEF Asks, Grants
  <2> QED BY <1>1, <1>2, <2>1 DEF OnceInv, Unregistered
<1>4. FiledInv /\ DialledInv
  BY <1>1, <1>2 DEF FiledInv, DialledInv
<1>5. AskedInv /\ AnsweredInv
  BY <1>1, <1>2 DEF AskedInv, AnsweredInv
<1>6. JoinedInv
  BY <1>1 DEF JoinedInv, Conns
<1> QED BY <1>3, <1>4, <1>5, <1>6 DEF StreamInv

LEMMA NextStreams ==
    TypeInv /\ SlotsInv /\ StreamInv /\ IdsNameOneRegistration' /\ [Next]_vars => StreamInv'
<1> SUFFICES ASSUME TypeInv, SlotsInv, StreamInv, IdsNameOneRegistration', [Next]_vars PROVE StreamInv'
  OBVIOUS
<1>1. AcceptInv /\ OnceInv /\ FiledInv /\ AskedInv /\ DialledInv /\ AnsweredInv /\ JoinedInv
  BY DEF SlotsInv, StreamInv
<1>2. OnceInv'
  BY <1>1, HandlerOnce, ManagerOnce
<1> QED BY <1>1, <1>2, NextFiled, NextAsked, NextDialled, NextAnswered, NextJoined DEF StreamInv

\* While no two registrations share an id, a client forwards to the very
\* registration its last attempt was given, or to a local server that does not
\* send its generation: a stream that an earlier attempt asked for is refused,
\* however late it is dialled (Subcribe, handle_stream_req, Stream,
\* get_server_stream).
THEOREM StreamsOfLastAttempts == Spec /\ []IdsNameOneRegistration => []StreamOfLastAttempt
<1>1. StreamInv => StreamOfLastAttempt
  BY DEF StreamInv, JoinedInv, Matched, StreamOfLastAttempt
<1> QED BY <1>1, InitStreams, NextStreams, InitSlots, NextSlots, TypeInvariant, PTL DEF Spec
=============================================================================
