--------------------------- MODULE Tunnel_proofs ---------------------------
(***************************************************************************)
(* Proofs about Tunnel: the chain of hops implements the byte pipe of      *)
(* BytePipe, for any length of the chain, any mixture of framed links and  *)
(* datagrams, any timeouts and window, and any number of faults.           *)
(*                                                                         *)
(* The argument counts chunks.  What lies in a link is the run of numbers  *)
(* from what its reader has taken to what its writer has written, unless   *)
(* the reader has closed it, and then nothing is taken from it any more.   *)
(* The end of a stream is passed on by a copy that has passed on all of    *)
(* it, so that what any hop says of the end of the stream holds of its     *)
(* beginning, and no induction along the chain is needed.                  *)
(***************************************************************************)
EXTENDS Tunnel, TLAPS

Failed == gone # {} \/ \E h \in Hops : cut[h] \notin {"none", "done"}
Closed == [d \in Dirs |-> fin[d][FirstLink(d)] \/ Writer(d) \in gone]
Ended  == [d \in Dirs |-> seen[d] # "open"]

Chain   == 1 .. N      \* the hops that are there
Between == 0 .. N      \* the links that are there

\* The hop that writes a link, other than its direction's first, and the one
\* that reads it, other than the last.
From(d, i) == IF d = "up" THEN i ELSE i + 1
To(d, i)   == IF d = "up" THEN i + 1 ELSE i

Written(d, i) == IF i = FirstLink(d) THEN sent[d] ELSE len[d][From(d, i)]
Passing(d, h) == len[d][h] + (IF held[d][h] = 0 THEN 0 ELSE 1)
Taken(d, i)   == IF i = LastLink(d) THEN Len(got[d]) ELSE Passing(d, To(d, i))

HopsInv ==
  \A h \in Hops :
    /\ hop[h] = "absent" <=> h > N
    /\ cut[h] = "none" <=> hop[h] # "ended"
    /\ cut[h] = "done" => \A d \in Dirs : done[d][h]

\* Chunks are numbers the application has given out.
ChunksInv ==
  /\ \A d \in Dirs, i \in Links : \A k \in 1 .. Len(data[d][i]) : data[d][i][k] <= sent[d]
  /\ \A d \in Dirs, h \in Hops :
       held[d][h] # 0 => held[d][h] = len[d][h] + 1 /\ held[d][h] <= sent[d]

\* A link holds the run between its two counts.
RunsInv ==
  \A d \in Dirs, i \in Between :
    ~dead[d][i] =>
      /\ Written(d, i) = Taken(d, i) + Len(data[d][i])
      /\ \A k \in 1 .. Len(data[d][i]) : data[d][i][k] = Taken(d, i) + k

\* Who has closed a link will not read it; its writer had finished, or the
\* tunnel has failed, as it has where there is a reset.
ClosedInv ==
  \A d \in Dirs, i \in Between :
    /\ dead[d][i] => IF i = LastLink(d) THEN Reader(d) \in gone ELSE hop[To(d, i)] = "ended"
    /\ dead[d][i] => Failed \/ fin[d][i]
    /\ rst[d][i] => Failed

\* A copy that is done has read all there was, and has passed it on.
FinishedInv ==
  \A d \in Dirs, h \in Chain :
    /\ fin[d][Out(d, h)] => done[d][h] \/ hop[h] = "ended"
    /\ done[d][h] => held[d][h] = 0 /\ fin[d][In(d, h)] /\ data[d][In(d, h)] = << >>
    /\ done[d][h] /\ ~Failed => len[d][h] = sent[d] /\ fin[d][FirstLink(d)]

Inv == TypeOK /\ HopsInv /\ ChunksInv /\ RunsInv /\ ClosedInv /\ FinishedInv

-----------------------------------------------------------------------------
(* The shape of the chain *)

\* A chain has at least one hop, and no more than MaxHops.
LEMMA ChainLength ==
  ASSUME TypeOK
  PROVE  N \in 1 .. MaxHops /\ N \in Nat /\ MaxHops \in Nat
BY BoundsAssumption, DeploymentsAssumption DEF TypeOK, N

\* Each hop reads a link and writes the next, in either direction.
LEMMA HopLinks ==
  ASSUME TypeOK, NEW d \in Dirs, NEW h \in Chain
  PROVE  /\ h \in Hops /\ In(d, h) \in Between /\ Out(d, h) \in Between
         /\ In(d, h) # LastLink(d) /\ Out(d, h) # FirstLink(d) /\ In(d, h) # Out(d, h)
         /\ To(d, In(d, h)) = h /\ From(d, Out(d, h)) = h
         /\ Out(Other(d), h) = In(d, h) /\ In(Other(d), h) = Out(d, h)
<1>1. N \in 1 .. MaxHops /\ N \in Nat /\ MaxHops \in Nat /\ h \in Nat /\ 1 <= h /\ h <= N
  BY ChainLength DEF Chain
<1>2. h \in Hops /\ h \in Between /\ h - 1 \in Between
  BY <1>1 DEF Hops, Between
<1>3. CASE d = "up"
  BY <1>1, <1>2, <1>3 DEF In, Out, FirstLink, LastLink, To, From, Other
<1>4. CASE d = "down"
  BY <1>1, <1>2, <1>4 DEF In, Out, FirstLink, LastLink, To, From, Other
<1> QED
  BY <1>3, <1>4 DEF Dirs

\* Each link has a writer and a reader, hops or applications.
LEMMA LinkEnds ==
  ASSUME TypeOK, NEW d \in Dirs, NEW i \in Between
  PROVE  /\ i \in Links
         /\ i # LastLink(d) => To(d, i) \in Chain /\ To(d, i) \in Hops /\ In(d, To(d, i)) = i
         /\ i # FirstLink(d) => From(d, i) \in Chain /\ From(d, i) \in Hops /\ Out(d, From(d, i)) = i
BY ChainLength DEF Dirs, Chain, Between, Links, Hops, In, Out, FirstLink, LastLink, To, From

\* The two directions.
LEMMA Directions ==
  ASSUME TypeOK, NEW d \in Dirs
  PROVE  /\ FirstLink(d) \in Between /\ LastLink(d) \in Between /\ FirstLink(d) # LastLink(d)
         /\ Other(d) \in Dirs /\ Other(Other(d)) = d /\ Other(d) # d
         /\ \A x \in Dirs : x = d \/ x = Other(d)
         /\ LastLink(Other(d)) = FirstLink(d) /\ FirstLink(Other(d)) = LastLink(d)
         /\ Reader(Other(d)) = Writer(d) /\ Writer(Other(d)) = Reader(d)
         /\ Writer(d) \in Ends /\ Reader(d) \in Ends /\ Writer(d) # Reader(d)
BY ChainLength DEF Dirs, Between, FirstLink, LastLink, Other, Reader, Writer, Ends

\* The numbers of a hop.
LEMMA Counts ==
  ASSUME TypeOK, ChunksInv, NEW d \in Dirs, NEW h \in Hops
  PROVE  /\ sent[d] \in Nat /\ sent[d] <= conf.chunks /\ conf.chunks \in Nat
         /\ len[d][h] \in Nat /\ len[d][h] <= conf.chunks
         /\ held[d][h] \in Nat /\ held[d][h] <= conf.chunks
         /\ Passing(d, h) \in Nat
         /\ held[d][h] # 0 => held[d][h] = len[d][h] + 1 /\ held[d][h] <= sent[d]
BY DeploymentsAssumption DEF TypeOK, ChunksInv, Passing

\* A tunnel that has failed stays so.
LEMMA FailedStays ==
  ASSUME TypeOK, HopsInv, gone \subseteq gone',
         \A h \in Hops : cut'[h] = cut[h] \/ cut[h] = "none",
         Failed
  PROVE  Failed'
BY DEF Failed, HopsInv

-----------------------------------------------------------------------------
(* Initially *)

\* Nothing has been written when a stream is set up.
LEMMA InitInv == Init => Inv
<1> SUFFICES ASSUME Init PROVE Inv
  OBVIOUS
<1>1. TypeOK
  BY BoundsAssumption, DeploymentsAssumption
     DEF Init, TypeOK, Hops, Links, Dirs, Causes, N
<1>2. N \in 1 .. MaxHops /\ N \in Nat
  BY <1>1, ChainLength
<1>3. HopsInv
  BY <1>2 DEF Init, HopsInv, Hops
<1>4. ChunksInv
  BY DEF Init, ChunksInv
<1>5. RunsInv
  <2> SUFFICES ASSUME NEW d \in Dirs, NEW i \in Between
               PROVE  /\ Written(d, i) = Taken(d, i) + Len(data[d][i])
                      /\ \A k \in 1 .. Len(data[d][i]) : data[d][i][k] = Taken(d, i) + k
    BY DEF RunsInv
  <2>1. i \in Links /\ (i # LastLink(d) => To(d, i) \in Hops) /\ (i # FirstLink(d) => From(d, i) \in Hops)
    BY <1>1, LinkEnds, HopLinks
  <2>2. Written(d, i) = 0 /\ Taken(d, i) = 0 /\ data[d][i] = << >>
    BY <2>1 DEF Init, Written, Taken, Passing
  <2> QED
    BY <2>2
<1>6. ClosedInv
  BY <1>1, LinkEnds DEF Init, ClosedInv
<1>7. FinishedInv
  BY <1>1, HopLinks, LinkEnds DEF Init, FinishedInv
<1> QED
  BY <1>1, <1>3, <1>4, <1>5, <1>6, <1>7 DEF Inv
-----------------------------------------------------------------------------
(* Steps: what all of them share *)

\* Sequences, as the links use them.
LEMMA Front ==
  ASSUME NEW S, NEW s \in Seq(S), s # << >>
  PROVE  /\ Head(s) = s[1] /\ Head(s) \in S
         /\ Len(s) \in Nat /\ Len(s) >= 1
         /\ Tail(s) \in Seq(S) /\ Len(Tail(s)) = Len(s) - 1
         /\ \A k \in 1 .. Len(Tail(s)) : Tail(s)[k] = s[k + 1]
OBVIOUS

\* Likewise, at the other end of a link.
LEMMA Back ==
  ASSUME NEW S, NEW s \in Seq(S), NEW e \in S
  PROVE  /\ Append(s, e) \in Seq(S) /\ Len(s) \in Nat /\ Len(Append(s, e)) = Len(s) + 1
         /\ Append(s, e)[Len(s) + 1] = e
         /\ \A k \in 1 .. Len(s) : Append(s, e)[k] = s[k]
         /\ \A k \in 1 .. Len(s) + 1 : k \in 1 .. Len(s) \/ k = Len(s) + 1
OBVIOUS

\* The chain does not change.
LEMMA SameChain ==
  ASSUME conf' = conf
  PROVE  /\ N' = N /\ Chain' = Chain /\ Between' = Between
         /\ \A d \in Dirs : FirstLink(d)' = FirstLink(d) /\ LastLink(d)' = LastLink(d)
         /\ \A d \in Dirs, i \in Between :
              /\ Written(d, i)' = IF i = FirstLink(d) THEN sent'[d] ELSE len'[d][From(d, i)]
              /\ Taken(d, i)' = IF i = LastLink(d) THEN Len(got'[d])
                                ELSE len'[d][To(d, i)]
                                       + (IF held'[d][To(d, i)] = 0 THEN 0 ELSE 1)
BY DEF N, Chain, Between, FirstLink, LastLink, Written, Taken, Passing, From, To

\* What a link holds does not change, where it can still be read.
LEMMA RunsStay ==
  ASSUME RunsInv, conf' = conf,
         \A d \in Dirs, i \in Between :
           ~dead'[d][i] =>
             /\ ~dead[d][i] /\ data'[d][i] = data[d][i]
             /\ Written(d, i)' = Written(d, i) /\ Taken(d, i)' = Taken(d, i)
  PROVE  RunsInv'
BY SameChain DEF RunsInv

-----------------------------------------------------------------------------
(* Steps that leave the links and the copies alone *)

\* Such a step keeps the invariant, if it keeps the types.
LEMMA QuietStep ==
  ASSUME Inv, UNCHANGED <<conf, hopVars, linkVars, sent, got, gone>>,
         tun' \in [Hops -> Nat], half' \in [Hops -> Nat], quiet' \in [Hops -> Nat],
         seen' \in [Dirs -> {"open", "end", "reset"}]
  PROVE  Inv'
<1> USE SameChain DEF Inv, hopVars, linkVars
<1>1. TypeOK'
  BY DEF TypeOK
<1>2. HopsInv' /\ ChunksInv'
  BY DEF HopsInv, ChunksInv
<1>3. \A d \in Dirs, i \in Between :
        Written(d, i)' = Written(d, i) /\ Taken(d, i)' = Taken(d, i)
  BY DEF Written, Taken, Passing
<1>4. RunsInv'
  BY <1>3, RunsStay
<1>5. ClosedInv'
  BY DEF ClosedInv, Failed, To, Reader
<1>6. FinishedInv'
  <2>1. UNCHANGED <<hop, held, done, len, data, fin, sent>> /\ FinishedInv
    OBVIOUS
  <2>2. Failed' = Failed /\ Chain' = Chain /\ \A d \in Dirs : FirstLink(d)' = FirstLink(d)
    BY DEF Failed
  <2> HIDE SameChain DEF Inv, hopVars, linkVars
  <2> QED
    BY <2>1, <2>2 DEF FinishedInv, In, Out
<1> QED
  BY <1>1, <1>2, <1>4, <1>5, <1>6

\* Time passing changes the clocks only.
LEMMA TickInv == ASSUME Inv, Tick PROVE Inv'
<1>1. /\ conf.tunnelIdle \in Nat /\ conf.halfIdle \in Nat /\ Longest \in Nat
      /\ tun \in [Hops -> Nat] /\ half \in [Hops -> Nat] /\ quiet \in [Hops -> Nat]
      /\ seen \in [Dirs -> {"open", "end", "reset"}]
  BY DeploymentsAssumption DEF Inv, TypeOK, Longest
<1>2. ASSUME NEW clock \in [Hops -> Nat], NEW limit PROVE Aged(clock, limit) \in [Hops -> Nat]
  BY DEF Aged
<1> QED
  BY <1>1, <1>2, QuietStep DEF Tick, appVars

\* Seeing the end of a stream changes nothing but what was seen.
LEMMA AppEndInv == ASSUME Inv, NEW d \in Dirs, AppEnd(d) PROVE Inv'
<1>1. seen' \in [Dirs -> {"open", "end", "reset"}]
  BY DEF AppEnd, Inv, TypeOK
<1> QED
  BY <1>1, QuietStep DEF AppEnd, clocks, Inv, TypeOK

\* A hop that starts to forward has neither read nor written.
LEMMA ForwardsInv == ASSUME Inv, NEW h \in Hops, NEW role, Forwards(h, role) PROVE Inv'
<1> USE SameChain DEF Inv, Forwards, linkVars, clocks, appVars
<1>1. TypeOK'
  BY DEF TypeOK
<1>2. HopsInv' /\ ChunksInv'
  BY DEF TypeOK, HopsInv, ChunksInv
<1>3. \A d \in Dirs, i \in Between :
        Written(d, i)' = Written(d, i) /\ Taken(d, i)' = Taken(d, i)
  BY DEF Written, Taken, Passing
<1>4. RunsInv'
  BY <1>3, RunsStay
<1>5. ClosedInv'
  <2>1. \A d \in Dirs, i \in Between : i # LastLink(d) => To(d, i) \in Hops
    BY LinkEnds
  <2>2. \A g \in Hops : hop[g] = "ended" => hop'[g] = "ended"
    BY DEF TypeOK
  <2> QED
    BY <2>1, <2>2 DEF ClosedInv, Failed, Reader
<1>6. FinishedInv'
  BY DEF TypeOK, FinishedInv, Failed, In, Out
<1> QED
  BY <1>1, <1>2, <1>4, <1>5, <1>6

-----------------------------------------------------------------------------
(* Steps of a copy *)

\* A copy that goes on is at a hop of the chain whose sockets are open.
LEMMA CopyingFacts ==
  ASSUME Inv, NEW d \in Dirs, NEW h \in Hops, Copying(d, h)
  PROVE  /\ h \in Chain /\ hop[h] = "open" /\ cut[h] = "none" /\ ~done[d][h]
         /\ ~dead[d][In(d, h)] /\ ~fin[d][Out(d, h)]
<1>1. h \in Chain /\ hop[h] = "open" /\ cut[h] = "none" /\ ~done[d][h]
  BY ChainLength DEF Inv, Copying, HopsInv, TypeOK, Hops, Chain
<1> USE HopLinks, <1>1 DEF Inv
<1>2. ~dead[d][In(d, h)]
  BY DEF ClosedInv
<1>3. ~fin[d][Out(d, h)]
  BY DEF FinishedInv
<1> QED
  BY <1>1, <1>2, <1>3

\* Reads and writes close nothing.
LEMMA CopyFrame ==
  ASSUME Inv, UNCHANGED <<conf, hop, cut, done, fin, dead, appVars>>,
         \A x \in Dirs, i \in Between : rst'[x][i] => rst[x][i] \/ Failed
  PROVE  HopsInv' /\ ClosedInv'
<1>1. HopsInv'
  BY SameChain DEF Inv, HopsInv
<1>2. ClosedInv'
  BY SameChain DEF Inv, ClosedInv, Failed, appVars, Reader, To
<1> QED
  BY <1>1, <1>2

\* The next hop is not done with a stream that this one is still copying.
LEMMA NextIsNotDone ==
  ASSUME Inv, NEW d \in Dirs, NEW h \in Hops, Copying(d, h), NEW g \in Chain, done[d][g]
  PROVE  In(d, g) # Out(d, h) /\ g # h
BY CopyingFacts, HopLinks DEF Inv, FinishedInv

\* A chunk that is read moves from the link to the hop: it is the next one.
LEMMA ReadChunkInv == ASSUME Inv, NEW d \in Dirs, NEW h \in Hops, ReadChunk(d, h) PROVE Inv'
<1> DEFINE j == In(d, h)
           s == data[d][j]
<1>1. /\ Copying(d, h) /\ held[d][h] = 0 /\ s # << >> /\ conf' = conf
      /\ UNCHANGED <<hop, cut, done, fin, dead, appVars>> /\ UNCHANGED <<len, rst, clocks>>
  BY DEF ReadChunk
<1>2. /\ h \in Chain /\ ~done[d][h] /\ ~dead[d][j] /\ j \in Between /\ j \in Links
      /\ j # LastLink(d) /\ To(d, j) = h
  BY <1>1, CopyingFacts, HopLinks, LinkEnds DEF Inv
<1>3. s \in Seq(1 .. conf.chunks) /\ Len(s) <= Window
  BY <1>2 DEF Inv, TypeOK
<1>4. /\ \A x \in Dirs, i \in Links :
           data'[x][i] = IF x = d /\ i = j THEN Tail(s) ELSE data[x][i]
      /\ \A x \in Dirs, g \in Hops :
           held'[x][g] = IF x = d /\ g = h THEN Head(s) ELSE held[x][g]
  BY <1>2 DEF ReadChunk, Inv, TypeOK
<1>5. /\ Head(s) = s[1] /\ Head(s) \in 1 .. conf.chunks /\ Len(s) \in Nat /\ Len(s) >= 1
      /\ Tail(s) \in Seq(1 .. conf.chunks) /\ Len(Tail(s)) = Len(s) - 1
      /\ \A k \in 1 .. Len(Tail(s)) : Tail(s)[k] = s[k + 1]
  BY <1>1, <1>3, Front
<1>6. len[d][h] \in Nat /\ sent[d] \in Nat /\ Window \in Nat /\ conf.chunks \in Nat
  BY Counts, BoundsAssumption DEF Inv
<1>7. Head(s) = len[d][h] + 1 /\ Head(s) <= sent[d]
  <2>1. Taken(d, j) = len[d][h]
    BY <1>1, <1>2, <1>6 DEF Taken, Passing
  <2>2. s[1] = Taken(d, j) + 1
    BY <1>2, <1>5 DEF Inv, RunsInv
  <2>3. s[1] <= sent[d]
    BY <1>2, <1>5 DEF Inv, ChunksInv
  <2> QED
    BY <1>5, <2>1, <2>2, <2>3
<1>8. TypeOK'
  <2>1. data' \in [Dirs -> [Links -> Seq(1 .. conf.chunks)]]
    BY <1>2, <1>3, <1>5 DEF ReadChunk, Inv, TypeOK
  <2>2. held' \in [Dirs -> [Hops -> 0 .. conf.chunks]]
    BY <1>5, <1>6 DEF ReadChunk, Inv, TypeOK
  <2>3. \A x \in Dirs, i \in Links : Len(data'[x][i]) <= Window
    <3>1. \A x \in Dirs, i \in Links : Len(data[x][i]) <= Window
      BY DEF Inv, TypeOK
    <3>2. Len(Tail(s)) <= Window
      BY <1>3, <1>5, <1>6
    <3> QED
      BY <3>1, <3>2, <1>4
  <2> QED
    BY <1>1, <2>1, <2>2, <2>3 DEF Inv, TypeOK, appVars, clocks
<1>9. HopsInv' /\ ClosedInv'
  BY <1>1, CopyFrame
<1>10. ChunksInv'
  <2>1. \A x \in Dirs, i \in Links : \A k \in 1 .. Len(data'[x][i]) : data'[x][i][k] <= sent[x]
    <3> SUFFICES ASSUME NEW x \in Dirs, NEW i \in Links, NEW k \in 1 .. Len(data'[x][i])
                 PROVE  data'[x][i][k] <= sent[x]
      OBVIOUS
    <3>1. CASE x = d /\ i = j
      <4>1. data'[x][i] = Tail(s)
        BY <3>1, <1>4
      <4>2. k \in 1 .. Len(Tail(s)) /\ k + 1 \in 1 .. Len(s)
        BY <4>1, <1>5
      <4>3. s[k + 1] <= sent[d]
        BY <4>2, <1>2 DEF Inv, ChunksInv
      <4> QED
        BY <3>1, <4>1, <4>2, <4>3, <1>5
    <3>2. CASE ~(x = d /\ i = j)
      BY <3>2, <1>4 DEF Inv, ChunksInv
    <3> QED
      BY <3>1, <3>2
  <2>2. \A x \in Dirs, g \in Hops :
          held'[x][g] # 0 => held'[x][g] = len[x][g] + 1 /\ held'[x][g] <= sent[x]
    BY <1>4, <1>7 DEF Inv, ChunksInv
  <2> QED
    BY <1>1, <2>1, <2>2 DEF ChunksInv, appVars
<1>11. RunsInv'
  <2> SUFFICES ASSUME NEW x \in Dirs, NEW i \in Between, ~dead[x][i]
               PROVE  /\ Written(x, i)' = Taken(x, i)' + Len(data'[x][i])
                      /\ \A k \in 1 .. Len(data'[x][i]) : data'[x][i][k] = Taken(x, i)' + k
    BY <1>1, SameChain DEF RunsInv
  <2>1. i \in Links /\ (i # LastLink(x) => To(x, i) \in Hops)
        /\ (i # LastLink(x) => In(x, To(x, i)) = i)
    BY LinkEnds DEF Inv
  <2>2. Written(x, i)' = Written(x, i)
    BY <1>1, SameChain DEF Written, appVars
  <2>3. CASE x = d /\ i = j
    <3>1. Taken(x, i) = len[d][h] /\ Taken(x, i)' = len[d][h] + 1
      BY <2>3, <1>1, <1>2, <1>4, <1>5, <1>6, SameChain DEF Taken, Passing
    <3>2. Written(x, i) = Taken(x, i) + Len(s)
          /\ \A k \in 1 .. Len(s) : s[k] = Taken(x, i) + k
      BY <2>3 DEF Inv, RunsInv
    <3>3. data'[x][i] = Tail(s)
      BY <2>1, <2>3, <1>4
    <3>4. \A k \in 1 .. Len(Tail(s)) : Tail(s)[k] = len[d][h] + 1 + k
      <4> SUFFICES ASSUME NEW k \in 1 .. Len(Tail(s)) PROVE Tail(s)[k] = len[d][h] + 1 + k
        OBVIOUS
      <4>1. k + 1 \in 1 .. Len(s) /\ Tail(s)[k] = s[k + 1]
        BY <1>5
      <4> QED
        BY <4>1, <3>1, <3>2, <1>6
    <3>5. Written(x, i)' = Taken(x, i)' + Len(Tail(s))
      <4>1. Len(s) \in Nat /\ Len(Tail(s)) = Len(s) - 1
        BY <1>5
      <4>2. Written(x, i)' = len[d][h] + Len(s)
        BY <2>2, <3>1, <3>2
      <4> HIDE DEF s
      <4>3. len[d][h] + Len(s) = (len[d][h] + 1) + Len(Tail(s))
        BY <4>1, <1>6
      <4> QED
        BY <3>1, <4>2, <4>3
    <3>6. \A k \in 1 .. Len(Tail(s)) : Tail(s)[k] = Taken(x, i)' + k
      BY <3>1, <3>4
    <3> HIDE DEF s
    <3> QED
      BY <3>3, <3>5, <3>6
  <2>4. CASE ~(x = d /\ i = j)
    <3>1. Taken(x, i)' = Taken(x, i)
      BY <2>1, <2>4, <1>1, <1>4, SameChain DEF Taken, Passing, appVars
    <3>2. data'[x][i] = data[x][i]
      BY <2>1, <2>4, <1>4
    <3> QED
      BY <2>2, <3>1, <3>2 DEF Inv, RunsInv
  <2> QED
    BY <2>3, <2>4
<1>12. FinishedInv'
  <2>1. \A x \in Dirs, g \in Chain : done[x][g] =>
          held'[x][g] = 0 /\ data'[x][In(x, g)] = << >>
    <3> SUFFICES ASSUME NEW x \in Dirs, NEW g \in Chain, done[x][g]
                 PROVE  held'[x][g] = 0 /\ data'[x][In(x, g)] = << >>
      OBVIOUS
    <3>1. held[x][g] = 0 /\ data[x][In(x, g)] = << >>
      BY DEF Inv, FinishedInv
    <3>2. g \in Hops /\ In(x, g) \in Links /\ ~(x = d /\ In(x, g) = j) /\ ~(x = d /\ g = h)
      BY <3>1, <1>1, <1>2, HopLinks, LinkEnds DEF Inv
    <3> QED
      BY <3>1, <3>2, <1>4
  <2> QED
    BY <1>1, <2>1, SameChain DEF Inv, FinishedInv, Failed, In, Out, appVars
<1> QED
  BY <1>8, <1>9, <1>10, <1>11, <1>12 DEF Inv

\* A chunk that is written moves from the hop to the end of the next link.
LEMMA WriteChunkInv == ASSUME Inv, NEW d \in Dirs, NEW h \in Hops, WriteChunk(d, h) PROVE Inv'
<1> DEFINE j == Out(d, h)
           s == data[d][j]
           e == held[d][h]
<1>1. /\ Copying(d, h) /\ e # 0 /\ ~dead[d][j] /\ Len(s) < Window /\ conf' = conf
      /\ UNCHANGED <<hop, cut, done, fin, dead, appVars>> /\ UNCHANGED rst
  BY DEF WriteChunk
<1>2. /\ h \in Chain /\ ~done[d][h] /\ j \in Between /\ j \in Links
      /\ j # FirstLink(d) /\ From(d, j) = h /\ In(d, h) \in Between
      /\ In(d, h) # LastLink(d) /\ To(d, In(d, h)) = h
  BY <1>1, CopyingFacts, HopLinks, LinkEnds DEF Inv
<1>3. len[d][h] \in Nat /\ e \in Nat /\ e = len[d][h] + 1 /\ e <= sent[d]
      /\ sent[d] \in Nat /\ sent[d] <= conf.chunks /\ Window \in Nat /\ conf.chunks \in Nat
  BY <1>1, Counts, BoundsAssumption DEF Inv
<1>4. e \in 1 .. conf.chunks /\ s \in Seq(1 .. conf.chunks)
  BY <1>1, <1>2, <1>3 DEF Inv, TypeOK
<1>5. /\ Append(s, e) \in Seq(1 .. conf.chunks) /\ Len(s) \in Nat
      /\ Len(Append(s, e)) = Len(s) + 1 /\ Append(s, e)[Len(s) + 1] = e
      /\ \A k \in 1 .. Len(s) : Append(s, e)[k] = s[k]
      /\ \A k \in 1 .. Len(s) + 1 : k \in 1 .. Len(s) \/ k = Len(s) + 1
  BY <1>4, Back
<1>6. /\ \A x \in Dirs, i \in Links :
           data'[x][i] = IF x = d /\ i = j THEN Append(s, e) ELSE data[x][i]
      /\ \A x \in Dirs, g \in Hops :
           /\ held'[x][g] = IF x = d /\ g = h THEN 0 ELSE held[x][g]
           /\ len'[x][g] = IF x = d /\ g = h THEN len[d][h] + 1 ELSE len[x][g]
  BY <1>2 DEF WriteChunk, Inv, TypeOK
<1>7. TypeOK'
  <2>1. data' \in [Dirs -> [Links -> Seq(1 .. conf.chunks)]]
    BY <1>2, <1>5 DEF WriteChunk, Inv, TypeOK
  <2>2. held' \in [Dirs -> [Hops -> 0 .. conf.chunks]]
    BY <1>3 DEF WriteChunk, Inv, TypeOK
  <2>3. len' \in [Dirs -> [Hops -> 0 .. conf.chunks]]
    <3>1. len[d][h] + 1 \in 0 .. conf.chunks
      BY <1>3
    <3>2. len \in [Dirs -> [Hops -> 0 .. conf.chunks]]
      BY DEF Inv, TypeOK
    <3>3. len' = [len EXCEPT ![d][h] = len[d][h] + 1]
      BY DEF WriteChunk
    <3> QED
      BY <3>1, <3>2, <3>3
  <2>4. \A x \in Dirs, i \in Links : Len(data'[x][i]) <= Window
    <3>1. \A x \in Dirs, i \in Links : Len(data[x][i]) <= Window
      BY DEF Inv, TypeOK
    <3>2. Len(Append(s, e)) <= Window
      BY <1>1, <1>3, <1>5
    <3> QED
      BY <3>1, <3>2, <1>6
  <2>5. /\ tun' \in [Hops -> Nat] /\ half' \in [Hops -> Nat] /\ quiet' \in [Hops -> Nat]
    BY DEF WriteChunk, RecordActivity, Inv, TypeOK
  <2> QED
    BY <1>1, <2>1, <2>2, <2>3, <2>4, <2>5 DEF Inv, TypeOK, appVars
<1>8. HopsInv' /\ ClosedInv'
  BY <1>1, CopyFrame
<1>9. ChunksInv'
  <2>1. \A x \in Dirs, i \in Links : \A k \in 1 .. Len(data'[x][i]) : data'[x][i][k] <= sent[x]
    <3> SUFFICES ASSUME NEW x \in Dirs, NEW i \in Links, NEW k \in 1 .. Len(data'[x][i])
                 PROVE  data'[x][i][k] <= sent[x]
      OBVIOUS
    <3>1. CASE x = d /\ i = j
      <4>1. data'[x][i] = Append(s, e)
        BY <3>1, <1>6
      <4>2. k \in 1 .. Len(s) \/ k = Len(s) + 1
        BY <4>1, <1>5
      <4>3. k \in 1 .. Len(s) => s[k] <= sent[d]
        BY <1>2 DEF Inv, ChunksInv
      <4> QED
        BY <3>1, <4>1, <4>2, <4>3, <1>3, <1>5
    <3>2. CASE ~(x = d /\ i = j)
      BY <3>2, <1>6 DEF Inv, ChunksInv
    <3> QED
      BY <3>1, <3>2
  <2>2. \A x \in Dirs, g \in Hops :
          held'[x][g] # 0 => held'[x][g] = len'[x][g] + 1 /\ held'[x][g] <= sent[x]
    BY <1>6 DEF Inv, ChunksInv
  <2> QED
    BY <1>1, <2>1, <2>2 DEF ChunksInv, appVars
<1>10. RunsInv'
  <2> SUFFICES ASSUME NEW x \in Dirs, NEW i \in Between, ~dead[x][i]
               PROVE  /\ Written(x, i)' = Taken(x, i)' + Len(data'[x][i])
                      /\ \A k \in 1 .. Len(data'[x][i]) : data'[x][i][k] = Taken(x, i)' + k
    BY <1>1, SameChain DEF RunsInv
  <2>1. /\ i \in Links /\ (i # LastLink(x) => To(x, i) \in Hops) /\ (i # FirstLink(x) => From(x, i) \in Hops)
        /\ (i # LastLink(x) => In(x, To(x, i)) = i) /\ (i # FirstLink(x) => Out(x, From(x, i)) = i)
    BY LinkEnds DEF Inv
  <2>2. Taken(x, i)' = Taken(x, i)
    <3>1. \A g \in Hops :
            len'[x][g] + (IF held'[x][g] = 0 THEN 0 ELSE 1) = len[x][g] + (IF held[x][g] = 0 THEN 0 ELSE 1)
      BY <1>1, <1>3, <1>6
    <3> QED
      BY <2>1, <3>1, <1>1, SameChain DEF Taken, Passing, appVars
  <2>3. Written(x, i) = Taken(x, i) + Len(data[x][i])
        /\ \A k \in 1 .. Len(data[x][i]) : data[x][i][k] = Taken(x, i) + k
    BY DEF Inv, RunsInv
  <2>4. CASE x = d /\ i = j
    <3>1. Written(x, i) = len[d][h] /\ Written(x, i)' = len[d][h] + 1
      BY <2>4, <1>2, <1>6, SameChain, <1>1 DEF Written
    <3>2. data'[x][i] = Append(s, e) /\ data[x][i] = s
      BY <2>1, <2>4, <1>6
    <3>3. Taken(x, i) \in Nat
      <4>1. i = LastLink(x) => Len(got[x]) \in Nat
        BY DEF Inv, TypeOK
      <4>2. i # LastLink(x) => Passing(x, To(x, i)) \in Nat
        BY <2>1, Counts DEF Inv
      <4> QED
        BY <4>1, <4>2 DEF Taken
    <3>4. len[d][h] = Taken(x, i) + Len(s)
      BY <2>3, <3>1, <3>2
    <3>5. len[d][h] + 1 = Taken(x, i) + Len(Append(s, e))
      <4>1. Len(Append(s, e)) = Len(s) + 1 /\ Len(s) \in Nat
        BY <1>5
      <4> DEFINE b == Append(s, e)
      <4> HIDE DEF s, b
      <4> QED
        BY <1>3, <3>3, <3>4, <4>1
    <3>6. \A k \in 1 .. Len(Append(s, e)) : Append(s, e)[k] = Taken(x, i) + k
      <4> SUFFICES ASSUME NEW k \in 1 .. Len(Append(s, e)) PROVE Append(s, e)[k] = Taken(x, i) + k
        OBVIOUS
      <4>1. CASE k \in 1 .. Len(s)
        BY <4>1, <1>5, <2>3, <3>2
      <4>2. CASE k = Len(s) + 1
        <5>1. Append(s, e)[k] = len[d][h] + 1 /\ Len(s) \in Nat
          BY <4>2, <1>3, <1>5
        <5> HIDE DEF s
        <5>2. len[d][h] + 1 = Taken(x, i) + (Len(s) + 1)
          BY <1>3, <3>3, <3>4, <5>1
        <5> QED
          BY <4>2, <5>1, <5>2
      <4> QED
        BY <4>1, <4>2, <1>5
    <3> HIDE DEF s, e
    <3> QED
      BY <2>2, <3>1, <3>2, <3>5, <3>6
  <2>5. CASE ~(x = d /\ i = j)
    <3>1. Written(x, i)' = Written(x, i)
      BY <2>1, <2>5, <1>1, <1>6, SameChain DEF Written, appVars
    <3>2. data'[x][i] = data[x][i]
      BY <2>1, <2>5, <1>6
    <3> QED
      BY <2>2, <2>3, <3>1, <3>2
  <2> QED
    BY <2>4, <2>5
<1>11. FinishedInv'
  <2>1. \A x \in Dirs, g \in Chain : done[x][g] =>
          held'[x][g] = 0 /\ data'[x][In(x, g)] = << >> /\ len'[x][g] = len[x][g]
    <3> SUFFICES ASSUME NEW x \in Dirs, NEW g \in Chain, done[x][g]
                 PROVE  held'[x][g] = 0 /\ data'[x][In(x, g)] = << >> /\ len'[x][g] = len[x][g]
      OBVIOUS
    <3>1. held[x][g] = 0 /\ data[x][In(x, g)] = << >>
      BY DEF Inv, FinishedInv
    <3>2. x = d => In(x, g) # j /\ g # h
      BY <1>1, NextIsNotDone
    <3>3. g \in Hops /\ In(x, g) \in Links
      BY HopLinks, LinkEnds DEF Inv
    <3> QED
      BY <3>1, <3>2, <3>3, <1>6
  <2> QED
    BY <1>1, <2>1, SameChain DEF Inv, FinishedInv, Failed, In, Out, FirstLink, appVars
<1> QED
  BY <1>7, <1>8, <1>9, <1>10, <1>11 DEF Inv

\* A chunk written to a closed link is lost, in a tunnel that has failed.
LEMMA WriteVanishesInv ==
  ASSUME Inv, NEW d \in Dirs, NEW h \in Hops, WriteVanishes(d, h) PROVE Inv'
<1> DEFINE j == Out(d, h)
           e == held[d][h]
<1>1. /\ Copying(d, h) /\ e # 0 /\ dead[d][j] /\ conf' = conf
      /\ UNCHANGED <<hop, cut, done, fin, dead, appVars>> /\ UNCHANGED data
  BY DEF WriteVanishes
<1>2. /\ h \in Chain /\ ~done[d][h] /\ ~fin[d][j] /\ j \in Between /\ j \in Links
      /\ j # FirstLink(d) /\ From(d, j) = h /\ Other(d) \in Dirs
  BY <1>1, CopyingFacts, HopLinks, LinkEnds, Directions DEF Inv
<1>3. Failed
  BY <1>1, <1>2 DEF Inv, ClosedInv
<1>4. len[d][h] \in Nat /\ e \in Nat /\ e = len[d][h] + 1 /\ e <= sent[d]
      /\ sent[d] \in Nat /\ sent[d] <= conf.chunks /\ conf.chunks \in Nat
  BY <1>1, Counts DEF Inv
<1>5. \A x \in Dirs, g \in Hops :
        /\ held'[x][g] = IF x = d /\ g = h THEN 0 ELSE held[x][g]
        /\ len'[x][g] = IF x = d /\ g = h THEN len[d][h] + 1 ELSE len[x][g]
  BY DEF WriteVanishes, Inv, TypeOK
<1>6. TypeOK'
  <2>1. held' \in [Dirs -> [Hops -> 0 .. conf.chunks]]
    BY <1>4 DEF WriteVanishes, Inv, TypeOK
  <2>2. len' \in [Dirs -> [Hops -> 0 .. conf.chunks]]
    <3>1. len[d][h] + 1 \in 0 .. conf.chunks
      BY <1>4
    <3>2. len \in [Dirs -> [Hops -> 0 .. conf.chunks]]
      BY DEF Inv, TypeOK
    <3>3. len' = [len EXCEPT ![d][h] = len[d][h] + 1]
      BY DEF WriteVanishes
    <3> QED
      BY <3>1, <3>2, <3>3
  <2>3. /\ tun' \in [Hops -> Nat] /\ half' \in [Hops -> Nat] /\ quiet' \in [Hops -> Nat]
        /\ rst' \in [Dirs -> [Links -> BOOLEAN]]
    BY DEF WriteVanishes, RecordActivity, Inv, TypeOK
  <2> QED
    BY <1>1, <2>1, <2>2, <2>3 DEF Inv, TypeOK, appVars
<1>7. HopsInv' /\ ClosedInv'
  BY <1>1, <1>3, CopyFrame
<1>8. ChunksInv'
  BY <1>1, <1>5 DEF Inv, ChunksInv, appVars
<1>9. RunsInv'
  <2> SUFFICES ASSUME NEW x \in Dirs, NEW i \in Between, ~dead[x][i]
               PROVE  Written(x, i)' = Written(x, i) /\ Taken(x, i)' = Taken(x, i)
    BY <1>1, RunsStay DEF Inv
  <2>1. /\ (i # LastLink(x) => To(x, i) \in Hops) /\ (i # FirstLink(x) => From(x, i) \in Hops)
        /\ (i # FirstLink(x) => Out(x, From(x, i)) = i)
    BY LinkEnds DEF Inv
  <2>2. Taken(x, i)' = Taken(x, i)
    <3>1. \A g \in Hops :
            len'[x][g] + (IF held'[x][g] = 0 THEN 0 ELSE 1) = len[x][g] + (IF held[x][g] = 0 THEN 0 ELSE 1)
      BY <1>1, <1>4, <1>5
    <3> QED
      BY <2>1, <3>1, <1>1, SameChain DEF Taken, Passing, appVars
  <2>3. Written(x, i)' = Written(x, i)
    BY <2>1, <1>1, <1>5, SameChain DEF Written, appVars
  <2> QED
    BY <2>2, <2>3
<1>10. FinishedInv'
  <2>1. \A x \in Dirs, g \in Chain : held[x][g] = 0 => held'[x][g] = 0
    BY <1>5, HopLinks DEF Inv
  <2> QED
    BY <1>1, <1>3, <2>1, SameChain DEF Inv, FinishedInv, Failed, In, Out, appVars
<1> QED
  BY <1>6, <1>7, <1>8, <1>9, <1>10 DEF Inv

-----------------------------------------------------------------------------
(* Ends of hops *)

\* What closing the sockets of a hop does to the links.
LEMMA HopCloses ==
  ASSUME Inv, NEW h \in Chain, CloseSockets(SocketsOf(h))
  PROVE  \A x \in Dirs, i \in Links :
           /\ fin'[x][i] <=> fin[x][i] \/ (i = Out(x, h) /\ data[Other(x)][i] = << >>)
           /\ rst'[x][i] <=> rst[x][i] \/ (i = Out(x, h) /\ data[Other(x)][i] # << >>)
           /\ dead'[x][i] <=> dead[x][i] \/ i = In(x, h)
           /\ data'[x][i] = IF i = In(x, h) THEN << >> ELSE data[x][i]
<1> SUFFICES ASSUME NEW x \in Dirs, NEW i \in Links
             PROVE  /\ fin'[x][i] <=> fin[x][i] \/ (i = Out(x, h) /\ data[Other(x)][i] = << >>)
                    /\ rst'[x][i] <=> rst[x][i] \/ (i = Out(x, h) /\ data[Other(x)][i] # << >>)
                    /\ dead'[x][i] <=> dead[x][i] \/ i = In(x, h)
                    /\ data'[x][i] = IF i = In(x, h) THEN << >> ELSE data[x][i]
  OBVIOUS
<1>1. \A y \in Dirs : <<y, i>> \in SocketsOf(h) <=> i = Out(y, h)
  BY DEF SocketsOf
<1>2. Other(x) \in Dirs /\ Out(Other(x), h) = In(x, h)
  BY Directions, HopLinks DEF Inv
<1>3. <<Other(x), i>> \in SocketsOf(h) <=> i = In(x, h)
  BY <1>1, <1>2
<1>4. <<x, i>> \in SocketsOf(h) <=> i = Out(x, h)
  BY <1>1
<1>5. /\ fin'[x][i] = (fin[x][i] \/ (<<x, i>> \in SocketsOf(h) /\ ~Unread(x, i)))
      /\ rst'[x][i] = (rst[x][i] \/ (<<x, i>> \in SocketsOf(h) /\ Unread(x, i)))
      /\ dead'[x][i] = (dead[x][i] \/ <<Other(x), i>> \in SocketsOf(h))
      /\ data'[x][i] = IF <<Other(x), i>> \in SocketsOf(h) THEN << >> ELSE data[x][i]
  BY DEF CloseSockets
<1> QED
  BY <1>3, <1>4, <1>5 DEF Unread

\* Types are kept by whoever closes sockets.
LEMMA CloseTypes ==
  ASSUME TypeOK, NEW mine, CloseSockets(mine)
  PROVE  /\ data' \in [Dirs -> [Links -> Seq(1 .. conf.chunks)]]
         /\ \A x \in Dirs, i \in Links : Len(data'[x][i]) <= Window
         /\ fin' \in [Dirs -> [Links -> BOOLEAN]] /\ rst' \in [Dirs -> [Links -> BOOLEAN]]
         /\ dead' \in [Dirs -> [Links -> BOOLEAN]]
         /\ \A x \in Dirs, i \in Links : data'[x][i] \in {data[x][i], << >>}
<1>1. /\ data \in [Dirs -> [Links -> Seq(1 .. conf.chunks)]]
      /\ \A x \in Dirs, i \in Links : Len(data[x][i]) <= Window
  BY DEF TypeOK
<1>2. \A x \in Dirs, i \in Links : data'[x][i] \in {data[x][i], << >>}
  BY DEF CloseSockets
<1>3. data' \in [Dirs -> [Links -> Seq(1 .. conf.chunks)]]
  <2> DEFINE m(x, i) == IF <<Other(x), i>> \in mine THEN << >> ELSE data[x][i]
  <2>1. data' = [x \in Dirs |-> [i \in Links |-> m(x, i)]]
    BY DEF CloseSockets
  <2>2. << >> \in Seq(1 .. conf.chunks)
    OBVIOUS
  <2>3. \A x \in Dirs, i \in Links : m(x, i) \in Seq(1 .. conf.chunks)
    BY <1>1, <2>2
  <2> HIDE DEF m
  <2> QED
    BY <2>1, <2>3
<1>4. \A x \in Dirs, i \in Links : Len(data'[x][i]) <= Window
  BY <1>1, <1>2, BoundsAssumption
<1>5. /\ fin' \in [Dirs -> [Links -> BOOLEAN]] /\ rst' \in [Dirs -> [Links -> BOOLEAN]]
      /\ dead' \in [Dirs -> [Links -> BOOLEAN]]
  BY DEF CloseSockets
<1> QED
  BY <1>2, <1>3, <1>4, <1>5

\* What the end of a hop leaves to be shown.
LEMMA EndHopFrame ==
  ASSUME Inv, NEW h \in Chain, NEW why \in Causes \ {"none"}, EndHop(h, why),
         UNCHANGED <<conf, len, appVars>>, done' \in [Dirs -> [Hops -> BOOLEAN]],
         why = "done" => \A d \in Dirs : done'[d][h],
         \A d \in Dirs, g \in Hops : done[d][g] => done'[d][g]
  PROVE  TypeOK' /\ HopsInv' /\ ChunksInv' /\ RunsInv'
<1>1. h \in Hops /\ conf' = conf /\ sent' = sent /\ got' = got /\ len' = len
  BY HopLinks DEF Inv, Dirs, appVars
<1>2. /\ \A g \in Hops : /\ hop'[g] = IF g = h THEN "ended" ELSE hop[g]
                         /\ cut'[g] = IF g = h THEN why ELSE cut[g]
      /\ \A x \in Dirs, g \in Hops : held'[x][g] = IF g = h THEN 0 ELSE held[x][g]
  BY <1>1 DEF EndHop, Inv, TypeOK
<1>3. TypeOK'
  <2>1. CloseSockets(SocketsOf(h)) /\ TypeOK
    BY DEF EndHop, Inv
  <2>2. /\ data' \in [Dirs -> [Links -> Seq(1 .. conf.chunks)]]
        /\ \A x \in Dirs, i \in Links : Len(data'[x][i]) <= Window
        /\ fin' \in [Dirs -> [Links -> BOOLEAN]] /\ rst' \in [Dirs -> [Links -> BOOLEAN]]
        /\ dead' \in [Dirs -> [Links -> BOOLEAN]]
    BY <2>1, CloseTypes
  <2>3. /\ hop' \in [Hops -> {"absent", "setup", "open", "ended"}] /\ cut' \in [Hops -> Causes]
        /\ tun' \in [Hops -> Nat] /\ half' \in [Hops -> Nat] /\ quiet' \in [Hops -> Nat]
    BY <2>1 DEF EndHop, TypeOK
  <2>4. held' \in [Dirs -> [Hops -> 0 .. conf.chunks]]
    <3>1. conf.chunks \in Nat /\ held \in [Dirs -> [Hops -> 0 .. conf.chunks]]
      BY <2>1, DeploymentsAssumption DEF TypeOK
    <3>2. held' = [d \in Dirs |-> [held[d] EXCEPT ![h] = 0]]
      BY DEF EndHop
    <3>3. ASSUME NEW d \in Dirs PROVE [held[d] EXCEPT ![h] = 0] \in [Hops -> 0 .. conf.chunks]
      <4>1. held[d] \in [Hops -> 0 .. conf.chunks] /\ 0 \in 0 .. conf.chunks
        BY <3>1
      <4> QED
        BY <4>1
    <3> QED
      BY <3>2, <3>3
  <2> QED
    BY <2>1, <2>2, <2>3, <2>4, <1>1 DEF TypeOK, appVars
<1>4. HopsInv'
  <2>1. ~(h > N) /\ N' = N
    BY <1>1, SameChain, ChainLength DEF Inv, Chain
  <2>2. ASSUME NEW g \in Hops
        PROVE  /\ hop'[g] = "absent" <=> g > N
               /\ cut'[g] = "none" <=> hop'[g] # "ended"
               /\ cut'[g] = "done" => \A d \in Dirs : done'[d][g]
    <3>1. CASE g = h
      BY <3>1, <2>1, <1>2
    <3>2. CASE g # h
      BY <3>2, <1>2 DEF Inv, HopsInv
    <3> QED
      BY <3>1, <3>2
  <2> QED
    BY <2>1, <2>2 DEF HopsInv
<1>5. ChunksInv'
  <2>1. \A x \in Dirs, i \in Links : data'[x][i] \in {data[x][i], << >>}
    BY CloseTypes DEF Inv, EndHop
  <2> QED
    BY <1>1, <1>2, <2>1 DEF Inv, ChunksInv
<1>6. RunsInv'
  <2> SUFFICES ASSUME NEW x \in Dirs, NEW i \in Between, ~dead'[x][i]
               PROVE  /\ ~dead[x][i] /\ data'[x][i] = data[x][i]
                      /\ Written(x, i)' = Written(x, i) /\ Taken(x, i)' = Taken(x, i)
    BY <1>1, RunsStay DEF Inv
  <2>1. i \in Links /\ (i # LastLink(x) => To(x, i) \in Hops /\ In(x, To(x, i)) = i)
    BY LinkEnds DEF Inv
  <2>2. i # In(x, h) /\ ~dead[x][i] /\ data'[x][i] = data[x][i]
    BY <2>1, HopCloses DEF EndHop
  <2>3. Written(x, i)' = Written(x, i)
    BY <1>1, SameChain DEF Written
  <2>4. Taken(x, i)' = Taken(x, i)
    <3>1. i # LastLink(x) => held'[x][To(x, i)] = held[x][To(x, i)]
      BY <1>2, <2>1, <2>2
    <3> QED
      BY <3>1, <1>1, SameChain DEF Taken, Passing
  <2> QED
    BY <2>2, <2>3, <2>4
<1> QED
  BY <1>3, <1>4, <1>5, <1>6

\* Causes other than a finished stream fail the tunnel.
LEMMA FailingEndInv ==
  ASSUME Inv, NEW h \in Hops, NEW why \in Causes \ {"none", "done"},
         hop[h] \in {"setup", "open"}, EndHop(h, why), UNCHANGED <<conf, done, len, appVars>>
  PROVE  Inv' /\ Failed' /\ \A x \in Dirs : fin[x][FirstLink(x)] => fin'[x][FirstLink(x)]
<1>1. h \in Chain
  BY ChainLength DEF Inv, HopsInv, Hops, Chain
<1>2. TypeOK' /\ HopsInv' /\ ChunksInv' /\ RunsInv'
  BY <1>1, EndHopFrame DEF Inv, TypeOK
<1>3. Failed'
  BY DEF Failed, EndHop, Inv, TypeOK
<1>4. \A x \in Dirs, i \in Links :
        /\ fin'[x][i] <=> fin[x][i] \/ (i = Out(x, h) /\ data[Other(x)][i] = << >>)
        /\ dead'[x][i] <=> dead[x][i] \/ i = In(x, h)
        /\ data'[x][i] = IF i = In(x, h) THEN << >> ELSE data[x][i]
  BY <1>1, HopCloses DEF EndHop
<1>5. \A g \in Hops : hop'[g] = IF g = h THEN "ended" ELSE hop[g]
  BY DEF EndHop, Inv, TypeOK
<1>6. ClosedInv'
  <2> SUFFICES ASSUME NEW x \in Dirs, NEW i \in Between, dead'[x][i]
               PROVE  IF i = LastLink(x) THEN Reader(x) \in gone ELSE hop'[To(x, i)] = "ended"
    BY <1>3, SameChain DEF ClosedInv, appVars, To, Reader
  <2>1. i \in Links /\ (i # LastLink(x) => To(x, i) \in Hops)
    BY LinkEnds DEF Inv
  <2>2. CASE dead[x][i]
    BY <2>1, <2>2, <1>5 DEF Inv, ClosedInv
  <2>3. CASE i = In(x, h)
    BY <2>1, <2>3, <1>1, <1>5, HopLinks DEF Inv
  <2> QED
    BY <2>1, <2>2, <2>3, <1>4
<1>7. FinishedInv'
  <2> SUFFICES ASSUME NEW x \in Dirs, NEW g \in Chain
               PROVE  /\ fin'[x][Out(x, g)] => done[x][g] \/ hop'[g] = "ended"
                      /\ done[x][g] => held'[x][g] = 0 /\ fin'[x][In(x, g)]
                                       /\ data'[x][In(x, g)] = << >>
    BY <1>3, SameChain DEF FinishedInv, In, Out
  <2>1. /\ g \in Hops /\ In(x, g) \in Links /\ Out(x, g) \in Links
        /\ From(x, Out(x, g)) = g /\ From(x, Out(x, h)) = h
    BY <1>1, HopLinks, LinkEnds DEF Inv
  <2>2. fin'[x][Out(x, g)] => fin[x][Out(x, g)] \/ g = h
    BY <2>1, <1>4
  <2>3. /\ fin[x][Out(x, g)] => done[x][g] \/ hop[g] = "ended"
        /\ done[x][g] => held[x][g] = 0 /\ fin[x][In(x, g)] /\ data[x][In(x, g)] = << >>
    BY DEF Inv, FinishedInv
  <2>4. held[x][g] = 0 => held'[x][g] = 0
    BY <2>1 DEF EndHop, Inv, TypeOK
  <2> QED
    BY <2>1, <2>2, <2>3, <2>4, <1>4, <1>5
<1>8. \A x \in Dirs : fin[x][FirstLink(x)] => fin'[x][FirstLink(x)]
  BY <1>4, Directions, LinkEnds DEF Inv
<1> QED
  BY <1>2, <1>3, <1>6, <1>7, <1>8 DEF Inv

\* Every way a hop ends that is not the end of both streams.
LEMMA FailureInv ==
  ASSUME Inv, NEW h \in Hops,
         \/ RefusedByService(h) \/ TunnelIdle(h) \/ HalfCloseIdle(h) \/ Cancelled(h)
         \/ \E d \in Dirs : WriteFails(d, h) \/ FrameEnd(d, h) \/ DatagramEnd(d, h) \/ ReadFails(d, h)
  PROVE  /\ Inv' /\ Failed' /\ (\A x \in Dirs : fin[x][FirstLink(x)] => fin'[x][FirstLink(x)])
         /\ UNCHANGED <<conf, appVars>>
<1>1. \E why \in Causes \ {"none", "done"} :
        hop[h] \in {"setup", "open"} /\ EndHop(h, why) /\ UNCHANGED <<conf, done, len, appVars>>
  <2>1. {"refused", "idle", "half_idle", "cancelled", "error", "framing"}
          \subseteq Causes \ {"none", "done"}
    BY DEF Causes
  <2>2. CASE RefusedByService(h)
    BY <2>1, <2>2 DEF RefusedByService
  <2>3. CASE TunnelIdle(h)
    BY <2>1, <2>3 DEF TunnelIdle
  <2>4. CASE HalfCloseIdle(h)
    BY <2>1, <2>4 DEF HalfCloseIdle
  <2>5. CASE Cancelled(h)
    BY <2>1, <2>5 DEF Cancelled
  <2>6. ASSUME NEW d \in Dirs, WriteFails(d, h) \/ ReadFails(d, h)
        PROVE  hop[h] = "open" /\ EndHop(h, "error") /\ UNCHANGED <<conf, done, len, appVars>>
    BY <2>6 DEF WriteFails, ReadFails, Copying
  <2>7. ASSUME NEW d \in Dirs, FrameEnd(d, h)
        PROVE  hop[h] = "open" /\ EndHop(h, "framing") /\ UNCHANGED <<conf, done, len, appVars>>
    BY <2>7 DEF FrameEnd, AtEnd, Copying
  <2>8. ASSUME NEW d \in Dirs, DatagramEnd(d, h)
        PROVE  hop[h] = "open" /\ EndHop(h, "error") /\ UNCHANGED <<conf, done, len, appVars>>
    BY <2>8 DEF DatagramEnd, AtEnd, Copying
  <2> QED
    BY <2>1, <2>2, <2>3, <2>4, <2>5, <2>6, <2>7, <2>8
<1> QED
  BY <1>1, FailingEndInv

\* Who reads the end of a stream at a hop has passed all of it on.
LEMMA AllPassedOn ==
  ASSUME Inv, NEW d \in Dirs, NEW i \in Between, i # FirstLink(d), ~dead[d][i],
         data[d][i] = << >>, fin[d][i], ~Failed
  PROVE  fin[d][FirstLink(d)] /\ Taken(d, i) = sent[d]
<1> DEFINE g == From(d, i)
<1>1. g \in Chain /\ g \in Hops /\ Out(d, g) = i
  BY LinkEnds DEF Inv
<1>2. done[d][g] \/ hop[g] = "ended"
  BY <1>1 DEF Inv, FinishedInv
<1>3. hop[g] = "ended" => cut[g] = "done"
  BY <1>1 DEF Inv, HopsInv, Failed
<1>4. done[d][g]
  BY <1>1, <1>2, <1>3 DEF Inv, HopsInv
<1>5. len[d][g] = sent[d] /\ fin[d][FirstLink(d)]
  BY <1>1, <1>4 DEF Inv, FinishedInv
<1>6. Written(d, i) = Taken(d, i) + 0
  BY DEF Inv, RunsInv
<1>7. Written(d, i) = sent[d]
  BY <1>5 DEF Written
<1>8. Taken(d, i) \in Nat
  <2>1. i = LastLink(d) => Len(got[d]) \in Nat
    BY DEF Inv, TypeOK
  <2>2. i # LastLink(d) => Passing(d, To(d, i)) \in Nat
    BY LinkEnds, Counts DEF Inv
  <2> QED
    BY <2>1, <2>2 DEF Taken
<1>9. Taken(d, i) = sent[d]
  BY <1>6, <1>7, <1>8
<1> QED
  BY <1>5, <1>9

\* The end of a stream, at a hop.
LEMMA EndFacts ==
  ASSUME Inv, NEW d \in Dirs, NEW h \in Hops, ReadEnd(d, h)
  PROVE  /\ h \in Chain /\ hop[h] = "open" /\ cut[h] = "none" /\ ~done[d][h]
         /\ held[d][h] = 0 /\ data[d][In(d, h)] = << >> /\ fin[d][In(d, h)]
         /\ UNCHANGED <<conf, len, appVars>>
         /\ done' \in [Dirs -> [Hops -> BOOLEAN]]
         /\ \A x \in Dirs, g \in Hops : done'[x][g] <=> done[x][g] \/ (x = d /\ g = h)
         /\ ~Failed => len[d][h] = sent[d] /\ fin[d][FirstLink(d)]
<1>1. Copying(d, h) /\ held[d][h] = 0 /\ data[d][In(d, h)] = << >> /\ fin[d][In(d, h)]
      /\ UNCHANGED <<conf, len, appVars>> /\ done' = [done EXCEPT ![d][h] = TRUE]
  BY DEF ReadEnd, AtEnd
<1>2. h \in Chain /\ hop[h] = "open" /\ cut[h] = "none" /\ ~done[d][h] /\ ~dead[d][In(d, h)]
  BY <1>1, CopyingFacts
<1>3. /\ done' \in [Dirs -> [Hops -> BOOLEAN]]
      /\ \A x \in Dirs, g \in Hops : done'[x][g] <=> done[x][g] \/ (x = d /\ g = h)
  BY <1>1 DEF Inv, TypeOK
<1>4. /\ In(d, h) \in Between /\ In(d, h) # LastLink(d) /\ To(d, In(d, h)) = h
      /\ len[d][h] \in Nat /\ sent[d] \in Nat
  BY <1>2, HopLinks, Counts DEF Inv
<1>5. Taken(d, In(d, h)) = len[d][h]
  BY <1>1, <1>4 DEF Taken, Passing
<1>6. ASSUME ~Failed PROVE len[d][h] = sent[d] /\ fin[d][FirstLink(d)]
  <2>1. CASE In(d, h) = FirstLink(d)
    <3>1. Written(d, In(d, h)) = Taken(d, In(d, h)) + 0
      BY <1>1, <1>2, <1>4 DEF Inv, RunsInv
    <3>2. sent[d] = len[d][h] + 0
      BY <2>1, <3>1, <1>5 DEF Written
    <3> QED
      BY <2>1, <3>2, <1>1, <1>4
  <2>2. CASE In(d, h) # FirstLink(d)
    BY <2>2, <1>1, <1>2, <1>4, <1>5, <1>6, AllPassedOn
  <2> QED
    BY <2>1, <2>2
<1> QED
  BY <1>1, <1>2, <1>3, <1>6

\* The end of the first direction is passed on by a copy that has passed on
\* everything.
LEMMA FirstEndInv ==
  ASSUME Inv, NEW d \in Dirs, NEW h \in Hops, ReadEnd(d, h), ~done[Other(d)][h]
  PROVE  Inv' /\ Failed' = Failed /\ \A x \in Dirs : fin'[x][FirstLink(x)] = fin[x][FirstLink(x)]
<1> DEFINE j == Out(d, h)
<1>1. /\ h \in Chain /\ hop[h] = "open" /\ cut[h] = "none" /\ ~done[d][h]
      /\ held[d][h] = 0 /\ data[d][In(d, h)] = << >> /\ fin[d][In(d, h)]
      /\ conf' = conf /\ len' = len /\ UNCHANGED appVars
      /\ done' \in [Dirs -> [Hops -> BOOLEAN]]
      /\ \A x \in Dirs, g \in Hops : done'[x][g] <=> done[x][g] \/ (x = d /\ g = h)
      /\ ~Failed => len[d][h] = sent[d] /\ fin[d][FirstLink(d)]
  BY EndFacts
<1>2. /\ fin' = [fin EXCEPT ![d][j] = TRUE]
      /\ half' = [half EXCEPT ![h] = 0] /\ quiet' = [quiet EXCEPT ![h] = 0]
      /\ UNCHANGED <<hop, cut, held, data, rst, dead, tun>>
  BY DEF ReadEnd
<1>3. j \in Links /\ j \in Between /\ j # FirstLink(d) /\ From(d, j) = h
  BY <1>1, HopLinks, LinkEnds DEF Inv
<1>4. \A x \in Dirs, i \in Links : fin'[x][i] = IF x = d /\ i = j THEN TRUE ELSE fin[x][i]
  BY <1>2, <1>3 DEF Inv, TypeOK
<1>5. Failed' = Failed
  BY <1>1, <1>2 DEF Failed, appVars
<1>6. TypeOK'
  BY <1>1, <1>2 DEF Inv, TypeOK, appVars
<1>7. HopsInv'
  BY <1>1, <1>2, SameChain DEF Inv, HopsInv
<1>8. ChunksInv'
  BY <1>1, <1>2 DEF Inv, ChunksInv, appVars
<1>9. RunsInv'
  <2>1. \A x \in Dirs, i \in Between :
          Written(x, i)' = Written(x, i) /\ Taken(x, i)' = Taken(x, i)
    BY <1>1, <1>2, SameChain DEF Written, Taken, Passing, appVars
  <2> QED
    BY <1>1, <1>2, <2>1, RunsStay DEF Inv
<1>10. ClosedInv'
  <2>1. \A i \in Between : i \in Links
    BY <1>1, LinkEnds DEF Inv
  <2>2. \A x \in Dirs, i \in Between : fin[x][i] => fin'[x][i]
    BY <2>1, <1>4
  <2> QED
    BY <1>1, <1>2, <1>5, <2>2, SameChain DEF Inv, ClosedInv, Reader, To, appVars
<1>11. FinishedInv'
  <2> SUFFICES ASSUME NEW x \in Dirs, NEW g \in Chain
               PROVE  /\ fin'[x][Out(x, g)] => done'[x][g] \/ hop[g] = "ended"
                      /\ done'[x][g] => held[x][g] = 0 /\ fin'[x][In(x, g)]
                                        /\ data[x][In(x, g)] = << >>
                      /\ done'[x][g] /\ ~Failed => len[x][g] = sent[x] /\ fin'[x][FirstLink(x)]
    BY <1>1, <1>2, <1>5, SameChain DEF FinishedInv, In, Out, appVars
  <2>1. /\ g \in Hops /\ In(x, g) \in Links /\ Out(x, g) \in Links
        /\ From(x, Out(x, g)) = g /\ FirstLink(x) \in Links
    BY HopLinks, LinkEnds, Directions DEF Inv
  <2>2. /\ fin[x][Out(x, g)] => done[x][g] \/ hop[g] = "ended"
        /\ done[x][g] => held[x][g] = 0 /\ fin[x][In(x, g)] /\ data[x][In(x, g)] = << >>
        /\ done[x][g] /\ ~Failed => len[x][g] = sent[x] /\ fin[x][FirstLink(x)]
    BY DEF Inv, FinishedInv
  <2>3. fin'[x][Out(x, g)] => fin[x][Out(x, g)] \/ (x = d /\ g = h)
    BY <1>3, <1>4, <2>1
  <2>4. done'[x][g] <=> done[x][g] \/ (x = d /\ g = h)
    BY <1>1, <2>1
  <2>5. /\ fin[x][In(x, g)] => fin'[x][In(x, g)]
        /\ fin[x][FirstLink(x)] => fin'[x][FirstLink(x)]
    BY <1>4, <2>1
  <2> QED
    BY <2>2, <2>3, <2>4, <2>5, <1>1
<1>12. \A x \in Dirs : fin'[x][FirstLink(x)] = fin[x][FirstLink(x)]
  <2>1. \A x \in Dirs : FirstLink(x) \in Links
    BY Directions, LinkEnds DEF Inv
  <2> QED
    BY <2>1, <1>3, <1>4
<1> QED
  BY <1>5, <1>6, <1>7, <1>8, <1>9, <1>10, <1>11, <1>12 DEF Inv

\* The end of the second one closes sockets whose links are empty.
LEMMA LastEndInv ==
  ASSUME Inv, NEW d \in Dirs, NEW h \in Hops, ReadEnd(d, h), done[Other(d)][h]
  PROVE  Inv' /\ Failed' = Failed /\ \A x \in Dirs : fin'[x][FirstLink(x)] = fin[x][FirstLink(x)]
<1>1. /\ h \in Chain /\ hop[h] = "open" /\ cut[h] = "none" /\ ~done[d][h]
      /\ held[d][h] = 0 /\ data[d][In(d, h)] = << >> /\ fin[d][In(d, h)]
      /\ conf' = conf /\ len' = len /\ UNCHANGED appVars
      /\ done' \in [Dirs -> [Hops -> BOOLEAN]]
      /\ \A x \in Dirs, g \in Hops : done'[x][g] <=> done[x][g] \/ (x = d /\ g = h)
      /\ ~Failed => len[d][h] = sent[d] /\ fin[d][FirstLink(d)]
  BY EndFacts
<1>2. EndHop(h, "done") /\ "done" \in Causes \ {"none"}
  BY DEF ReadEnd, Causes
<1>3. /\ Other(d) \in Dirs /\ \A x \in Dirs : x = d \/ x = Other(d)
  BY Directions DEF Inv
<1>4. \A x \in Dirs : /\ done'[x][h] /\ held[x][h] = 0
                      /\ fin[x][In(x, h)] /\ data[x][In(x, h)] = << >>
  BY <1>1, <1>3 DEF Inv, FinishedInv
<1>5. TypeOK' /\ HopsInv' /\ ChunksInv' /\ RunsInv'
  BY <1>1, <1>2, <1>4, EndHopFrame
<1>6. \A g \in Hops : /\ hop'[g] = IF g = h THEN "ended" ELSE hop[g]
                      /\ cut'[g] = IF g = h THEN "done" ELSE cut[g]
  BY <1>2 DEF EndHop, Inv, TypeOK
<1>7. \A x \in Dirs : Other(x) \in Dirs /\ Out(x, h) = In(Other(x), h)
  BY <1>1, Directions, HopLinks DEF Inv
<1>8. \A x \in Dirs, i \in Links :
        /\ fin'[x][i] <=> fin[x][i] \/ i = Out(x, h)
        /\ rst'[x][i] <=> rst[x][i]
        /\ dead'[x][i] <=> dead[x][i] \/ i = In(x, h)
        /\ data'[x][i] = data[x][i]
  <2>1. \A x \in Dirs : data[Other(x)][Out(x, h)] = << >>
    BY <1>4, <1>7
  <2> QED
    BY <2>1, <1>1, <1>2, <1>4, HopCloses DEF EndHop
<1>9. Failed' = Failed
  <2>1. gone' = gone
    BY <1>1 DEF appVars
  <2>2. (\E g \in Hops : cut'[g] \notin {"none", "done"})
           <=> (\E g \in Hops : cut[g] \notin {"none", "done"})
    BY <1>1, <1>6
  <2> QED
    BY <2>1, <2>2 DEF Failed
<1>10. ClosedInv'
  <2> SUFFICES ASSUME NEW x \in Dirs, NEW i \in Between
               PROVE  /\ dead'[x][i] => IF i = LastLink(x) THEN Reader(x) \in gone
                                        ELSE hop'[To(x, i)] = "ended"
                      /\ dead'[x][i] => Failed \/ fin'[x][i]
                      /\ rst'[x][i] => Failed
    BY <1>1, <1>9, SameChain DEF ClosedInv, appVars, To, Reader
  <2>1. i \in Links /\ (i # LastLink(x) => To(x, i) \in Hops)
    BY LinkEnds DEF Inv
  <2>2. In(x, h) # LastLink(x) /\ To(x, In(x, h)) = h
    BY <1>1, HopLinks DEF Inv
  <2>3. /\ dead[x][i] => IF i = LastLink(x) THEN Reader(x) \in gone ELSE hop[To(x, i)] = "ended"
        /\ dead[x][i] => Failed \/ fin[x][i]
        /\ rst[x][i] => Failed
    BY DEF Inv, ClosedInv
  <2> QED
    BY <2>1, <2>2, <2>3, <1>4, <1>6, <1>8
<1>11. FinishedInv'
  <2> SUFFICES ASSUME NEW x \in Dirs, NEW g \in Chain
               PROVE  /\ fin'[x][Out(x, g)] => done'[x][g] \/ hop'[g] = "ended"
                      /\ done'[x][g] => held'[x][g] = 0 /\ fin'[x][In(x, g)]
                                        /\ data'[x][In(x, g)] = << >>
                      /\ done'[x][g] /\ ~Failed => len[x][g] = sent[x] /\ fin'[x][FirstLink(x)]
    BY <1>1, <1>9, SameChain DEF FinishedInv, In, Out, appVars
  <2>1. /\ g \in Hops /\ In(x, g) \in Links /\ Out(x, g) \in Links
        /\ From(x, Out(x, g)) = g /\ From(x, Out(x, h)) = h /\ FirstLink(x) \in Links
    BY <1>1, HopLinks, LinkEnds, Directions DEF Inv
  <2>2. /\ fin[x][Out(x, g)] => done[x][g] \/ hop[g] = "ended"
        /\ done[x][g] => held[x][g] = 0 /\ fin[x][In(x, g)] /\ data[x][In(x, g)] = << >>
        /\ done[x][g] /\ ~Failed => len[x][g] = sent[x] /\ fin[x][FirstLink(x)]
    BY DEF Inv, FinishedInv
  <2>3. fin'[x][Out(x, g)] => fin[x][Out(x, g)] \/ g = h
    BY <1>8, <2>1
  <2>4. done'[x][g] <=> done[x][g] \/ (x = d /\ g = h)
    BY <1>1, <2>1
  <2>5. /\ fin[x][In(x, g)] => fin'[x][In(x, g)]
        /\ fin[x][FirstLink(x)] => fin'[x][FirstLink(x)]
        /\ data'[x][In(x, g)] = data[x][In(x, g)]
    BY <1>8, <2>1
  <2>6. held[x][g] = 0 => held'[x][g] = 0
    BY <1>2, <2>1 DEF EndHop, Inv, TypeOK
  <2>7. hop[g] = "ended" \/ g = h => hop'[g] = "ended"
    BY <1>6, <2>1
  <2> QED
    BY <2>2, <2>3, <2>4, <2>5, <2>6, <2>7, <1>1
<1>12. \A x \in Dirs : fin'[x][FirstLink(x)] = fin[x][FirstLink(x)]
  <2>1. \A x \in Dirs : FirstLink(x) \in Links /\ FirstLink(x) # Out(x, h)
    BY <1>1, HopLinks, Directions, LinkEnds DEF Inv
  <2>2. fin \in [Dirs -> [Links -> BOOLEAN]] /\ fin' \in [Dirs -> [Links -> BOOLEAN]]
    BY <1>5 DEF Inv, TypeOK
  <2> QED
    BY <2>1, <2>2, <1>8
<1> QED
  BY <1>5, <1>9, <1>10, <1>11, <1>12 DEF Inv

-----------------------------------------------------------------------------
(* Steps of the applications *)

\* What a sequence holds.
LEMMA Members ==
  ASSUME NEW S, NEW s \in Seq(S)
  PROVE  \A k \in 1 .. Len(s) : s[k] \in S
OBVIOUS

\* An application writes the next number, and so only to a stream that no hop
\* is done with.
LEMMA AppWriteInv == ASSUME Inv, NEW d \in Dirs, AppWrite(d) PROVE Inv'
<1> DEFINE j == FirstLink(d)
           s == data[d][j]
           e == sent[d] + 1
<1>1. /\ ~fin[d][j] /\ ~dead[d][j] /\ sent[d] < conf.chunks /\ Len(s) < Window
      /\ conf' = conf /\ UNCHANGED <<hopVars, fin, rst, dead, clocks, got, seen, gone>>
  BY DEF AppWrite
<1>2. j \in Between /\ j \in Links
  BY Directions, LinkEnds DEF Inv
<1>3. sent[d] \in Nat /\ Window \in Nat /\ conf.chunks \in Nat /\ e \in 1 .. conf.chunks
  BY <1>1, BoundsAssumption, DeploymentsAssumption DEF Inv, TypeOK
<1>4. s \in Seq(1 .. conf.chunks)
  BY <1>2 DEF Inv, TypeOK
<1>5. /\ Append(s, e) \in Seq(1 .. conf.chunks) /\ Len(s) \in Nat
      /\ Len(Append(s, e)) = Len(s) + 1 /\ Append(s, e)[Len(s) + 1] = e
      /\ \A k \in 1 .. Len(s) : Append(s, e)[k] = s[k]
      /\ \A k \in 1 .. Len(s) + 1 : k \in 1 .. Len(s) \/ k = Len(s) + 1
  <2> HIDE DEF s, e
  <2> QED
    BY <1>3, <1>4, Back
<1>6. /\ \A x \in Dirs, i \in Links :
           data'[x][i] = IF x = d /\ i = j THEN Append(s, e) ELSE data[x][i]
      /\ \A x \in Dirs : sent'[x] = IF x = d THEN e ELSE sent[x]
  BY <1>2 DEF AppWrite, Inv, TypeOK
<1>7. TypeOK'
  <2>1. data' \in [Dirs -> [Links -> Seq(1 .. conf.chunks)]]
    BY <1>2, <1>5 DEF AppWrite, Inv, TypeOK
  <2>2. sent' \in [Dirs -> 0 .. conf.chunks]
    <3>1. e \in 0 .. conf.chunks /\ sent' = [sent EXCEPT ![d] = e]
      BY <1>3 DEF AppWrite
    <3> QED
      BY <3>1 DEF Inv, TypeOK
  <2>3. \A x \in Dirs, i \in Links : Len(data'[x][i]) <= Window
    <3>1. \A x \in Dirs, i \in Links : Len(data[x][i]) <= Window
      BY DEF Inv, TypeOK
    <3>2. Len(Append(s, e)) <= Window
      BY <1>1, <1>3, <1>5
    <3> QED
      BY <3>1, <3>2, <1>6
  <2> QED
    BY <1>1, <2>1, <2>2, <2>3 DEF Inv, TypeOK, hopVars, clocks
<1>8. HopsInv' /\ ClosedInv' /\ Failed' = Failed
  BY <1>1, SameChain DEF Inv, HopsInv, ClosedInv, Failed, hopVars, Reader, To
<1>9. \A x \in Dirs : sent[x] \in Nat /\ sent[x] <= sent'[x]
  <2>1. \A x \in Dirs : sent[x] \in Nat
    BY DeploymentsAssumption DEF Inv, TypeOK
  <2> QED
    BY <2>1, <1>6
<1>10. ChunksInv'
  <2>1. \A x \in Dirs, i \in Links : \A k \in 1 .. Len(data'[x][i]) : data'[x][i][k] <= sent'[x]
    <3> SUFFICES ASSUME NEW x \in Dirs, NEW i \in Links, NEW k \in 1 .. Len(data'[x][i])
                 PROVE  data'[x][i][k] <= sent'[x]
      OBVIOUS
    <3>1. \A m \in 1 .. Len(data[x][i]) : data[x][i][m] \in Nat /\ data[x][i][m] <= sent'[x]
      <4>1. data[x][i] \in Seq(1 .. conf.chunks)
        BY DEF Inv, TypeOK
      <4>2. \A m \in 1 .. Len(data[x][i]) : data[x][i][m] \in 1 .. conf.chunks
        BY <4>1, Members
      <4>3. \A m \in 1 .. Len(data[x][i]) : data[x][i][m] <= sent[x]
        BY DEF Inv, ChunksInv
      <4>4. sent[x] \in Nat /\ sent'[x] \in Nat /\ sent[x] <= sent'[x]
        BY <1>9, <1>6, <1>3
      <4> QED
        BY <4>2, <4>3, <4>4
    <3>2. CASE x = d /\ i = j
      <4>1. data'[x][i] = Append(s, e) /\ sent'[x] = e
        BY <3>2, <1>6
      <4>2. k \in 1 .. Len(s) \/ k = Len(s) + 1
        BY <4>1, <1>5
      <4> QED
        BY <3>1, <3>2, <4>1, <4>2, <1>3, <1>5
    <3>3. CASE ~(x = d /\ i = j)
      BY <3>1, <3>3, <1>6
    <3> QED
      BY <3>2, <3>3
  <2>2. ASSUME NEW x \in Dirs, NEW g \in Hops, held[x][g] # 0
        PROVE  held[x][g] = len[x][g] + 1 /\ held[x][g] <= sent'[x]
    BY <2>2, <1>3, <1>6, <1>9, Counts DEF Inv
  <2> QED
    BY <1>1, <2>1, <2>2 DEF ChunksInv, hopVars
<1>11. RunsInv'
  <2> SUFFICES ASSUME NEW x \in Dirs, NEW i \in Between, ~dead[x][i]
               PROVE  /\ Written(x, i)' = Taken(x, i)' + Len(data'[x][i])
                      /\ \A k \in 1 .. Len(data'[x][i]) : data'[x][i][k] = Taken(x, i)' + k
    BY <1>1, SameChain DEF RunsInv
  <2>1. i \in Links /\ (i # LastLink(x) => To(x, i) \in Hops)
    BY LinkEnds DEF Inv
  <2>2. Taken(x, i)' = Taken(x, i)
    BY <1>1, SameChain DEF Taken, Passing, hopVars
  <2>3. Written(x, i) = Taken(x, i) + Len(data[x][i])
        /\ \A k \in 1 .. Len(data[x][i]) : data[x][i][k] = Taken(x, i) + k
    BY DEF Inv, RunsInv
  <2>4. CASE x = d /\ i = j
    <3>1. Written(x, i) = sent[d] /\ Written(x, i)' = e
      BY <2>4, <1>1, <1>6, SameChain DEF Written
    <3>2. data'[x][i] = Append(s, e) /\ data[x][i] = s
      BY <2>1, <2>4, <1>6
    <3>3. Taken(x, i) \in Nat
      <4>1. i = LastLink(x) => Len(got[x]) \in Nat
        BY DEF Inv, TypeOK
      <4>2. i # LastLink(x) => Passing(x, To(x, i)) \in Nat
        BY <2>1, Counts DEF Inv
      <4> QED
        BY <4>1, <4>2 DEF Taken
    <3>4. sent[d] = Taken(x, i) + Len(s)
      BY <2>3, <3>1, <3>2
    <3>5. e = Taken(x, i) + Len(Append(s, e)) /\ e = Taken(x, i) + (Len(s) + 1)
      <4>1. Len(Append(s, e)) = Len(s) + 1 /\ Len(s) \in Nat
        BY <1>5
      <4> DEFINE b == Append(s, e)
      <4>2. Len(b) = Len(s) + 1
        BY <4>1
      <4> HIDE DEF s, b
      <4>3. e = Taken(x, i) + Len(b) /\ e = Taken(x, i) + (Len(s) + 1)
        BY <1>3, <3>3, <3>4, <4>1, <4>2
      <4> QED
        BY <4>3 DEF b
    <3>6. \A k \in 1 .. Len(Append(s, e)) : Append(s, e)[k] = Taken(x, i) + k
      <4> SUFFICES ASSUME NEW k \in 1 .. Len(Append(s, e)) PROVE Append(s, e)[k] = Taken(x, i) + k
        OBVIOUS
      <4>1. CASE k \in 1 .. Len(s)
        BY <4>1, <1>5, <2>3, <3>2
      <4>2. CASE k = Len(s) + 1
        BY <4>2, <1>5, <3>5
      <4> QED
        BY <4>1, <4>2, <1>5
    <3> HIDE DEF s, e
    <3> QED
      BY <2>2, <3>1, <3>2, <3>5, <3>6
  <2>5. CASE ~(x = d /\ i = j)
    <3>1. Written(x, i)' = Written(x, i)
      <4>1. i = FirstLink(x) => sent'[x] = sent[x]
        BY <2>5, <1>6
      <4> QED
        BY <4>1, <1>1, SameChain DEF Written, hopVars
    <3>2. data'[x][i] = data[x][i]
      BY <2>1, <2>5, <1>6
    <3> QED
      BY <2>2, <2>3, <3>1, <3>2
  <2> QED
    BY <2>4, <2>5
<1>12. FinishedInv'
  <2> SUFFICES ASSUME NEW x \in Dirs, NEW g \in Chain, done[x][g]
               PROVE  /\ data'[x][In(x, g)] = << >>
                      /\ ~Failed => len[x][g] = sent'[x] /\ fin[x][FirstLink(x)]
    BY <1>1, <1>8, SameChain DEF Inv, FinishedInv, In, Out, FirstLink, hopVars
  <2>1. /\ fin[x][In(x, g)] /\ data[x][In(x, g)] = << >>
        /\ ~Failed => len[x][g] = sent[x] /\ fin[x][FirstLink(x)]
    BY DEF Inv, FinishedInv
  <2>2. In(x, g) \in Links
    BY HopLinks, LinkEnds DEF Inv
  <2>3. data'[x][In(x, g)] = data[x][In(x, g)]
    BY <2>1, <2>2, <1>1, <1>6
  <2> QED
    BY <2>1, <2>3, <1>1, <1>6
<1> QED
  BY <1>7, <1>8, <1>10, <1>11, <1>12 DEF Inv

\* An application that finishes shuts down the first link.
LEMMA AppFinishInv == ASSUME Inv, NEW d \in Dirs, AppFinish(d) PROVE Inv'
<1>1. /\ conf' = conf /\ UNCHANGED <<hopVars, data, rst, dead, clocks, appVars>>
      /\ fin' = [fin EXCEPT ![d][FirstLink(d)] = TRUE]
  BY DEF AppFinish
<1>2. \A x \in Dirs, i \in Links :
        fin'[x][i] = IF x = d /\ i = FirstLink(d) THEN TRUE ELSE fin[x][i]
  BY <1>1 DEF Inv, TypeOK
<1>3. TypeOK'
  BY <1>1 DEF Inv, TypeOK, hopVars, clocks, appVars
<1>4. HopsInv' /\ ChunksInv' /\ Failed' = Failed
  BY <1>1, SameChain DEF Inv, HopsInv, ChunksInv, Failed, hopVars, appVars
<1>5. RunsInv'
  <2>1. \A x \in Dirs, i \in Between :
          Written(x, i)' = Written(x, i) /\ Taken(x, i)' = Taken(x, i)
    BY <1>1, SameChain DEF Written, Taken, Passing, hopVars, appVars
  <2> QED
    BY <1>1, <2>1, RunsStay DEF Inv
<1>6. \A x \in Dirs, i \in Between : i \in Links /\ (fin[x][i] => fin'[x][i])
  BY <1>2, LinkEnds DEF Inv
<1>7. ClosedInv'
  BY <1>1, <1>4, <1>6, SameChain DEF Inv, ClosedInv, To, Reader, hopVars, appVars
<1>8. FinishedInv'
  <2>1. \A x \in Dirs, g \in Chain :
          /\ fin'[x][Out(x, g)] => fin[x][Out(x, g)]
          /\ fin[x][In(x, g)] => fin'[x][In(x, g)]
          /\ fin[x][FirstLink(x)] => fin'[x][FirstLink(x)]
    <3> SUFFICES ASSUME NEW x \in Dirs, NEW g \in Chain
                 PROVE  /\ fin'[x][Out(x, g)] => fin[x][Out(x, g)]
                        /\ fin[x][In(x, g)] => fin'[x][In(x, g)]
                        /\ fin[x][FirstLink(x)] => fin'[x][FirstLink(x)]
      OBVIOUS
    <3>1. /\ In(x, g) \in Between /\ Out(x, g) \in Between /\ FirstLink(x) \in Between
          /\ Out(x, g) # FirstLink(x)
      BY HopLinks, Directions DEF Inv
    <3> QED
      BY <3>1, <1>2, <1>6
  <2>2. \A x \in Dirs : FirstLink(x)' = FirstLink(x)
    BY <1>1, SameChain
  <2> QED
    BY <1>1, <1>4, <2>1, <2>2, SameChain DEF Inv, FinishedInv, In, Out, hopVars, appVars
<1> QED
  BY <1>3, <1>4, <1>5, <1>7, <1>8 DEF Inv

\* An application takes the next number, as the pipe does.
LEMMA AppReadInv ==
  ASSUME Inv, NEW d \in Dirs, AppRead(d)
  PROVE  /\ Inv' /\ Failed' = Failed /\ Len(got[d]) < sent[d]
         /\ got' = [got EXCEPT ![d] = Append(@, Len(@) + 1)]
<1> DEFINE j == LastLink(d)
           s == data[d][j]
           t == got[d]
<1>1. /\ Reader(d) \notin gone /\ s # << >> /\ conf' = conf
      /\ UNCHANGED <<hopVars, fin, rst, dead, clocks, sent, seen, gone>>
      /\ got' = [got EXCEPT ![d] = Append(t, Head(s))]
      /\ data' = [data EXCEPT ![d][j] = Tail(s)]
  BY DEF AppRead, Present
<1>2. j \in Between /\ j \in Links /\ ~dead[d][j]
  BY <1>1, Directions, LinkEnds DEF Inv, ClosedInv
<1>3. s \in Seq(1 .. conf.chunks) /\ Len(s) <= Window /\ t \in Seq(1 .. conf.chunks)
  BY <1>2 DEF Inv, TypeOK
<1>4. /\ \A x \in Dirs, i \in Links :
           data'[x][i] = IF x = d /\ i = j THEN Tail(s) ELSE data[x][i]
      /\ \A x \in Dirs : got'[x] = IF x = d THEN Append(t, Head(s)) ELSE got[x]
  BY <1>1, <1>2 DEF Inv, TypeOK
<1>5. /\ Head(s) = s[1] /\ Head(s) \in 1 .. conf.chunks /\ Len(s) \in Nat /\ Len(s) >= 1
      /\ Tail(s) \in Seq(1 .. conf.chunks) /\ Len(Tail(s)) = Len(s) - 1
      /\ \A k \in 1 .. Len(Tail(s)) : Tail(s)[k] = s[k + 1]
  BY <1>1, <1>3, Front
<1>6. /\ Append(t, Head(s)) \in Seq(1 .. conf.chunks) /\ Len(t) \in Nat
      /\ Len(Append(t, Head(s))) = Len(t) + 1
  <2> DEFINE e == Head(s)
  <2>1. e \in 1 .. conf.chunks
    BY <1>5
  <2> HIDE DEF e, t
  <2>2. Append(t, e) \in Seq(1 .. conf.chunks) /\ Len(t) \in Nat /\ Len(Append(t, e)) = Len(t) + 1
    BY <1>3, <2>1, Back
  <2> QED
    BY <2>2 DEF e
<1>7. sent[d] \in Nat /\ Window \in Nat /\ conf.chunks \in Nat
  BY BoundsAssumption, DeploymentsAssumption DEF Inv, TypeOK
<1>8. Taken(d, j) = Len(t) /\ Written(d, j) = Len(t) + Len(s)
      /\ \A k \in 1 .. Len(s) : s[k] = Len(t) + k
  <2>1. Taken(d, j) = Len(t)
    BY DEF Taken
  <2> QED
    BY <2>1, <1>2 DEF Inv, RunsInv
<1>9. Head(s) = Len(t) + 1 /\ Head(s) <= sent[d]
  <2>1. 1 \in 1 .. Len(s)
    BY <1>5
  <2>2. s[1] = Len(t) + 1
    BY <1>8, <2>1
  <2>3. s[1] <= sent[d]
    BY <2>1, <1>2 DEF Inv, ChunksInv
  <2> QED
    BY <1>5, <2>2, <2>3
<1>10. TypeOK'
  <2>1. data' \in [Dirs -> [Links -> Seq(1 .. conf.chunks)]]
    BY <1>1, <1>2, <1>5 DEF Inv, TypeOK
  <2>2. got' \in [Dirs -> Seq(1 .. conf.chunks)]
    BY <1>1, <1>6 DEF Inv, TypeOK
  <2>3. \A x \in Dirs, i \in Links : Len(data'[x][i]) <= Window
    <3>1. \A x \in Dirs, i \in Links : Len(data[x][i]) <= Window
      BY DEF Inv, TypeOK
    <3>2. Len(Tail(s)) <= Window
      BY <1>3, <1>5, <1>7
    <3> QED
      BY <3>1, <3>2, <1>4
  <2> QED
    BY <1>1, <2>1, <2>2, <2>3 DEF Inv, TypeOK, hopVars, clocks
<1>11. HopsInv' /\ ClosedInv' /\ Failed' = Failed
  BY <1>1, SameChain DEF Inv, HopsInv, ClosedInv, Failed, hopVars, Reader, To
<1>12. ChunksInv'
  <2>1. \A x \in Dirs, i \in Links : \A k \in 1 .. Len(data'[x][i]) : data'[x][i][k] <= sent[x]
    <3> SUFFICES ASSUME NEW x \in Dirs, NEW i \in Links, NEW k \in 1 .. Len(data'[x][i])
                 PROVE  data'[x][i][k] <= sent[x]
      OBVIOUS
    <3>1. CASE x = d /\ i = j
      <4>1. data'[x][i] = Tail(s)
        BY <3>1, <1>4
      <4>2. k \in 1 .. Len(Tail(s)) /\ k + 1 \in 1 .. Len(s)
        BY <4>1, <1>5
      <4>3. s[k + 1] <= sent[d]
        BY <4>2, <1>2 DEF Inv, ChunksInv
      <4> QED
        BY <3>1, <4>1, <4>2, <4>3, <1>5
    <3>2. CASE ~(x = d /\ i = j)
      BY <3>2, <1>4 DEF Inv, ChunksInv
    <3> QED
      BY <3>1, <3>2
  <2> QED
    BY <1>1, <2>1 DEF Inv, ChunksInv, hopVars
<1>13. RunsInv'
  <2> SUFFICES ASSUME NEW x \in Dirs, NEW i \in Between, ~dead[x][i]
               PROVE  /\ Written(x, i)' = Taken(x, i)' + Len(data'[x][i])
                      /\ \A k \in 1 .. Len(data'[x][i]) : data'[x][i][k] = Taken(x, i)' + k
    BY <1>1, SameChain DEF RunsInv
  <2>1. i \in Links
    BY LinkEnds DEF Inv
  <2>2. Written(x, i)' = Written(x, i)
    BY <1>1, SameChain DEF Written, hopVars
  <2>3. CASE x = d /\ i = j
    <3>1. Taken(x, i)' = Len(t) + 1
      <4>1. Taken(x, i)' = Len(got'[d])
        BY <2>3, <1>1, SameChain
      <4>2. got'[d] = Append(t, Head(s))
        BY <1>4
      <4> QED
        BY <4>1, <4>2, <1>6
    <3>2. data'[x][i] = Tail(s)
      BY <2>1, <2>3, <1>4
    <3>3. \A k \in 1 .. Len(Tail(s)) : Tail(s)[k] = Len(t) + 1 + k
      <4> SUFFICES ASSUME NEW k \in 1 .. Len(Tail(s)) PROVE Tail(s)[k] = Len(t) + 1 + k
        OBVIOUS
      <4>1. k + 1 \in 1 .. Len(s) /\ Tail(s)[k] = s[k + 1] /\ k \in Nat
        BY <1>5
      <4>2. s[k + 1] = Len(t) + (k + 1)
        BY <4>1, <1>8
      <4> HIDE DEF t, s
      <4> QED
        BY <4>1, <4>2, <1>6
    <3>4. Written(x, i)' = (Len(t) + 1) + Len(Tail(s))
      <4>1. Len(s) \in Nat /\ Len(Tail(s)) = Len(s) - 1 /\ Len(t) \in Nat
        BY <1>5, <1>6
      <4>2. Written(x, i)' = Len(t) + Len(s)
        BY <2>2, <2>3, <1>8
      <4>3. ASSUME NEW a \in Nat, NEW b \in Nat, NEW c, c = b - 1 PROVE a + b = (a + 1) + c
        BY <4>3
      <4>4. Len(t) + Len(s) = (Len(t) + 1) + Len(Tail(s))
        BY <4>1, <4>3
      <4> QED
        BY <4>2, <4>4
    <3> HIDE DEF s, t
    <3> QED
      BY <3>1, <3>2, <3>3, <3>4
  <2>4. CASE ~(x = d /\ i = j)
    <3>1. Taken(x, i)' = Taken(x, i)
      <4>1. CASE i = LastLink(x)
        <5>1. got'[x] = got[x]
          BY <2>4, <4>1, <1>4
        <5>2. Taken(x, i)' = Len(got'[x]) /\ Taken(x, i) = Len(got[x])
          BY <4>1, <1>1, SameChain DEF Taken
        <5> QED
          BY <5>1, <5>2
      <4>2. CASE i # LastLink(x)
        BY <4>2, <1>1, SameChain DEF Taken, Passing, hopVars
      <4> QED
        BY <4>1, <4>2
    <3>2. data'[x][i] = data[x][i]
      BY <2>1, <2>4, <1>4
    <3> QED
      BY <2>2, <3>1, <3>2 DEF Inv, RunsInv
  <2> QED
    BY <2>3, <2>4
<1>14. FinishedInv'
  <2>1. \A x \in Dirs, g \in Chain : data'[x][In(x, g)] = data[x][In(x, g)]
    <3> SUFFICES ASSUME NEW x \in Dirs, NEW g \in Chain
                 PROVE  data'[x][In(x, g)] = data[x][In(x, g)]
      OBVIOUS
    <3>1. In(x, g) \in Links /\ In(x, g) # LastLink(x)
      BY HopLinks, LinkEnds DEF Inv
    <3> QED
      BY <3>1, <1>4
  <2>2. \A x \in Dirs : FirstLink(x)' = FirstLink(x)
    BY <1>1, SameChain
  <2> QED
    BY <1>1, <1>11, <2>1, <2>2, SameChain DEF Inv, FinishedInv, In, Out, hopVars
<1>15. Len(got[d]) < sent[d] /\ got' = [got EXCEPT ![d] = Append(@, Len(@) + 1)]
  <2>1. ASSUME NEW a \in Nat, a + 1 <= sent[d] PROVE a < sent[d]
    BY <2>1, <1>7
  <2>2. Len(t) + 1 <= sent[d]
    BY <1>9
  <2>3. Len(t) < sent[d]
    BY <2>1, <2>2, <1>6
  <2>4. got' = [got EXCEPT ![d] = Append(t, Len(t) + 1)]
    BY <1>1, <1>9
  <2> QED
    BY <2>3, <2>4
<1> QED
  BY <1>10, <1>11, <1>12, <1>13, <1>14, <1>15 DEF Inv

\* An application that breaks off closes the first link one way and the last
\* link the other way.
LEMMA AppCloses ==
  ASSUME Inv, NEW e \in Ends, CloseSockets(SocketsOfApp(e))
  PROVE  \A x \in Dirs, i \in Links :
           /\ fin[x][i] => fin'[x][i]
           /\ fin'[x][i] => fin[x][i] \/ (i = FirstLink(x) /\ Writer(x) = e)
           /\ dead'[x][i] => dead[x][i] \/ (i = LastLink(x) /\ Reader(x) = e)
           /\ dead[x][i] => dead'[x][i]
           /\ data'[x][i] = IF i = LastLink(x) /\ Reader(x) = e THEN << >> ELSE data[x][i]
           /\ ~dead'[x][i] => data'[x][i] = data[x][i]
<1> SUFFICES ASSUME NEW x \in Dirs, NEW i \in Links
             PROVE  /\ fin[x][i] => fin'[x][i]
                    /\ fin'[x][i] => fin[x][i] \/ (i = FirstLink(x) /\ Writer(x) = e)
                    /\ dead'[x][i] => dead[x][i] \/ (i = LastLink(x) /\ Reader(x) = e)
                    /\ dead[x][i] => dead'[x][i]
                    /\ data'[x][i] = IF i = LastLink(x) /\ Reader(x) = e THEN << >> ELSE data[x][i]
                    /\ ~dead'[x][i] => data'[x][i] = data[x][i]
  OBVIOUS
<1>1. \A y \in Dirs : <<y, i>> \in SocketsOfApp(e) <=> i = FirstLink(y) /\ Writer(y) = e
  BY DEF SocketsOfApp
<1>2. Other(x) \in Dirs /\ FirstLink(Other(x)) = LastLink(x) /\ Writer(Other(x)) = Reader(x)
  BY Directions DEF Inv, Writer, Reader, Other
<1>3. <<Other(x), i>> \in SocketsOfApp(e) <=> i = LastLink(x) /\ Reader(x) = e
  BY <1>1, <1>2
<1>4. <<x, i>> \in SocketsOfApp(e) <=> i = FirstLink(x) /\ Writer(x) = e
  BY <1>1
<1>5. /\ fin'[x][i] = (fin[x][i] \/ (<<x, i>> \in SocketsOfApp(e) /\ ~Unread(x, i)))
      /\ dead'[x][i] = (dead[x][i] \/ <<Other(x), i>> \in SocketsOfApp(e))
      /\ data'[x][i] = IF <<Other(x), i>> \in SocketsOfApp(e) THEN << >> ELSE data[x][i]
  BY DEF CloseSockets
<1> QED
  BY <1>3, <1>4, <1>5

\* An application that breaks off fails the tunnel.
LEMMA BreakOffInv ==
  ASSUME Inv, NEW e \in Ends, BreakOff(e)
  PROVE  /\ Inv' /\ Failed' /\ (\A x \in Dirs : fin[x][FirstLink(x)] => fin'[x][FirstLink(x)])
         /\ UNCHANGED <<conf, sent, got, seen>> /\ gone \subseteq gone'
<1>1. /\ gone' = gone \cup {e} /\ CloseSockets(SocketsOfApp(e)) /\ conf' = conf
      /\ UNCHANGED <<hopVars, clocks, sent, got, seen>>
  BY DEF BreakOff
<1>2. Failed'
  BY <1>1 DEF Failed
<1>3. TypeOK'
  BY <1>1, CloseTypes DEF Inv, TypeOK, hopVars, clocks
<1>4. \A x \in Dirs, i \in Links :
           /\ fin[x][i] => fin'[x][i]
           /\ fin'[x][i] => fin[x][i] \/ (i = FirstLink(x) /\ Writer(x) = e)
           /\ dead'[x][i] => dead[x][i] \/ (i = LastLink(x) /\ Reader(x) = e)
           /\ dead[x][i] => dead'[x][i]
           /\ data'[x][i] = IF i = LastLink(x) /\ Reader(x) = e THEN << >> ELSE data[x][i]
           /\ ~dead'[x][i] => data'[x][i] = data[x][i]
  BY <1>1, AppCloses
<1>5. HopsInv'
  BY <1>1, SameChain DEF Inv, HopsInv, hopVars
<1>6. ChunksInv'
  <2>1. \A x \in Dirs, i \in Links : data'[x][i] \in {data[x][i], << >>}
    BY <1>1, CloseTypes DEF Inv
  <2> QED
    BY <1>1, <2>1 DEF Inv, ChunksInv, hopVars
<1>7. RunsInv'
  <2>1. \A x \in Dirs, i \in Between :
          i \in Links /\ Written(x, i)' = Written(x, i) /\ Taken(x, i)' = Taken(x, i)
    BY <1>1, LinkEnds, SameChain DEF Inv, Written, Taken, Passing, hopVars
  <2> QED
    BY <1>1, <1>4, <2>1, RunsStay DEF Inv
<1>8. ClosedInv'
  <2> SUFFICES ASSUME NEW x \in Dirs, NEW i \in Between, dead'[x][i]
               PROVE  IF i = LastLink(x) THEN Reader(x) \in gone' ELSE hop[To(x, i)] = "ended"
    BY <1>1, <1>2, SameChain DEF ClosedInv, To, Reader, hopVars
  <2>1. i \in Links
    BY LinkEnds DEF Inv
  <2>2. CASE dead[x][i]
    BY <2>2, <1>1 DEF Inv, ClosedInv
  <2>3. CASE i = LastLink(x) /\ Reader(x) = e
    BY <2>3, <1>1
  <2> QED
    BY <2>1, <2>2, <2>3, <1>4
<1>9. FinishedInv'
  <2> SUFFICES ASSUME NEW x \in Dirs, NEW g \in Chain
               PROVE  /\ fin'[x][Out(x, g)] => done[x][g] \/ hop[g] = "ended"
                      /\ done[x][g] => held[x][g] = 0 /\ fin'[x][In(x, g)]
                                       /\ data'[x][In(x, g)] = << >>
    BY <1>1, <1>2, SameChain DEF FinishedInv, In, Out, hopVars
  <2>1. /\ In(x, g) \in Links /\ Out(x, g) \in Links
        /\ In(x, g) # LastLink(x) /\ Out(x, g) # FirstLink(x)
    BY HopLinks, LinkEnds DEF Inv
  <2>2. /\ fin[x][Out(x, g)] => done[x][g] \/ hop[g] = "ended"
        /\ done[x][g] => held[x][g] = 0 /\ fin[x][In(x, g)] /\ data[x][In(x, g)] = << >>
    BY DEF Inv, FinishedInv
  <2> QED
    BY <2>1, <2>2, <1>4
<1>10. \A x \in Dirs : fin[x][FirstLink(x)] => fin'[x][FirstLink(x)]
  BY <1>4, Directions, LinkEnds DEF Inv
<1> QED
  BY <1>1, <1>2, <1>3, <1>5, <1>6, <1>7, <1>8, <1>9, <1>10 DEF Inv

-----------------------------------------------------------------------------
(* Steps of the pipe *)

\* What a step does to the state the applications can see.
LEMMA PipeState ==
  ASSUME conf' = conf
  PROVE  /\ Closed' = [d \in Dirs |-> fin'[d][FirstLink(d)] \/ Writer(d) \in gone']
         /\ Ended' = [d \in Dirs |-> seen'[d] # "open"]
<1>1. \A d \in Dirs : FirstLink(d)' = FirstLink(d)
  BY SameChain
<1> QED
  BY <1>1 DEF Closed, Ended, Writer

\* A step of a hop is nothing to the applications, unless it fails the tunnel.
LEMMA PipeStutters ==
  ASSUME UNCHANGED <<conf, appVars>>, Failed' = Failed,
         \A d \in Dirs : fin'[d][FirstLink(d)] = fin[d][FirstLink(d)]
  PROVE  UNCHANGED Pipe!vars
<1>1. sent' = sent /\ got' = got /\ seen' = seen /\ gone' = gone /\ conf' = conf
  BY DEF appVars
<1>2. Closed' = Closed /\ Ended' = Ended
  BY <1>1, PipeState DEF Closed, Ended
<1> QED
  BY <1>1, <1>2 DEF Pipe!vars, Closed, Ended, Failed

\* A step after which the tunnel has failed is the pipe's failure.
LEMMA PipeFails ==
  ASSUME UNCHANGED <<conf, sent, got, seen>>, Failed', gone \subseteq gone',
         \A d \in Dirs : fin[d][FirstLink(d)] => fin'[d][FirstLink(d)]
  PROVE  Pipe!Next
<1>1. Ended' = Ended /\ \A d \in Dirs : Closed[d] => Closed'[d]
  BY PipeState DEF Closed, Ended
<1>2. Pipe!Fail
  BY <1>1 DEF Pipe!Fail, Closed, Ended, Failed
<1> QED
  BY <1>2 DEF Pipe!Next

\* Every step of the chain is a step of the pipe, or none.
LEMMA HopStepInv ==
  ASSUME Inv, NEW h \in Hops, HopStep(h) \/ Cancelled(h)
  PROVE  Inv' /\ (Pipe!Next \/ UNCHANGED Pipe!vars)
<1>1. ASSUME \/ RefusedByService(h) \/ TunnelIdle(h) \/ HalfCloseIdle(h) \/ Cancelled(h)
             \/ \E d \in Dirs : WriteFails(d, h) \/ FrameEnd(d, h) \/ DatagramEnd(d, h)
                                \/ ReadFails(d, h)
      PROVE  Inv' /\ Pipe!Next
  <2>1. /\ Inv' /\ Failed' /\ (\A x \in Dirs : fin[x][FirstLink(x)] => fin'[x][FirstLink(x)])
        /\ UNCHANGED <<conf, appVars>>
    BY <1>1, FailureInv
  <2> QED
    BY <2>1, PipeFails DEF appVars
<1>2. ASSUME NEW role, Forwards(h, role)
      PROVE  Inv' /\ UNCHANGED Pipe!vars
  <2>1. UNCHANGED <<conf, appVars>> /\ cut' = cut /\ fin' = fin
    BY <1>2 DEF Forwards, linkVars
  <2>2. Failed' = Failed
    BY <2>1 DEF Failed, appVars
  <2> QED
    BY <1>2, <2>1, <2>2, ForwardsInv, PipeStutters
<1>3. ASSUME NEW d \in Dirs, ReadChunk(d, h) \/ WriteChunk(d, h) \/ WriteVanishes(d, h)
      PROVE  Inv' /\ UNCHANGED Pipe!vars
  <2>1. UNCHANGED <<conf, appVars>> /\ cut' = cut /\ fin' = fin
    BY <1>3 DEF ReadChunk, WriteChunk, WriteVanishes
  <2>2. Failed' = Failed
    BY <2>1 DEF Failed, appVars
  <2> QED
    BY <1>3, <2>1, <2>2, ReadChunkInv, WriteChunkInv, WriteVanishesInv, PipeStutters
<1>4. ASSUME NEW d \in Dirs, ReadEnd(d, h)
      PROVE  Inv' /\ UNCHANGED Pipe!vars
  <2>1. Inv' /\ Failed' = Failed /\ \A x \in Dirs : fin'[x][FirstLink(x)] = fin[x][FirstLink(x)]
    BY <1>4, FirstEndInv, LastEndInv
  <2>2. UNCHANGED <<conf, appVars>>
    BY <1>4 DEF ReadEnd
  <2> QED
    BY <2>1, <2>2, PipeStutters
<1>5. CASE Cancelled(h)
  BY <1>1, <1>5
<1>6. CASE HopStep(h)
  BY <1>1, <1>2, <1>3, <1>4, <1>6
     DEF HopStep, CopyStep, RelayForwards, LocalClientForwards, LocalServerForwards
<1> QED
  BY <1>5, <1>6

\* Steps of the applications are the pipe's own.
LEMMA AppStepInv ==
  ASSUME Inv, NEW d \in Dirs, AppWrite(d) \/ AppFinish(d) \/ Reading(d)
  PROVE  Inv' /\ (Pipe!Next \/ UNCHANGED Pipe!vars)
<1>1. CASE AppWrite(d)
  <2>1. /\ ~Closed[d] /\ conf' = conf /\ sent' = [sent EXCEPT ![d] = @ + 1]
        /\ UNCHANGED <<got, seen, gone, fin, cut>>
    BY <1>1 DEF AppWrite, Present, Closed, hopVars
  <2>2. Closed' = Closed /\ Ended' = Ended /\ Failed' = Failed
    BY <2>1, PipeState DEF Closed, Ended, Failed
  <2>3. Pipe!Write(d)
    BY <2>1, <2>2 DEF Pipe!Write, Closed, Ended, Failed
  <2> QED
    BY <1>1, <2>3, AppWriteInv DEF Pipe!Next
<1>2. CASE AppFinish(d)
  <2>1. /\ ~Closed[d] /\ conf' = conf /\ fin' = [fin EXCEPT ![d][FirstLink(d)] = TRUE]
        /\ UNCHANGED <<sent, got, seen, gone, cut>>
    BY <1>2 DEF AppFinish, Present, Closed, hopVars, appVars
  <2>2. Ended' = Ended /\ Failed' = Failed
    BY <2>1, PipeState DEF Ended, Failed
  <2>3. Closed' = [Closed EXCEPT ![d] = TRUE]
    <3>1. \A x \in Dirs : fin'[x][FirstLink(x)] = IF x = d THEN TRUE ELSE fin[x][FirstLink(x)]
      <4>1. \A x \in Dirs : FirstLink(x) \in Links
        BY Directions, LinkEnds DEF Inv
      <4>2. fin \in [Dirs -> [Links -> BOOLEAN]]
        BY DEF Inv, TypeOK
      <4> QED
        BY <2>1, <4>1, <4>2
    <3>2. Closed' = [x \in Dirs |-> IF x = d THEN TRUE ELSE Closed[x]]
      BY <2>1, <3>1, PipeState DEF Closed
    <3> QED
      BY <3>2 DEF Closed
  <2>4. Pipe!Close(d)
    BY <2>1, <2>2, <2>3 DEF Pipe!Close, Closed, Ended, Failed
  <2> QED
    BY <1>2, <2>4, AppFinishInv DEF Pipe!Next
<1>3. CASE AppRead(d)
  <2>1. /\ Inv' /\ Failed' = Failed /\ Len(got[d]) < sent[d]
        /\ got' = [got EXCEPT ![d] = Append(@, Len(@) + 1)]
    BY <1>3, AppReadInv
  <2>2. ~Ended[d] /\ conf' = conf /\ UNCHANGED <<sent, seen, gone, fin>>
    BY <1>3 DEF AppRead, Ended
  <2>3. Closed' = Closed /\ Ended' = Ended
    BY <2>2, PipeState DEF Closed, Ended
  <2>4. Pipe!Take(d)
    BY <2>1, <2>2, <2>3 DEF Pipe!Take, Closed, Ended, Failed
  <2> QED
    BY <2>1, <2>4 DEF Pipe!Next
<1>4. CASE AppEnd(d)
  <2>1. /\ ~Ended[d] /\ conf' = conf /\ UNCHANGED <<sent, got, gone, fin, cut>>
        /\ \/ data[d][LastLink(d)] = << >> /\ fin[d][LastLink(d)] /\ seen' = [seen EXCEPT ![d] = "end"]
           \/ rst[d][LastLink(d)] /\ seen' = [seen EXCEPT ![d] = "reset"]
        /\ Reader(d) \notin gone
    BY <1>4 DEF AppEnd, Present, Ended, hopVars, linkVars
  <2>2. Closed' = Closed /\ Failed' = Failed
    BY <2>1, PipeState DEF Closed, Failed
  <2>3. Ended' = [Ended EXCEPT ![d] = TRUE]
    <3>1. \A x \in Dirs : seen'[x] # "open" <=> x = d \/ seen[x] # "open"
      BY <2>1 DEF Inv, TypeOK
    <3>2. Ended' = [x \in Dirs |-> IF x = d THEN TRUE ELSE Ended[x]]
      BY <2>1, <3>1, PipeState DEF Ended
    <3> QED
      BY <3>2 DEF Ended
  <2>4. Failed \/ (Closed[d] /\ Len(got[d]) = sent[d])
    <3>1. /\ LastLink(d) \in Between /\ LastLink(d) # FirstLink(d) /\ ~dead[d][LastLink(d)]
          /\ Taken(d, LastLink(d)) = Len(got[d])
      BY <2>1, Directions DEF Inv, ClosedInv, Taken
    <3>2. CASE rst[d][LastLink(d)]
      BY <3>1, <3>2 DEF Inv, ClosedInv
    <3>3. CASE data[d][LastLink(d)] = << >> /\ fin[d][LastLink(d)]
      BY <3>1, <3>3, AllPassedOn DEF Closed
    <3> QED
      BY <2>1, <3>2, <3>3
  <2>5. Pipe!End(d)
    BY <2>1, <2>2, <2>3, <2>4 DEF Pipe!End, Closed, Ended, Failed
  <2> QED
    BY <1>4, <2>5, AppEndInv DEF Pipe!Next
<1> QED
  BY <1>1, <1>2, <1>3, <1>4 DEF Reading

\* Every step of the tunnel keeps the invariant and is one of the pipe, or none.
LEMMA StepInv ==
  ASSUME Inv, [Next]_vars
  PROVE  Inv' /\ (Pipe!Next \/ UNCHANGED Pipe!vars)
<1>1. CASE Tick
  <2>1. UNCHANGED <<conf, appVars>> /\ cut' = cut /\ fin' = fin
    BY <1>1 DEF Tick, hopVars, linkVars
  <2>2. Failed' = Failed
    BY <2>1 DEF Failed, appVars
  <2> QED
    BY <1>1, <2>1, <2>2, TickInv, PipeStutters
<1>2. CASE \E h \in Hops : HopStep(h) \/ Cancelled(h)
  BY <1>2, HopStepInv
<1>3. CASE \E d \in Dirs : AppWrite(d) \/ AppFinish(d) \/ Reading(d)
  BY <1>3, AppStepInv
<1>4. CASE \E e \in Ends : BreakOff(e)
  BY <1>4, BreakOffInv, PipeFails
<1>5. CASE UNCHANGED vars
  <2>1. UNCHANGED <<conf, appVars>> /\ cut' = cut /\ fin' = fin /\ UNCHANGED <<hopVars, linkVars>>
        /\ UNCHANGED <<tun, half, quiet>> /\ seen' = seen
    BY <1>5 DEF vars, hopVars, linkVars, clocks, appVars
  <2>2. Failed' = Failed
    BY <2>1 DEF Failed, appVars
  <2>3. Inv'
    BY <2>1, QuietStep DEF appVars, Inv, TypeOK
  <2> QED
    BY <2>1, <2>2, <2>3, PipeStutters
<1> QED
  BY <1>1, <1>2, <1>3, <1>4, <1>5 DEF Next

-----------------------------------------------------------------------------
(* The theorems *)

(* The counts of chunks and the ends of streams are always as the invariant
   says: what is in flight on a link is what its writer has written and its
   reader has not taken, whatever hops, timers and applications do
   (copy_with_activity and the select loop of forward.rs).                    *)
THEOREM Invariance == Spec => []Inv
<1>1. Inv /\ [Next]_vars => Inv'
  BY StepInv
<1> QED
  BY InitInv, <1>1, PTL DEF Spec

(* Every variable of the chain keeps its type, and no link ever holds more
   than its window, in a deployment of any size.                              *)
THEOREM TypeCorrect == Spec => []TypeOK
<1>1. Inv => TypeOK
  BY DEF Inv
<1> QED
  BY <1>1, Invariance, PTL

(* The chain of hops implements the byte pipe: whatever the hops, the timers
   and the faults, an application takes what the other one wrote, in order and
   without a gap, and is told of an end only when it has everything or the
   tunnel has failed.  The code: two copy futures per hop, kept across the
   iterations of the select loop, and the shutdown that passes an end on
   (start_forward_with_config in forward.rs).                                 *)
THEOREM Implements == Spec => ImplementsPipe
<1>1. Init => Pipe!Init
  <2> SUFFICES ASSUME Init PROVE Pipe!Init
    OBVIOUS
  <2>1. ~Failed
    BY DEF Init, Failed
  <2>2. Closed = [d \in Dirs |-> FALSE]
    <3>1. \A d \in Dirs : FirstLink(d) \in Links
      BY InitInv, Directions, LinkEnds DEF Inv
    <3> QED
      BY <3>1 DEF Init, Closed
  <2>3. Ended = [d \in Dirs |-> FALSE]
    BY DEF Init, Ended
  <2>4. sent = [d \in Dirs |-> 0] /\ got = [d \in Dirs |-> << >>]
    BY DEF Init
  <2> QED
    BY <2>1, <2>2, <2>3, <2>4 DEF Pipe!Init, Closed, Ended, Failed
<1>2. Inv /\ [Next]_vars => [Pipe!Next]_Pipe!vars
  BY StepInv
<1> QED
  BY <1>1, <1>2, Invariance, PTL DEF Spec, ImplementsPipe, Pipe!SafeSpec

-----------------------------------------------------------------------------
(* The timers *)

\* The timer that applies was set no earlier than the hop was last active.
ClocksInv ==
  \A h \in Hops : /\ ~HalfClosed(h) => tun[h] <= quiet[h]
                  /\ HalfClosed(h) => half[h] <= quiet[h]

ClockTypes ==
  /\ tun \in [Hops -> Nat] /\ half \in [Hops -> Nat] /\ quiet \in [Hops -> Nat]
  /\ conf.tunnelIdle \in Nat /\ conf.halfIdle \in Nat
  /\ done \in [Dirs -> [Hops -> BOOLEAN]] /\ cut \in [Hops -> Causes]

\* What the timers need of the types.
LEMMA Clocks == TypeOK => ClockTypes
BY DeploymentsAssumption DEF TypeOK, ClockTypes

\* A hop that ends has its timers set back.
LEMMA EndHopClocks ==
  ASSUME ClockTypes, ClocksInv, NEW h \in Hops, NEW why, EndHop(h, why),
         \A g \in Hops \ {h} : HalfClosed(g)' = HalfClosed(g)
  PROVE  ClocksInv'
<1>1. \A g \in Hops : /\ tun'[g] = IF g = h THEN 0 ELSE tun[g]
                      /\ half'[g] = IF g = h THEN 0 ELSE half[g]
                      /\ quiet'[g] = IF g = h THEN 0 ELSE quiet[g]
  BY DEF EndHop, ClockTypes
<1> QED
  BY <1>1 DEF ClocksInv

\* A write sets back the timers of both states that apply.
LEMMA ActivityClocks ==
  ASSUME ClockTypes, ClocksInv, NEW d \in Dirs, NEW h \in Hops,
         ~done[d][h], done' = done, RecordActivity(d, h)
  PROVE  ClocksInv'
<1>1. \A g \in Hops : /\ tun'[g] = IF g = h THEN 0 ELSE tun[g]
                      /\ quiet'[g] = IF g = h THEN 0 ELSE quiet[g]
                      /\ half'[g] = IF g = h /\ done[Other(d)][h] THEN 0 ELSE half[g]
  BY DEF RecordActivity, ClockTypes
<1>2. HalfClosed(h) => done[Other(d)][h]
  BY DEF HalfClosed, Dirs, Other, ClockTypes
<1>3. \A g \in Hops : HalfClosed(g)' = HalfClosed(g)
  BY DEF HalfClosed
<1> QED
  BY <1>1, <1>2, <1>3 DEF ClocksInv

\* Time passes for all the timers, and the longest of them goes on longest.
LEMMA TickClocks == ASSUME ClockTypes, ClocksInv, Tick PROVE ClocksInv'
<1>1. /\ Longest \in Nat /\ conf.tunnelIdle <= Longest /\ conf.halfIdle <= Longest
  BY DEF ClockTypes, Longest
<1>2. ASSUME NEW clock \in [Hops -> Nat], NEW limit \in Nat, limit <= Longest,
             NEW h \in Hops, clock[h] <= quiet[h]
      PROVE  Aged(clock, limit)[h] <= Aged(quiet, Longest)[h]
  BY <1>1, <1>2 DEF Aged, ClockTypes
<1>3. /\ tun' = Aged(tun, conf.tunnelIdle) /\ half' = Aged(half, conf.halfIdle)
      /\ quiet' = Aged(quiet, Longest)
      /\ \A g \in Hops : HalfClosed(g)' = HalfClosed(g)
  BY DEF Tick, hopVars, HalfClosed
<1> QED
  BY <1>1, <1>2, <1>3 DEF ClocksInv, ClockTypes

\* The end of the first direction sets the timer of the half-closed state.
LEMMA ReadEndClocks ==
  ASSUME ClockTypes, ClocksInv, NEW d \in Dirs, NEW h \in Hops, ReadEnd(d, h)
  PROVE  ClocksInv'
<1>1. /\ done' = [done EXCEPT ![d][h] = TRUE] /\ ~done[d][h]
      /\ \A g \in Hops \ {h} : HalfClosed(g)' = HalfClosed(g)
  BY DEF ReadEnd, AtEnd, Copying, HalfClosed, ClockTypes, Dirs
<1>2. CASE done[Other(d)][h]
  BY <1>1, <1>2, EndHopClocks DEF ReadEnd
<1>3. CASE ~done[Other(d)][h]
  <2>1. HalfClosed(h)'
    BY <1>1, <1>3 DEF HalfClosed, ClockTypes, Dirs, Other
  <2>2. /\ tun' = tun
        /\ \A g \in Hops : /\ half'[g] = IF g = h THEN 0 ELSE half[g]
                           /\ quiet'[g] = IF g = h THEN 0 ELSE quiet[g]
    BY <1>3 DEF ReadEnd, ClockTypes
  <2> QED
    BY <1>1, <2>1, <2>2 DEF ClocksInv
<1> QED
  BY <1>2, <1>3

\* The steps that set neither a timer nor the state of a copy.
LEMMA OtherClocks ==
  ASSUME ClocksInv, UNCHANGED <<clocks, done>>
  PROVE  ClocksInv'
BY DEF ClocksInv, clocks, HalfClosed

\* Every step keeps the timers of a hop behind its last activity.
LEMMA StepClocks ==
  ASSUME ClockTypes, ClocksInv, [Next]_vars
  PROVE  ClocksInv'
<1>1. ASSUME NEW h \in Hops, HopStep(h) \/ Cancelled(h) PROVE ClocksInv'
  <2>1. ASSUME NEW why, EndHop(h, why), done' = done PROVE ClocksInv'
    BY <2>1, EndHopClocks DEF HalfClosed
  <2>2. CASE RefusedByService(h) \/ TunnelIdle(h) \/ HalfCloseIdle(h) \/ Cancelled(h)
    BY <2>1, <2>2 DEF RefusedByService, TunnelIdle, HalfCloseIdle, Cancelled
  <2>3. CASE RelayForwards(h) \/ LocalClientForwards(h) \/ LocalServerForwards(h)
    BY <2>3, OtherClocks DEF RelayForwards, LocalClientForwards, LocalServerForwards, Forwards
  <2>4. ASSUME NEW d \in Dirs, CopyStep(d, h) PROVE ClocksInv'
    <3>1. CASE ReadChunk(d, h)
      BY <3>1, OtherClocks DEF ReadChunk
    <3>2. CASE WriteChunk(d, h) \/ WriteVanishes(d, h)
      BY <3>2, ActivityClocks DEF WriteChunk, WriteVanishes, Copying
    <3>3. CASE WriteFails(d, h) \/ FrameEnd(d, h) \/ DatagramEnd(d, h) \/ ReadFails(d, h)
      BY <3>3, <2>1 DEF WriteFails, FrameEnd, DatagramEnd, ReadFails
    <3>4. CASE ReadEnd(d, h)
      BY <3>4, ReadEndClocks
    <3> QED
      BY <2>4, <3>1, <3>2, <3>3, <3>4 DEF CopyStep
  <2> QED
    BY <1>1, <2>2, <2>3, <2>4 DEF HopStep
<1>2. ASSUME NEW d \in Dirs, AppWrite(d) \/ AppFinish(d) \/ Reading(d) PROVE ClocksInv'
  BY <1>2, OtherClocks DEF AppWrite, AppFinish, Reading, AppRead, AppEnd, hopVars
<1>3. ASSUME NEW e \in Ends, BreakOff(e) PROVE ClocksInv'
  BY <1>3, OtherClocks DEF BreakOff, hopVars
<1>4. CASE UNCHANGED vars
  BY <1>4, OtherClocks DEF vars, hopVars
<1> QED
  BY <1>1, <1>2, <1>3, <1>4, TickClocks DEF Next

\* What a timer's cut takes.
LEMMA TimersCut ==
  ASSUME ClockTypes, ClocksInv, [Next]_vars, NEW h \in Hops, cut[h] = "none"
  PROVE  /\ cut'[h] = "idle" => quiet[h] >= conf.tunnelIdle
         /\ cut'[h] = "half_idle" => quiet[h] >= conf.halfIdle
<1> USE DEF ClockTypes
<1>1. ASSUME NEW g \in Hops, HopStep(g) \/ Cancelled(g)
      PROVE  \/ cut'[h] \notin {"idle", "half_idle"}
             \/ TunnelIdle(h) /\ cut'[h] = "idle"
             \/ HalfCloseIdle(h) /\ cut'[h] = "half_idle"
  <2>1. ASSUME NEW why \in {"refused", "error", "framing", "done", "cancelled"}, EndHop(g, why)
        PROVE  cut'[h] \notin {"idle", "half_idle"}
    BY <2>1 DEF EndHop
  <2>2. CASE TunnelIdle(g) \/ HalfCloseIdle(g)
    BY <2>2 DEF TunnelIdle, HalfCloseIdle, EndHop
  <2>3. CASE RefusedByService(g) \/ Cancelled(g)
    BY <2>1, <2>3 DEF RefusedByService, Cancelled
  <2>4. CASE RelayForwards(g) \/ LocalClientForwards(g) \/ LocalServerForwards(g)
    BY <2>4 DEF RelayForwards, LocalClientForwards, LocalServerForwards, Forwards
  <2>5. ASSUME NEW d \in Dirs, CopyStep(d, g) PROVE cut'[h] \notin {"idle", "half_idle"}
    <3>1. CASE ReadChunk(d, g) \/ WriteChunk(d, g) \/ WriteVanishes(d, g)
      BY <3>1 DEF ReadChunk, WriteChunk, WriteVanishes
    <3>2. CASE WriteFails(d, g) \/ FrameEnd(d, g) \/ DatagramEnd(d, g) \/ ReadFails(d, g)
      BY <3>2, <2>1 DEF WriteFails, FrameEnd, DatagramEnd, ReadFails
    <3>3. CASE ReadEnd(d, g)
      BY <3>3, <2>1 DEF ReadEnd
    <3> QED
      BY <2>5, <3>1, <3>2, <3>3 DEF CopyStep
  <2> QED
    BY <1>1, <2>2, <2>3, <2>4, <2>5 DEF HopStep
<1>2. ASSUME NEW d \in Dirs, AppWrite(d) \/ AppFinish(d) \/ Reading(d) PROVE cut' = cut
  BY <1>2 DEF AppWrite, AppFinish, Reading, AppRead, AppEnd, hopVars
<1>3. ASSUME NEW e \in Ends, BreakOff(e) PROVE cut' = cut
  BY <1>3 DEF BreakOff, hopVars
<1>4. Tick \/ UNCHANGED vars => cut' = cut
  BY DEF Tick, vars, hopVars
<1>5. \/ cut'[h] \notin {"idle", "half_idle"}
      \/ TunnelIdle(h) /\ cut'[h] = "idle"
      \/ HalfCloseIdle(h) /\ cut'[h] = "half_idle"
  BY <1>1, <1>2, <1>3, <1>4 DEF Next
<1>6. TunnelIdle(h) => quiet[h] >= conf.tunnelIdle
  BY DEF TunnelIdle, ClocksInv
<1>7. HalfCloseIdle(h) => quiet[h] >= conf.halfIdle
  BY DEF HalfCloseIdle, ClocksInv
<1> QED
  BY <1>5, <1>6, <1>7

(* A hop is cut by a timer only after a full timeout without a completed
   write, whatever the order of writes, ends and ticks
   (record_forward_activity and reset_sleep in forward.rs).                   *)
THEOREM TimersAreDeferred == Spec => ActivityDefersTimers
<1>1. Init => ClocksInv
  BY DEF Init, ClocksInv
<1>2. TypeOK /\ ClocksInv /\ [Next]_vars => ClocksInv'
  BY Clocks, StepClocks
<1>3. TypeOK /\ ClocksInv /\ [Next]_vars
        => [\A h \in Hops :
              /\ cut[h] = "none" /\ cut'[h] = "idle" => quiet[h] >= conf.tunnelIdle
              /\ cut[h] = "none" /\ cut'[h] = "half_idle" => quiet[h] >= conf.halfIdle]_vars
  BY Clocks, TimersCut
<1> QED
  BY <1>1, <1>2, <1>3, TypeCorrect, PTL DEF Spec, ActivityDefersTimers
=============================================================================
