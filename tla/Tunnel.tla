------------------------------- MODULE Tunnel -------------------------------
(* The data path of a stream: a user's connection, a chain of hops that each
   copy both directions between two sockets (the local client, the relay, the
   local server), and the service's connection.  Each hop is the select loop
   of start_forward_with_config (protocol/src/forward.rs): two copy futures,
   the activity they report, the idle timer of an open tunnel and the idle
   timer of a half-closed one.  Chunks are numbered in the order they are
   written; a link is one TCP connection, with a bounded window.             *)
EXTENDS Integers, Sequences, FiniteSets

CONSTANTS Deployments,   \* what is deployed: roles of the hops, framed links,
                         \*   transport, timeouts, and a bound on the chunks written
          MaxHops,       \* length of the longest chain of hops
          Window,        \* bound: chunks a link holds before its writer waits
          MaxFaults      \* bound: break-offs, refusals and revocations in all

Dirs == {"up", "down"}
Ends == {"user", "service"}
Roles == {"client", "relay", "server"}
Causes == {"none", "done", "idle", "half_idle", "error", "framing", "refused", "cancelled"}

ASSUME BoundsAssumption ==
  MaxHops \in Nat \ {0} /\ Window \in Nat \ {0} /\ MaxFaults \in Nat
ASSUME DeploymentsAssumption ==
  \A c \in Deployments :
     /\ c.roles \in Seq(Roles) /\ Len(c.roles) \in 1 .. MaxHops
     /\ c.chunks \in Nat
     /\ c.framed \subseteq 0 .. Len(c.roles)
     /\ c.datagram \in BOOLEAN
     /\ c.tunnelIdle \in Nat /\ c.halfIdle \in Nat

VARIABLES
  conf,      \* the deployment
  hop,       \* hop -> "absent" | "setup" | "open" | "ended"
  cut,       \* hop -> why it ended
  data,      \* direction, link -> chunks in flight
  fin,       \* direction, link -> the writer has shut its side down
  rst,       \* direction, link -> the reader will be told of a reset
  dead,      \* direction, link -> the reader has closed its socket
  held,      \* direction, hop -> chunk read and not yet written (0: none)
  done,      \* direction, hop -> the copy future has returned Ok
  len,       \* direction, hop -> chunks copied
  tun,       \* hop -> ticks since the open-tunnel timer was set
  half,      \* hop -> ticks since the half-close timer was set
  quiet,     \* hop -> ticks since a write of the hop completed or a side of it closed
  sent,      \* direction -> chunks the application wrote
  got,       \* direction -> chunks the other application has taken
  seen,      \* direction -> "open" | "end" | "reset": what its reader has seen
  gone       \* applications that have broken off

hopVars  == <<hop, cut, held, done, len>>
linkVars == <<data, fin, rst, dead>>
clocks   == <<tun, half, quiet>>
appVars  == <<sent, got, seen, gone>>
vars     == <<conf, hopVars, linkVars, clocks, appVars>>

N     == Len(conf.roles)
Hops  == 1 .. MaxHops      \* those above N are absent
Links == 0 .. MaxHops
Other(d)  == IF d = "up" THEN "down" ELSE "up"
In(d, h)  == IF d = "up" THEN h - 1 ELSE h         \* link a hop reads
Out(d, h) == IF d = "up" THEN h ELSE h - 1         \* link a hop writes
FirstLink(d) == IF d = "up" THEN 0 ELSE N        \* link its application writes
LastLink(d)  == IF d = "up" THEN N ELSE 0        \* link its application reads
Writer(d) == IF d = "up" THEN "user" ELSE "service"
Reader(d) == IF d = "up" THEN "service" ELSE "user"
Longest   == IF conf.tunnelIdle > conf.halfIdle THEN conf.tunnelIdle ELSE conf.halfIdle

Init ==
  /\ conf \in Deployments
  /\ hop = [h \in Hops |-> IF h <= N THEN "setup" ELSE "absent"]
  /\ cut = [h \in Hops |-> "none"]
  /\ data = [d \in Dirs |-> [i \in Links |-> << >>]]
  /\ fin = [d \in Dirs |-> [i \in Links |-> FALSE]]
  /\ rst = [d \in Dirs |-> [i \in Links |-> FALSE]]
  /\ dead = [d \in Dirs |-> [i \in Links |-> FALSE]]
  /\ held = [d \in Dirs |-> [h \in Hops |-> 0]]
  /\ done = [d \in Dirs |-> [h \in Hops |-> FALSE]]
  /\ len = [d \in Dirs |-> [h \in Hops |-> 0]]
  /\ tun = [h \in Hops |-> 0]
  /\ half = [h \in Hops |-> 0]
  /\ quiet = [h \in Hops |-> 0]
  /\ sent = [d \in Dirs |-> 0]
  /\ got = [d \in Dirs |-> << >>]
  /\ seen = [d \in Dirs |-> "open"]
  /\ gone = {}

-----------------------------------------------------------------------------
(* Sockets.  Closing the sockets `mine` (pairs: the direction this side writes,
   the link) queues a FIN behind what was written; if something unread is left
   in the receive buffer the peer gets a reset instead.                        *)
Unread(d, i) == data[Other(d)][i] # << >>

CloseSockets(mine) ==
  /\ fin' = [d \in Dirs |-> [i \in Links |->
               fin[d][i] \/ (<<d, i>> \in mine /\ ~Unread(d, i))]]
  /\ rst' = [d \in Dirs |-> [i \in Links |->
               rst[d][i] \/ (<<d, i>> \in mine /\ Unread(d, i))]]
  /\ dead' = [d \in Dirs |-> [i \in Links |->
               dead[d][i] \/ <<Other(d), i>> \in mine]]
  /\ data' = [d \in Dirs |-> [i \in Links |->
               IF <<Other(d), i>> \in mine THEN << >> ELSE data[d][i]]]

SocketsOf(h) == {<<d, Out(d, h)>> : d \in Dirs}

(* start_forward returns, or the handler around it is dropped: both streams
   of the hop are closed and whatever it held is lost.                        *)
EndHop(h, why) ==
  /\ hop' = [hop EXCEPT ![h] = "ended"]
  /\ cut' = [cut EXCEPT ![h] = why]
  /\ held' = [d \in Dirs |-> [held[d] EXCEPT ![h] = 0]]
  /\ tun' = [tun EXCEPT ![h] = 0]
  /\ half' = [half EXCEPT ![h] = 0]
  /\ quiet' = [quiet EXCEPT ![h] = 0]
  /\ CloseSockets(SocketsOf(h))

-----------------------------------------------------------------------------
(* Setting a stream up.  The relay answers the local client and then the local
   server and forwards; each of them forwards once it is answered, the local
   server after connecting to the service, which may refuse.                  *)
Answered(h) == \A g \in Hops : g # h /\ hop[g] = "setup" => conf.roles[g] # "relay"

Forwards(h, role) ==
  /\ hop[h] = "setup" /\ conf.roles[h] = role /\ Answered(h)
  /\ hop' = [hop EXCEPT ![h] = "open"]
  /\ UNCHANGED <<conf, cut, held, done, len, linkVars, clocks, appVars>>

RelayForwards(h) == Forwards(h, "relay")
LocalClientForwards(h) == Forwards(h, "client")
LocalServerForwards(h) == Forwards(h, "server")

(* Credentials expire, services refuse and applications break off at most
   MaxFaults times in all. *)
Faults == {h \in Hops : cut[h] \in {"cancelled", "refused"}}
MayFault == Cardinality(gone) + Cardinality(Faults) < MaxFaults

RefusedByService(h) ==
  /\ hop[h] = "setup" /\ Answered(h) /\ conf.roles[h] = "server" /\ MayFault
  /\ EndHop(h, "refused")
  /\ UNCHANGED <<conf, done, len, appVars>>

-----------------------------------------------------------------------------
(* The copy future of a direction. *)
HalfClosed(h) == done["up"][h] # done["down"][h]
Copying(d, h) == hop[h] = "open" /\ ~done[d][h]

ReadChunk(d, h) ==
  /\ Copying(d, h) /\ held[d][h] = 0 /\ data[d][In(d, h)] # << >>
  /\ held' = [held EXCEPT ![d][h] = Head(data[d][In(d, h)])]
  /\ data' = [data EXCEPT ![d][In(d, h)] = Tail(@)]
  /\ UNCHANGED <<conf, hop, cut, done, len, fin, rst, dead, clocks, appVars>>

(* Mutant: the half-close timer is pushed when this direction, not its peer,
   is done. *)
RecordActivity_OwnSide(d, h) ==
  /\ tun' = [tun EXCEPT ![h] = 0]
  /\ half' = IF done[d][h] THEN [half EXCEPT ![h] = 0] ELSE half
  /\ quiet' = [quiet EXCEPT ![h] = 0]

(* A completed write reports activity, and the same poll of the select loop
   records it: the branches are polled in order and the timers come last.     *)
RecordActivity(d, h) ==
  /\ tun' = [tun EXCEPT ![h] = 0]
  /\ half' = IF done[Other(d)][h] THEN [half EXCEPT ![h] = 0] ELSE half
  /\ quiet' = [quiet EXCEPT ![h] = 0]

(* Mutant: an empty read is written on instead of ending the copy. *)
WriteChunk_Empty(d, h) ==
  /\ Copying(d, h)
  /\ ~dead[d][Out(d, h)] /\ Len(data[d][Out(d, h)]) < Window
  /\ data' = [data EXCEPT ![d][Out(d, h)] = Append(@, held[d][h])]
  /\ held' = [held EXCEPT ![d][h] = 0]
  /\ len' = [len EXCEPT ![d][h] = @ + 1]
  /\ RecordActivity(d, h)
  /\ UNCHANGED <<conf, hop, cut, done, fin, rst, dead, appVars>>

WriteChunk(d, h) ==
  /\ Copying(d, h) /\ held[d][h] # 0
  /\ ~dead[d][Out(d, h)] /\ Len(data[d][Out(d, h)]) < Window
  /\ data' = [data EXCEPT ![d][Out(d, h)] = Append(@, held[d][h])]
  /\ held' = [held EXCEPT ![d][h] = 0]
  /\ len' = [len EXCEPT ![d][h] = @ + 1]
  /\ RecordActivity(d, h)
  /\ UNCHANGED <<conf, hop, cut, done, fin, rst, dead, appVars>>

(* The reader of the link is gone: the kernel takes the bytes and a reset
   comes back, or the write fails.                                            *)
WriteVanishes(d, h) ==
  /\ Copying(d, h) /\ held[d][h] # 0
  /\ dead[d][Out(d, h)] /\ ~rst[Other(d)][Out(d, h)]
  /\ rst' = [rst EXCEPT ![Other(d)][Out(d, h)] = TRUE]
  /\ held' = [held EXCEPT ![d][h] = 0]
  /\ len' = [len EXCEPT ![d][h] = @ + 1]
  /\ RecordActivity(d, h)
  /\ UNCHANGED <<conf, hop, cut, done, data, fin, dead, appVars>>

WriteFails(d, h) ==
  /\ Copying(d, h) /\ held[d][h] # 0 /\ dead[d][Out(d, h)]
  /\ EndHop(h, "error")
  /\ UNCHANGED <<conf, done, len, appVars>>

(* The stream a hop reads has ended.  On a plain link the reader returns an
   empty slice, on a framed one the missing frame header is an error.         *)
AtEnd(d, h) == Copying(d, h) /\ held[d][h] = 0
               /\ data[d][In(d, h)] = << >> /\ fin[d][In(d, h)]
IsDatagram == conf.datagram
Framed(d, h) == In(d, h) \in conf.framed

(* Mutant: when one direction ends the other copy future is made anew, and
   the chunk it had read is gone. *)
ReadEnd_RecreatesPeer(d, h) ==
  /\ AtEnd(d, h) /\ ~IsDatagram /\ ~Framed(d, h)
  /\ done' = [done EXCEPT ![d][h] = TRUE]
  /\ IF done[Other(d)][h]
     THEN EndHop(h, "done")
     ELSE /\ fin' = [fin EXCEPT ![d][Out(d, h)] = TRUE]
          /\ held' = [held EXCEPT ![Other(d)][h] = 0]
          /\ half' = [half EXCEPT ![h] = 0]
          /\ quiet' = [quiet EXCEPT ![h] = 0]
          /\ UNCHANGED <<hop, cut, data, rst, dead, tun>>
  /\ UNCHANGED <<conf, len, appVars>>

(* Mutant: the end of a direction is not passed on (no shutdown). *)
ReadEnd_NoShutdown(d, h) ==
  /\ AtEnd(d, h) /\ ~IsDatagram /\ ~Framed(d, h)
  /\ done' = [done EXCEPT ![d][h] = TRUE]
  /\ IF done[Other(d)][h]
     THEN EndHop(h, "done")
     ELSE /\ half' = [half EXCEPT ![h] = 0]
          /\ quiet' = [quiet EXCEPT ![h] = 0]
          /\ UNCHANGED <<hop, cut, held, data, fin, rst, dead, tun>>
  /\ UNCHANGED <<conf, len, appVars>>

ReadEnd(d, h) ==
  /\ AtEnd(d, h) /\ ~IsDatagram /\ ~Framed(d, h)
  /\ done' = [done EXCEPT ![d][h] = TRUE]
  /\ IF done[Other(d)][h]
     THEN EndHop(h, "done")
     ELSE /\ fin' = [fin EXCEPT ![d][Out(d, h)] = TRUE]
          /\ half' = [half EXCEPT ![h] = 0]
          /\ quiet' = [quiet EXCEPT ![h] = 0]
          /\ UNCHANGED <<hop, cut, held, data, rst, dead, tun>>
  /\ UNCHANGED <<conf, len, appVars>>

FrameEnd(d, h) ==
  /\ AtEnd(d, h) /\ ~IsDatagram /\ Framed(d, h)
  /\ EndHop(h, "framing")
  /\ UNCHANGED <<conf, done, len, appVars>>

(* start_datagram_forward: the first direction to return ends the tunnel. *)
DatagramEnd(d, h) ==
  /\ AtEnd(d, h) /\ IsDatagram
  /\ EndHop(h, "error")
  /\ UNCHANGED <<conf, done, len, appVars>>

ReadFails(d, h) ==
  /\ Copying(d, h) /\ held[d][h] = 0 /\ rst[d][In(d, h)]
  /\ EndHop(h, "error")
  /\ UNCHANGED <<conf, done, len, appVars>>

-----------------------------------------------------------------------------
(* The timers of the select loop; a datagram tunnel has none. *)
TunnelIdle(h) ==
  /\ hop[h] = "open" /\ ~IsDatagram /\ conf.tunnelIdle > 0
  /\ ~HalfClosed(h) /\ tun[h] >= conf.tunnelIdle
  /\ EndHop(h, "idle")
  /\ UNCHANGED <<conf, done, len, appVars>>

(* Mutant: the half-close timer only watches the client's side. *)
HalfCloseIdle_OneSided(h) ==
  /\ hop[h] = "open" /\ ~IsDatagram /\ conf.halfIdle > 0
  /\ done["up"][h] /\ ~done["down"][h] /\ half[h] >= conf.halfIdle
  /\ EndHop(h, "half_idle")
  /\ UNCHANGED <<conf, done, len, appVars>>

HalfCloseIdle(h) ==
  /\ hop[h] = "open" /\ ~IsDatagram /\ conf.halfIdle > 0
  /\ HalfClosed(h) /\ half[h] >= conf.halfIdle
  /\ EndHop(h, "half_idle")
  /\ UNCHANGED <<conf, done, len, appVars>>

Aged(clock, limit) ==
  [h \in Hops |-> IF hop[h] = "open" /\ clock[h] < limit THEN clock[h] + 1 ELSE clock[h]]

Tick ==
  /\ \E h \in Hops : hop[h] = "open" /\ quiet[h] < Longest
  /\ tun' = Aged(tun, conf.tunnelIdle)
  /\ half' = Aged(half, conf.halfIdle)
  /\ quiet' = Aged(quiet, Longest)
  /\ UNCHANGED <<conf, hopVars, linkVars, appVars>>

(* The registering credential expires or is revoked: the relay drops the
   forwarding future of the stream.                                           *)
Cancelled(h) ==
  /\ hop[h] = "open" /\ conf.roles[h] = "relay"
  /\ MayFault
  /\ EndHop(h, "cancelled")
  /\ UNCHANGED <<conf, done, len, appVars>>

-----------------------------------------------------------------------------
(* The applications at the two ends.  The service has a connection once the
   local server has made one.                                                 *)
Present(e) == /\ e \notin gone
              /\ e = "service" /\ conf.roles[N] = "server"
                   => hop[N] # "setup" /\ cut[N] # "refused"

AppWrite(d) ==
  /\ Present(Writer(d)) /\ ~fin[d][FirstLink(d)] /\ ~dead[d][FirstLink(d)]
  /\ sent[d] < conf.chunks /\ Len(data[d][FirstLink(d)]) < Window
  /\ sent' = [sent EXCEPT ![d] = @ + 1]
  /\ data' = [data EXCEPT ![d][FirstLink(d)] = Append(@, sent[d] + 1)]
  /\ UNCHANGED <<conf, hopVars, fin, rst, dead, clocks, got, seen, gone>>

AppFinish(d) ==
  /\ Present(Writer(d)) /\ ~fin[d][FirstLink(d)] /\ ~IsDatagram
  /\ fin' = [fin EXCEPT ![d][FirstLink(d)] = TRUE]
  /\ UNCHANGED <<conf, hopVars, data, rst, dead, clocks, appVars>>

AppRead(d) ==
  /\ Present(Reader(d)) /\ seen[d] = "open" /\ data[d][LastLink(d)] # << >>
  /\ got' = [got EXCEPT ![d] = Append(@, Head(data[d][LastLink(d)]))]
  /\ data' = [data EXCEPT ![d][LastLink(d)] = Tail(@)]
  /\ UNCHANGED <<conf, hopVars, fin, rst, dead, clocks, sent, seen, gone>>

AppEnd(d) ==
  /\ Present(Reader(d)) /\ seen[d] = "open"
  /\ \/ data[d][LastLink(d)] = << >> /\ fin[d][LastLink(d)] /\ seen' = [seen EXCEPT ![d] = "end"]
     \/ rst[d][LastLink(d)] /\ seen' = [seen EXCEPT ![d] = "reset"]
  /\ UNCHANGED <<conf, hopVars, linkVars, clocks, sent, got, gone>>

SocketsOfApp(e) == {<<d, FirstLink(d)>> : d \in {x \in Dirs : Writer(x) = e}}

BreakOff(e) ==
  /\ Present(e) /\ MayFault
  /\ gone' = gone \cup {e}
  /\ CloseSockets(SocketsOfApp(e))
  /\ UNCHANGED <<conf, hopVars, clocks, sent, got, seen>>

-----------------------------------------------------------------------------
CopyStep(d, h) == \/ ReadChunk(d, h) \/ WriteChunk(d, h)
                  \/ WriteVanishes(d, h) \/ WriteFails(d, h)
                  \/ ReadEnd(d, h) \/ FrameEnd(d, h) \/ DatagramEnd(d, h) \/ ReadFails(d, h)

HopStep(h) == \/ RelayForwards(h) \/ LocalClientForwards(h)
              \/ LocalServerForwards(h) \/ RefusedByService(h)
              \/ TunnelIdle(h) \/ HalfCloseIdle(h)
              \/ \E d \in Dirs : CopyStep(d, h)

Reading(d) == AppRead(d) \/ AppEnd(d)

Next == \/ Tick
        \/ \E h \in Hops : HopStep(h) \/ Cancelled(h)
        \/ \E d \in Dirs : AppWrite(d) \/ AppFinish(d) \/ Reading(d)
        \/ \E e \in Ends : BreakOff(e)

(* The runtime keeps polling a hop's handler -- its futures and its timers --
   and an application reads what has arrived; nothing makes it write, finish
   or break off.                                                              *)
Fairness == /\ WF_vars(Tick)
            /\ \A h \in Hops : WF_vars(HopStep(h))
            /\ \A d \in Dirs : WF_vars(Reading(d))

Spec == Init /\ [][Next]_vars /\ Fairness

-----------------------------------------------------------------------------
(* Properties. *)

(* Every variable keeps its type; links never hold more than the window. *)
TypeOK ==
  /\ conf \in Deployments
  /\ hop \in [Hops -> {"absent", "setup", "open", "ended"}] /\ cut \in [Hops -> Causes]
  /\ data \in [Dirs -> [Links -> Seq(1 .. conf.chunks)]]
  /\ \A d \in Dirs, i \in Links : Len(data[d][i]) <= Window
  /\ fin \in [Dirs -> [Links -> BOOLEAN]] /\ rst \in [Dirs -> [Links -> BOOLEAN]]
  /\ dead \in [Dirs -> [Links -> BOOLEAN]]
  /\ held \in [Dirs -> [Hops -> 0 .. conf.chunks]] /\ done \in [Dirs -> [Hops -> BOOLEAN]]
  /\ len \in [Dirs -> [Hops -> 0 .. conf.chunks]]
  /\ tun \in [Hops -> Nat] /\ half \in [Hops -> Nat] /\ quiet \in [Hops -> Nat]
  /\ sent \in [Dirs -> 0 .. conf.chunks] /\ got \in [Dirs -> Seq(1 .. conf.chunks)]
  /\ seen \in [Dirs -> {"open", "end", "reset"}] /\ gone \subseteq Ends

(* The chain of hops is a byte pipe: each application takes what the other
   wrote, in order and without a gap, and sees the end of the stream only
   when it has everything, unless a hop was cut or an application broke off.
   The code: copy_with_activity is one future per direction, kept across the
   iterations of the select loop (forward.rs, start_forward_with_config).     *)
Pipe == INSTANCE BytePipe WITH
          sent <- sent, got <- got,
          closed <- [d \in Dirs |-> fin[d][FirstLink(d)] \/ Writer(d) \in gone],
          ended <- [d \in Dirs |-> seen[d] # "open"],
          failed <- gone # {} \/ \E h \in Hops : cut[h] \notin {"none", "done"}

ImplementsPipe == Pipe!SafeSpec

(* What is written is delivered, and the end after it, unless the tunnel fails. *)
PipeDelivers == Pipe!Delivered

(* A timer cuts a hop only after a full timeout without a completed write in
   either direction (and, half-closed, since the first direction ended):
   record_forward_activity and reset_sleep push the right timer each time.    *)
ActivityDefersTimers ==
  [][\A h \in Hops :
       /\ cut[h] = "none" /\ cut'[h] = "idle" => quiet[h] >= conf.tunnelIdle
       /\ cut[h] = "none" /\ cut'[h] = "half_idle" => quiet[h] >= conf.halfIdle]_vars

(* No hop stays open for ever: with both timeouts set whatever the
   applications do or leave undone (a half-closed hop falls to one timer, a
   silent one to the other), and without them once both applications have
   finished or broken off.                                                    *)
Timed == ~IsDatagram /\ conf.tunnelIdle > 0 /\ conf.halfIdle > 0
HopsEnd ==
  (Timed \/ \A d \in Dirs : fin[d][FirstLink(d)] \/ Writer(d) \in gone)
     ~> (\A h \in Hops : hop[h] \in {"absent", "ended"})
=============================================================================
