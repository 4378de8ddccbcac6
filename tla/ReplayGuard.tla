---------------------------- MODULE ReplayGuard ----------------------------
(***************************************************************************)
(* The relay's guard against a first flight that arrives twice, as         *)
(* operators on a filter and on the log behind it (secure/replay.rs).  The *)
(* filter keeps the flights of the window it is in and of the one before;  *)
(* windows are as long as a timestamp may lie in the future and in the     *)
(* past, together.                                                         *)
(*                                                                         *)
(* Abstracted: a Bloom filter is the set of what was inserted, and what it *)
(* finds by mistake, like the budgets of a credential and of the filter,   *)
(* is a refusal the caller may give to any flight.                         *)
(***************************************************************************)
EXTENDS Integers

CONSTANT Window   \* window_seconds

ASSUME WindowAssumption == Window \in Nat \ {0}

Filter(flights) == [current : SUBSET flights, previous : SUBSET flights, started : Nat]
\* A record of connection.replay.
LogRecord(flights) == [flight : flights, at : Nat]

NewFilter(now) == [current |-> {}, previous |-> {}, started |-> now]

Elapsed(since, now) == IF now > since THEN now - since ELSE 0

\* Mutant: one window is kept only.
Rotated_OneWindow(b, now) ==
  IF Elapsed(b.started, now) < Window THEN b ELSE NewFilter(now)

\* A filter left alone for two windows has nothing to remember.
Rotated(b, now) ==
  CASE Elapsed(b.started, now) < Window -> b
    [] Elapsed(b.started, now) \in Window .. 2 * Window - 1 ->
         [current |-> {}, previous |-> b.current, started |-> now]
    [] OTHER -> NewFilter(now)

Remembers(b, flight) == flight \in b.current \cup b.previous
Remembering(b, flight) == [b EXCEPT !.current = @ \cup {flight}]

\* What a start or a compaction keeps of the log.
Live(log, now) == {r \in log : Elapsed(r.at, now) <= Window}

\* The filter of a start: everything live, in a window as old as the oldest.
Restored(log, now) ==
  LET live == Live(log, now) IN
  [current |-> {r.flight : r \in live}, previous |-> {},
   started |-> IF live = {} THEN now
               ELSE CHOOSE at \in {r.at : r \in live} : \A r \in live : at <= r.at]
=============================================================================
