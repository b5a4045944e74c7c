-------------------------- MODULE KafkaParasitifer --------------------------
(***************************************************************************)
(* Parasitifer<EnableSSL> of kn/net/src/kafka/parasitifer.h, the owner of  *)
(* the consumer sessions of module KafkaConsumer.  Unlike the one of the   *)
(* websocket sessions it starts at most one session per Run, so that an    *)
(* application that wants several calls Run several times; and its Close   *)
(* cannot be stopped half way, since Stop only sets a flag.                *)
(*                                                                         *)
(* Run and Close are called by one thread, one after the other.            *)
(***************************************************************************)
EXTENDS KafkaConsumer, Sequences

CONSTANTS
  Resolved,   \* what resolver.resolve may return, see Entries
  ConnLimit,  \* conn_count_, 0 for no limit
  MaxRuns     \* bound on the calls of Run

\* An address of IPv6, or of IPv4, with or without a connection that deliver_
\* returns for it.
Entries == {"v4", "v6", "refused"}

ASSUME KafkaParasitiferAssumption ==
  Resolved \subseteq Seq(Entries) /\ ConnLimit \in Nat /\ MaxRuns \in Nat

VARIABLES
  run,        \* progress of the latest call of Run
  runs,       \* calls of Run so far
  results,    \* results_
  at,         \* position of Connect's iterator, conn_count + 1
  conns,      \* conns_
  madeBy,     \* the call of Run that made the session, 0 if none did
  closeCall,  \* progress of the latest call of Close
  closeAt     \* position of Close's iterator in conns_

owned == <<run, runs, results, at, conns, madeBy>>
closeVars == <<closeCall, closeAt>>
allVars == <<vars, owned, closeVars>>

ParasitiferTypeOK ==
  /\ TypeOK
  /\ run \in {"resolve", "connect", "returned"}
  /\ runs \in Nat
  /\ results \in Seq(Entries)
  /\ at \in Nat \ {0}
  /\ conns \in Seq(Sessions)
  /\ madeBy \in [Sessions -> Nat]
  /\ closeCall \in {"none", "stopping", "returned"}
  /\ closeAt \in 1..(Len(conns) + 1)

ParasitiferInit ==
  /\ Init
  /\ run = "returned" /\ runs = 0 /\ results = <<>> /\ at = 1
  /\ conns = <<>> /\ madeBy = [s \in Sessions |-> 0]
  /\ closeCall = "none" /\ closeAt = 1

Delivered == {conns[i] : i \in DOMAIN conns}

-----------------------------------------------------------------------------
(* Run *)

RunCalled ==
  /\ run = "returned" /\ closeCall # "stopping" /\ runs < MaxRuns
  /\ run' = "resolve"
  /\ runs' = runs + 1
  /\ UNCHANGED <<vars, results, at, conns, madeBy, closeVars>>

\* The attempt that ends the loop of MustResolve: one without an error.
MustResolve ==
  /\ run = "resolve"
  /\ results' \in Resolved
  /\ at' = 1
  /\ run' = "connect"
  /\ UNCHANGED <<vars, runs, conns, madeBy, closeVars>>

\* The two conditions that end the loop of Connect.
LimitIgnored == at > Len(results)
NoMore == at > Len(results) \/ (ConnLimit # 0 /\ at = ConnLimit + 1)

ConnectReturns ==
  /\ run = "connect" /\ NoMore
  /\ run' = "returned"
  /\ UNCHANGED <<vars, runs, results, at, conns, madeBy, closeVars>>

\* `continue' at an address of IPv6, or without a connection; it counts, too.
SkipEntry ==
  /\ run = "connect" /\ ~NoMore
  /\ results[at] # "v4"
  /\ at' = at + 1
  /\ UNCHANGED <<vars, run, runs, results, conns, madeBy, closeVars>>

\* `break' after the first session: nothing else of results_ is used.
GoOnToNext   == at' = at + 1 /\ UNCHANGED run
AfterConnect == run' = "returned" /\ UNCHANGED at

ConnectEntry(s) ==
  /\ run = "connect" /\ ~NoMore
  /\ results[at] = "v4"
  /\ s \notin Delivered
  /\ conns' = Append(conns, s)
  /\ madeBy' = [madeBy EXCEPT ![s] = runs]
  /\ AfterConnect
  /\ UNCHANGED <<vars, runs, results, closeVars>>

-----------------------------------------------------------------------------
(* Close *)

CloseStarts ==
  /\ run = "returned" /\ closeCall # "stopping"
  /\ closeCall' = "stopping"
  /\ closeAt' = 1
  /\ UNCHANGED <<vars, owned>>

CloseStops ==
  /\ closeCall = "stopping" /\ closeAt <= Len(conns)
  /\ Stop(conns[closeAt])
  /\ closeAt' = closeAt + 1
  /\ UNCHANGED <<owned, closeCall>>

AllButLast == closeAt >= Len(conns)
AllStopped == closeAt > Len(conns)

CloseReturns ==
  /\ closeCall = "stopping" /\ AllStopped
  /\ closeCall' = "returned"
  /\ UNCHANGED <<vars, owned, closeAt>>

-----------------------------------------------------------------------------
(* The sessions that were spawned, on the threads of the io_context.        *)

TakenUp(s) ==
  /\ s \in Delivered /\ Spawn(s)
  /\ UNCHANGED <<owned, closeVars>>

Session(s) ==
  /\ SessionStep(s)
  /\ UNCHANGED <<owned, closeVars>>

\* The application stops its own session while it is called.
StopsItself(s) ==
  /\ pc[s] \in {"init", "onread"} /\ Stop(s)
  /\ UNCHANGED <<owned, closeVars>>

ConnectStep == MustResolve \/ ConnectReturns \/ SkipEntry \/ \E s \in Sessions : ConnectEntry(s)
CloseStep == CloseStops \/ CloseReturns

ParasitiferNext ==
  \/ RunCalled \/ ConnectStep \/ CloseStarts \/ CloseStep
  \/ \E s \in Sessions : TakenUp(s) \/ Session(s) \/ StopsItself(s)

ParasitiferSpec == ParasitiferInit /\ [][ParasitiferNext]_allVars

\* The thread that calls Close runs on.  A thread that runs a session goes on
\* with it: poll has a timeout, and OnRead returns.  A free thread takes up what
\* was spawned.  MustResolve is not fair: a name may never be resolved.
ParasitiferFairSpec ==
  /\ ParasitiferSpec
  /\ WF_allVars(CloseStep)
  /\ \A s \in Sessions : WF_allVars(TakenUp(s)) /\ WF_allVars(Session(s))

-----------------------------------------------------------------------------
(* Properties. *)

\* Only a session of conns_ runs, none is there twice, and no two are of the
\* same Run.
OwnsItsSessions ==
  /\ \A s \in Sessions : pc[s] # "idle" => s \in Delivered
  /\ \A i, j \in DOMAIN conns : i < j => madeBy[conns[i]] < madeBy[conns[j]]

\* A Run that has returned has made a session exactly if there is a usable
\* address among the first conn_count_ of what was resolved: conn_count_ limits
\* the addresses looked at, so one behind it is not used though none was used yet.
WithinLimit(i) == ConnLimit = 0 \/ i <= ConnLimit
ConnectsIfItCan ==
  run = "returned" /\ runs > 0 =>
    ((\E s \in Delivered : madeBy[s] = runs) <=>
     (\E i \in DOMAIN results : results[i] = "v4" /\ WithinLimit(i)))

\* When Close returns it has reached every session, those that ended or threw
\* included, and those no thread has taken up yet.
CloseStopsAll ==
  [][closeCall = "stopping" /\ closeCall' = "returned"
       => \A s \in Delivered : stop[s]]_allVars

\* A session gets a thread if all the others are stopped at some time, even if
\* they hold every thread: poll blocks, so nothing else frees a thread.
TurnComes ==
  \A s \in Sessions :
    (\A r \in Sessions \ {s} : r \in Delivered ~> stop[r])
      => (s \in Delivered ~> pc[s] # "idle")

\* When all sessions of all Runs are stopped, also those that wait for a thread,
\* all of them end: the io_context runs out of work.
CloseEnds ==
  <>[](\A s \in Delivered : stop[s]) => <>[](\A s \in Delivered : Ended(s))
=============================================================================
