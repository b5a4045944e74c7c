--------------------------- MODULE WsParasitifer ---------------------------
(***************************************************************************)
(* Parasitifer<EnableSSL> of kn/net/src/ws/parasitifer.h, the owner of the *)
(* websocket sessions of one service: it resolves the service's name, has  *)
(* the application deliver a connection for every address, starts a        *)
(* session (module WsConn) on each, and stops them all in Close().         *)
(*                                                                         *)
(* A session is named by the position of its address in results_.  Close   *)
(* is called, as often as the caller likes, after Run has returned.        *)
(***************************************************************************)
EXTENDS WsConn, Sequences

CONSTANTS
  Resolved,  \* the results resolver.resolve may return: families of addresses
  ConnLimit  \* conn_count_, 0 for no limit

ASSUME WsParasitiferAssumption ==
  /\ Conns \subseteq Nat \ {0}
  /\ \A r \in Resolved : r \in Seq({"v4", "v6"}) /\ DOMAIN r \subseteq Conns
  /\ ConnLimit \in Nat

VARIABLES
  run,        \* progress of Run: resolve, connect, returned
  results,    \* results_
  at,         \* position of Connect's iterator in results_
  examined,   \* Connect's conn_count: entries the loop has gone past
  conns,      \* conns_
  closeCall,  \* progress of the latest call of Close
  closeAt     \* position of Close's iterator in conns_

owned == <<run, results, at, examined, conns>>
closeVars == <<closeCall, closeAt>>
allVars == <<vars, owned, closeVars>>

ParasitiferTypeOK ==
  /\ TypeOK
  /\ run \in {"resolve", "connect", "returned"}
  /\ results \in Resolved \cup {<<>>}
  /\ at \in 1..(Len(results) + 1)
  /\ examined \in 0..Len(results)
  /\ conns \in Seq(Conns)
  /\ closeCall \in {"none", "stopping", "returned", "threw"}
  /\ closeAt \in 1..(Len(conns) + 1)

ParasitiferInit ==
  /\ Init
  /\ run = "resolve" /\ results = <<>> /\ at = 1 /\ examined = 0
  /\ conns = <<>>
  /\ closeCall = "none" /\ closeAt = 1

-----------------------------------------------------------------------------
(* Run *)

\* The attempt that ends the loop of MustResolve: one without an error.
MustResolve ==
  /\ run = "resolve"
  /\ results' \in Resolved
  /\ run' = "connect"
  /\ UNCHANGED <<vars, at, examined, conns, closeVars>>

\* The two conditions that end the loop of Connect.
LimitIgnored == at > Len(results)
LimitReached == at > Len(results) \/ (ConnLimit # 0 /\ examined = ConnLimit)

ConnectReturns ==
  /\ run = "connect" /\ LimitReached
  /\ run' = "returned"
  /\ UNCHANGED <<vars, results, at, examined, conns, closeVars>>

\* An iteration: `continue' skips the push, but not the counting.
NextEntry ==
  /\ run = "connect" /\ ~LimitReached
  /\ at' = at + 1
  /\ examined' = examined + 1
  /\ UNCHANGED <<run, results, closeVars>>

\* An address of IPv6, or one for which deliver_ returns no connection.
SkipEntry ==
  /\ NextEntry
  /\ UNCHANGED <<vars, conns>>

AnyFamily == TRUE
Usable == results[at] = "v4"

ConnectEntry ==
  /\ NextEntry
  /\ Usable
  /\ conns' = Append(conns, at)
  /\ Spawn(at)

-----------------------------------------------------------------------------
(* Close *)

CloseStarts ==
  /\ run = "returned" /\ closeCall # "stopping"
  /\ closeCall' = "stopping"
  /\ closeAt' = 1
  /\ UNCHANGED <<vars, owned>>

\* conn->Stop() sets stop_ ...
CloseStops ==
  /\ closeCall = "stopping" /\ closeAt <= Len(conns)
  /\ StopCall(conns[closeAt])
  /\ UNCHANGED <<owned, closeVars>>

\* ... and closes the stream: the loop of Close goes on when that returns, and
\* is abandoned when it throws.
NextOrThrow(c) ==
  \/ stopCall'[c] = "returned" /\ closeAt' = closeAt + 1 /\ UNCHANGED closeCall
  \/ stopCall'[c] = "threw" /\ closeCall' = "threw" /\ UNCHANGED closeAt

CloseStopEnds ==
  /\ closeCall = "stopping" /\ closeAt <= Len(conns)
  /\ StopClose(conns[closeAt])
  /\ NextOrThrow(conns[closeAt])
  /\ UNCHANGED owned

AllButLast == closeAt >= Len(conns)
AllStopped == closeAt > Len(conns)

CloseReturns ==
  /\ closeCall = "stopping" /\ AllStopped
  /\ closeCall' = "returned"
  /\ UNCHANGED <<vars, owned, closeAt>>

-----------------------------------------------------------------------------
\* The sessions go on by themselves on the io_context.
Session(c) ==
  /\ SessionStep(c) \/ TlsStep(c)
  /\ UNCHANGED <<owned, closeVars>>

RunStep == MustResolve \/ ConnectReturns \/ SkipEntry \/ ConnectEntry
CloseStep == CloseStops \/ CloseStopEnds \/ CloseReturns

ParasitiferNext ==
  RunStep \/ CloseStarts \/ CloseStep \/ \E c \in Conns : Session(c)

ParasitiferSpec == ParasitiferInit /\ [][ParasitiferNext]_allVars

\* Close is called from a thread that runs on, and the steps of a session that
\* no peer can put off are taken (see Advance in WsConn).
ParasitiferFairSpec ==
  /\ ParasitiferSpec
  /\ WF_allVars(CloseStep)
  /\ \A c \in Conns :
       WF_allVars(Advance(c) /\ UNCHANGED <<owned, closeVars>>)

-----------------------------------------------------------------------------
(* Properties. *)

Started == {conns[i] : i \in DOMAIN conns}

\* The sessions that run are those in conns_, in the order of the addresses;
\* there are at most conn_count_ of them, all of IPv4, and none twice.
OwnsItsSessions ==
  /\ Started = {c \in Conns : pc[c] # "idle"}
  /\ \A i, j \in DOMAIN conns : i < j => conns[i] < conns[j]
  /\ \A c \in Started : results[c] = "v4"
  /\ ConnLimit # 0 => Len(conns) <= ConnLimit

\* Close that returns has stopped every session, and has found each stream
\* open or closing; the sessions stopped are always a prefix of conns_.
CloseStopsAll ==
  /\ closeCall = "returned" => \A c \in Started : stop[c]
  /\ \A i, j \in DOMAIN conns : i < j /\ stop[conns[j]] => stop[conns[i]]

\* A session behind one that has ended is out of the reach of Close for good:
\* every further call throws at the dead stream of the first one, before it
\* comes to the second.
TailOutOfReach ==
  \A i, j \in Conns :
    i < j => [](pc[i] = "done" /\ closeCall # "stopping" /\ ~stop[j] => []~stop[j])

\* After a Close that returned, every session comes to its end.
CloseEnds ==
  (\A c \in Conns : TlsReturns(c)) =>
    (closeCall = "returned" ~> \A c \in Started : pc[c] \in {"done", "threw"})
=============================================================================
