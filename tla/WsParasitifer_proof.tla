------------------------ MODULE WsParasitifer_proof ------------------------
(***************************************************************************)
(* Proofs about the owner of the websocket sessions, whatever addresses    *)
(* are resolved and whatever the limit: it lists exactly the sessions that *)
(* run, a Close that returns has stopped them all, and one that has thrown *)
(* at a dead session never reaches those behind it.                        *)
(***************************************************************************)
EXTENDS WsParasitifer, WsConn_proof

\* The iterator of Connect has passed all that is in conns_.
Connecting ==
  /\ at = examined + 1 /\ Len(conns) <= examined
  /\ \A i \in DOMAIN conns : conns[i] < at
  /\ ConnLimit # 0 => examined <= ConnLimit
  /\ run = "resolve" => results = <<>> /\ conns = <<>>

\* Only Close stops a session, from the front, when Run has returned.
Reached ==
  /\ closeCall # "none" => run = "returned"
  /\ run # "returned" => \A c \in Conns : ~stop[c]
  /\ \A c \in Conns : stopCall[c] # "none" => stop[c]
  /\ closeCall = "stopping" => \A i \in DOMAIN conns : i < closeAt => stop[conns[i]]

PInv == ParasitiferTypeOK /\ OwnsItsSessions /\ Connecting /\ Reached /\ CloseStopsAll

\* Lemma: what the sequences of the Parasitifer are made of.
LEMMA Listed ==
  ASSUME ParasitiferTypeOK
  PROVE  /\ conns \in Seq(Conns) /\ Len(conns) \in Nat /\ DOMAIN conns = 1..Len(conns)
         /\ \A i \in DOMAIN conns : conns[i] \in Conns /\ conns[i] \in Nat
         /\ results \in Seq({"v4", "v6"})
         /\ Len(results) \in Nat /\ DOMAIN results = 1..Len(results)
         /\ at \in Nat /\ at > 0 /\ examined \in Nat
<1>1. conns \in Seq(Conns)
  BY DEF ParasitiferTypeOK
<1>2. results \in Seq({"v4", "v6"})
  <2>1. <<>> \in Seq({"v4", "v6"})
    OBVIOUS
  <2>2. \A r \in Resolved : r \in Seq({"v4", "v6"})
    BY WsParasitiferAssumption
  <2> QED
    BY <2>1, <2>2, Zenon DEF ParasitiferTypeOK
<1>3. Len(conns) \in Nat /\ Len(results) \in Nat
  BY <1>1, <1>2
<1>4. /\ DOMAIN conns = 1..Len(conns) /\ DOMAIN results = 1..Len(results)
      /\ \A i \in DOMAIN conns : conns[i] \in Conns
  BY <1>1, <1>2
<1>5. at \in Nat /\ at > 0 /\ examined \in Nat
  BY <1>3 DEF ParasitiferTypeOK
<1> QED
  BY <1>1, <1>2, <1>3, <1>4, <1>5, WsParasitiferAssumption

LEMMA InitPInv == ParasitiferInit => PInv
<1> SUFFICES ASSUME ParasitiferInit PROVE PInv
  OBVIOUS
<1>1. TypeOK
  BY InvInit DEF ParasitiferInit, IInv
<1>2. conns \in Seq(Conns) /\ DOMAIN conns = {} /\ Len(conns) = 0 /\ Len(results) = 0
  BY DEF ParasitiferInit
<1>3. ParasitiferTypeOK
  BY <1>1, <1>2 DEF ParasitiferInit, ParasitiferTypeOK
<1>4. OwnsItsSessions
  BY <1>2, WsParasitiferAssumption DEF ParasitiferInit, Init, OwnsItsSessions, Started
<1>5. Connecting /\ Reached /\ CloseStopsAll
  BY <1>2, WsParasitiferAssumption
     DEF ParasitiferInit, Init, Connecting, Reached, CloseStopsAll
<1> QED
  BY <1>3, <1>4, <1>5 DEF PInv

-----------------------------------------------------------------------------
(* The sessions.                                                            *)

\* Lemma: what the sessions do leaves all that is said of their owner.
LEMMA SessionPInv ==
  ASSUME IInv, PInv, NEW c \in Conns, Session(c)
  PROVE  PInv'
<1>1. /\ SessionStep(c) \/ TlsStep(c)
      /\ UNCHANGED <<run, results, at, examined, conns, closeCall, closeAt>>
  BY DEF Session, owned, closeVars
<1>2. /\ TypeOK' /\ UNCHANGED <<stop, stopCall>>
      /\ \A d \in Conns : (pc'[d] = "idle") <=> (pc[d] = "idle")
  BY <1>1, SessionAlone
<1>3. Started' = Started
  BY <1>1 DEF Started
<1> QED
  BY <1>1, <1>2, <1>3 DEF PInv, ParasitiferTypeOK, OwnsItsSessions, Connecting, Reached,
     CloseStopsAll

-----------------------------------------------------------------------------
(* Run.                                                                     *)

\* Lemma: Run keeps the invariant as long as it makes no session.
LEMMA RunPInv ==
  ASSUME IInv, PInv, MustResolve \/ ConnectReturns \/ SkipEntry
  PROVE  PInv'
<1> USE WsParasitiferAssumption
<1>1. /\ UNCHANGED <<pc, stop, stopCall, conns, closeCall, closeAt>>
      /\ TypeOK' /\ Started' = Started
  BY DEF MustResolve, ConnectReturns, SkipEntry, NextEntry, vars, closeVars, IInv, TypeOK, Started
<1>2. Reached' /\ CloseStopsAll'
  BY <1>1 DEF MustResolve, ConnectReturns, SkipEntry, NextEntry, PInv, Reached, CloseStopsAll
<1>3. CASE MustResolve
  <2>1. ParasitiferTypeOK'
    BY <1>1, <1>3 DEF MustResolve, PInv, ParasitiferTypeOK, Connecting
  <2>2. Connecting'
    BY <1>1, <1>3 DEF MustResolve, PInv, Connecting
  <2>3. OwnsItsSessions'
    BY <1>1, <1>3 DEF MustResolve, PInv, Connecting, OwnsItsSessions, Started
  <2> QED
    BY <1>2, <2>1, <2>2, <2>3 DEF PInv
<1>4. CASE ConnectReturns
  BY <1>1, <1>2, <1>4 DEF ConnectReturns, PInv, ParasitiferTypeOK, Connecting, OwnsItsSessions
<1>5. CASE SkipEntry
  <2>1. /\ results' = results /\ run' = run /\ run = "connect"
        /\ at' = at + 1 /\ examined' = examined + 1
        /\ at <= Len(results) /\ (ConnLimit = 0 \/ examined # ConnLimit)
    BY <1>5 DEF SkipEntry, NextEntry, LimitReached, PInv, ParasitiferTypeOK
  <2>2. /\ Len(results) \in Nat /\ Len(conns) \in Nat /\ examined \in Nat /\ at \in Nat
        /\ \A i \in DOMAIN conns : conns[i] \in Nat
    BY Listed DEF PInv
  <2>3. ParasitiferTypeOK'
    BY <1>1, <2>1, <2>2 DEF PInv, ParasitiferTypeOK, Connecting
  <2>4. Connecting'
    BY <1>1, <2>1, <2>2 DEF PInv, Connecting
  <2> QED
    BY <1>1, <1>2, <2>1, <2>3, <2>4 DEF PInv, OwnsItsSessions
<1> QED
  BY <1>3, <1>4, <1>5

\* Lemma: the new session is the last in conns_, as its address is in results_.
LEMMA ConnectPInv ==
  ASSUME IInv, PInv, ConnectEntry
  PROVE  PInv'
<1> USE WsParasitiferAssumption
<1>1. /\ run = "connect" /\ UNCHANGED <<run, results, closeCall, closeAt, stop, stopCall>>
      /\ at' = at + 1 /\ examined' = examined + 1
      /\ at <= Len(results) /\ (ConnLimit = 0 \/ examined # ConnLimit)
      /\ results[at] = "v4" /\ conns' = Append(conns, at)
      /\ pc' = [pc EXCEPT ![at] = "start"]
  BY DEF ConnectEntry, NextEntry, LimitReached, Usable, Spawn, Goto, owner, closeVars,
     PInv, ParasitiferTypeOK
<1>2. /\ Len(results) \in Nat /\ Len(conns) \in Nat /\ examined \in Nat /\ at \in Nat
      /\ \A i \in DOMAIN conns : conns[i] \in Conns /\ conns[i] \in Nat
      /\ results \in Resolved /\ at \in DOMAIN results /\ at \in Conns
  <2>1. /\ Len(results) \in Nat /\ Len(conns) \in Nat /\ examined \in Nat /\ at \in Nat
        /\ \A i \in DOMAIN conns : conns[i] \in Conns /\ conns[i] \in Nat
        /\ at \in DOMAIN results
    BY <1>1, Listed DEF PInv
  <2>2. results \in Resolved
    BY <2>1 DEF PInv, ParasitiferTypeOK
  <2> QED
    BY <2>1, <2>2
<1>3. /\ conns' \in Seq(Conns) /\ Len(conns') = Len(conns) + 1
      /\ DOMAIN conns = 1..Len(conns) /\ DOMAIN conns' = 1..(Len(conns) + 1)
      /\ conns'[Len(conns) + 1] = at
      /\ \A i \in DOMAIN conns : conns'[i] = conns[i]
  BY <1>1, <1>2 DEF PInv, ParasitiferTypeOK
<1>4. TypeOK'
  <2>1. Spawn(at)
    BY DEF ConnectEntry
  <2> QED
    BY <1>2, <2>1, StepOK DEF SomeStep
<1>5. ParasitiferTypeOK'
  BY <1>1, <1>2, <1>3, <1>4 DEF PInv, ParasitiferTypeOK, Connecting
<1>6. Connecting'
  BY <1>1, <1>2, <1>3 DEF PInv, Connecting
<1>7. Started' = Started \cup {at}
  BY <1>2, <1>3 DEF Started
<1>8. OwnsItsSessions'
  <2>1. {c \in Conns : pc'[c] # "idle"} = {c \in Conns : pc[c] # "idle"} \cup {at}
    BY <1>1, <1>2 DEF IInv, TypeOK
  <2>2. \A i, j \in DOMAIN conns' : i < j => conns'[i] < conns'[j]
    BY <1>2, <1>3 DEF PInv, OwnsItsSessions, Connecting
  <2>3. ConnLimit # 0 => Len(conns') <= ConnLimit
    BY <1>5, <1>6, <1>2, <1>3, <1>1 DEF Connecting
  <2> QED
    BY <1>1, <1>7, <2>1, <2>2, <2>3 DEF PInv, OwnsItsSessions
<1>9. Reached' /\ CloseStopsAll'
  BY <1>1, <1>2, <1>3 DEF PInv, Reached, CloseStopsAll
<1> QED
  BY <1>5, <1>6, <1>8, <1>9 DEF PInv

-----------------------------------------------------------------------------
(* Close.                                                                   *)

LEMMA ClosePInv ==
  ASSUME IInv, PInv, CloseStarts \/ CloseStep
  PROVE  PInv'
<1>1. CASE CloseStarts \/ CloseReturns
  <2>1. TypeOK' /\ UNCHANGED <<pc, stop, stopCall, run, results, at, examined, conns>>
    BY <1>1 DEF CloseStarts, CloseReturns, vars, owned, IInv, TypeOK
  <2>2. OwnsItsSessions' /\ Connecting' /\ Started' = Started
    BY <2>1 DEF PInv, OwnsItsSessions, Connecting, Started
  <2>3. ParasitiferTypeOK' /\ Reached' /\ CloseStopsAll'
    BY <1>1, <2>1, <2>2 DEF CloseStarts, CloseReturns, AllStopped, PInv, ParasitiferTypeOK,
       Reached, CloseStopsAll, Started
  <2> QED
    BY <2>2, <2>3 DEF PInv
<1>2. CASE CloseStops \/ CloseStopEnds
  <2> DEFINE c == conns[closeAt]
  <2>1. /\ closeCall = "stopping" /\ closeAt \in 1..Len(conns) /\ Len(conns) \in Nat
        /\ DOMAIN conns = 1..Len(conns) /\ c \in Conns
        /\ \A i \in DOMAIN conns : conns[i] \in Conns
        /\ StopCall(c) \/ StopClose(c)
        /\ UNCHANGED <<run, results, at, examined, conns>>
    BY <1>2 DEF CloseStops, CloseStopEnds, owned, PInv, ParasitiferTypeOK
  <2>2. TypeOK' /\ pc' = pc
    BY <2>1, StepOK DEF SomeStep, StopCall, StopClose
  <2>3. OwnsItsSessions' /\ Connecting' /\ Started' = Started
    BY <2>1, <2>2 DEF PInv, OwnsItsSessions, Connecting, Started
  <2>4. CASE CloseStops
    <3>1. /\ stop' = [stop EXCEPT ![c] = TRUE] /\ stop \in [Conns -> BOOLEAN]
          /\ stopCall' = [stopCall EXCEPT ![c] = "closing"]
          /\ UNCHANGED <<closeCall, closeAt>>
      BY <2>4 DEF CloseStops, StopCall, closeVars, IInv, TypeOK
    <3>2. ParasitiferTypeOK'
      BY <2>1, <2>2, <3>1 DEF PInv, ParasitiferTypeOK
    <3>3. Reached'
      BY <2>1, <3>1 DEF PInv, Reached, IInv, TypeOK
    <3>4. CloseStopsAll'
      <4>1. ASSUME NEW i \in DOMAIN conns, NEW j \in DOMAIN conns, i < j, stop'[conns[j]]
            PROVE  stop'[conns[i]]
        <5>1. CASE i < closeAt
          BY <2>1, <3>1, <5>1 DEF PInv, Reached
        <5>2. CASE i = closeAt
          BY <2>1, <3>1, <5>2
        <5>3. CASE i > closeAt
          <6>1. conns[closeAt] < conns[j] /\ conns[closeAt] \in Nat /\ conns[j] \in Nat
            BY <2>1, <4>1, <5>3, Listed DEF PInv, OwnsItsSessions
          <6>2. stop[conns[j]]
            BY <2>1, <3>1, <4>1, <6>1
          <6> QED
            BY <2>1, <3>1, <4>1, <6>2 DEF PInv, CloseStopsAll
        <5> QED
          BY <2>1, <5>1, <5>2, <5>3
      <4> QED
        BY <2>1, <3>1, <4>1 DEF CloseStopsAll
    <3> QED
      BY <2>3, <3>2, <3>3, <3>4 DEF PInv
  <2>5. CASE CloseStopEnds
    <3>1. /\ stop' = stop /\ stop[c]
          /\ \A d \in Conns : stopCall'[d] # "none" => stopCall[d] # "none"
      BY <2>1, <2>5 DEF CloseStopEnds, StopClose, PInv, Reached, IInv, TypeOK
    <3>2. \/ closeAt' = closeAt + 1 /\ closeCall' = closeCall
          \/ closeAt' = closeAt /\ closeCall' = "threw"
      BY <2>5 DEF CloseStopEnds, NextOrThrow
    <3>3. ParasitiferTypeOK'
      BY <2>1, <2>2, <3>2 DEF PInv, ParasitiferTypeOK
    <3>4. Reached'
      BY <2>1, <3>1, <3>2 DEF PInv, Reached
    <3>5. CloseStopsAll'
      BY <2>1, <3>1, <3>2 DEF PInv, CloseStopsAll
    <3> QED
      BY <2>3, <3>3, <3>4, <3>5 DEF PInv
  <2> QED
    BY <1>2, <2>4, <2>5
<1> QED
  BY <1>1, <1>2 DEF CloseStep

-----------------------------------------------------------------------------
(* The invariant.                                                           *)

\* Lemma: every step is one of WsConn, or changes nothing there.
LEMMA StepRefines == ASSUME PInv, [ParasitiferNext]_allVars PROVE [Next]_vars
<1>1. CASE MustResolve \/ ConnectReturns \/ SkipEntry \/ CloseStarts \/ CloseReturns
  BY <1>1 DEF MustResolve, ConnectReturns, SkipEntry, CloseStarts, CloseReturns
<1>2. CASE ConnectEntry
  <2>1. at \in Conns
    BY <1>2, WsParasitiferAssumption
       DEF ConnectEntry, NextEntry, LimitReached, PInv, ParasitiferTypeOK
  <2> QED
    BY <1>2, <2>1 DEF ConnectEntry, Next
<1>3. CASE CloseStops \/ CloseStopEnds
  <2>1. conns[closeAt] \in Conns
    BY <1>3 DEF CloseStops, CloseStopEnds, PInv, ParasitiferTypeOK
  <2> QED
    BY <1>3, <2>1 DEF CloseStops, CloseStopEnds, Next
<1>4. CASE \E c \in Conns : Session(c)
  BY <1>4 DEF Session, Next
<1>5. CASE UNCHANGED allVars
  BY <1>5 DEF allVars
<1> QED
  BY <1>1, <1>2, <1>3, <1>4, <1>5 DEF ParasitiferNext, RunStep, CloseStep

LEMMA NextPInv ==
  ASSUME IInv, PInv, [ParasitiferNext]_allVars
  PROVE  PInv'
<1>1. CASE UNCHANGED allVars
  BY <1>1 DEF allVars, vars, owned, closeVars, PInv, ParasitiferTypeOK, TypeOK,
     OwnsItsSessions, Started, Connecting, Reached, CloseStopsAll
<1> QED
  BY <1>1, SessionPInv, RunPInv, ConnectPInv, ClosePInv DEF ParasitiferNext, RunStep

LEMMA AlwaysPInv == ParasitiferSpec => [](PInv /\ IInv)
<1>1. ParasitiferInit => PInv /\ IInv
  BY InitPInv, InvInit DEF ParasitiferInit
<1>2. PInv /\ IInv /\ [ParasitiferNext]_allVars => (PInv /\ IInv)'
  <2> SUFFICES ASSUME PInv, IInv, [ParasitiferNext]_allVars PROVE PInv' /\ IInv'
    OBVIOUS
  <2> QED
    BY StepRefines, InvStep, NextPInv
<1> QED
  BY <1>1, <1>2, PTL DEF ParasitiferSpec

\* Theorem: with their Parasitifer, the sessions behave as WsConn says, so that
\* all that is proved of it holds here.
THEOREM SessionsAsSpecified == ParasitiferSpec => Spec
<1>1. ParasitiferInit => Init
  BY DEF ParasitiferInit
<1>2. PInv /\ [ParasitiferNext]_allVars => [Next]_vars
  BY StepRefines
<1> QED
  BY <1>1, <1>2, AlwaysPInv, PTL DEF ParasitiferSpec, Spec

\* Theorem: so the sessions a Parasitifer owns implement the feed, which is
\* what the relay assumes of them.
THEOREM OwnedSessionsFeed == ParasitiferSpec => ImplementsFeed
BY SessionsAsSpecified, Refinement, PTL

\* Theorem: the Parasitifer keeps its types.
THEOREM OwnerTypeCorrect == ParasitiferSpec => []ParasitiferTypeOK
<1>1. PInv => ParasitiferTypeOK
  BY DEF PInv
<1> QED
  BY <1>1, AlwaysPInv, PTL

\* Theorem: conns_ holds the sessions that run, each once, in the order of
\* their addresses, all of IPv4 and within the limit.
THEOREM OwnsExactly == ParasitiferSpec => []OwnsItsSessions
<1>1. PInv => OwnsItsSessions
  BY DEF PInv
<1> QED
  BY <1>1, AlwaysPInv, PTL

\* Theorem: a Close that returns has stopped every session, and whatever Close
\* has stopped is a front part of conns_.
THEOREM CloseReachesAll == ParasitiferSpec => []CloseStopsAll
<1>1. PInv => CloseStopsAll
  BY DEF PInv
<1> QED
  BY <1>1, AlwaysPInv, PTL

-----------------------------------------------------------------------------
(* A Close that throws.                                                     *)

\* Session i has ended, j behind it is not stopped, and no Close is past i.
Behind(i, j) ==
  /\ pc[i] = "done" /\ ~stop[j]
  /\ closeCall = "stopping" => closeAt \in DOMAIN conns /\ conns[closeAt] <= i

\* Lemma: no step carries Close past a session that has ended.
LEMMA StaysBehind ==
  ASSUME IInv, PInv, [ParasitiferNext]_allVars, NEW i \in Conns, NEW j \in Conns,
         i < j, Behind(i, j)
  PROVE  Behind(i, j)'
<1> USE WsParasitiferAssumption
<1>1. i \in Nat /\ j \in Nat /\ i # j /\ Dead(ws[i])
  BY DEF Behind, IInv, SessionOK, Ending
<1>2. PICK n \in DOMAIN conns : conns[n] = i
  BY DEF Behind, PInv, OwnsItsSessions, Started
<1>3. /\ DOMAIN conns = 1..Len(conns) /\ Len(conns) \in Nat
      /\ \A m \in DOMAIN conns : conns[m] \in Conns /\ conns[m] \in Nat
      /\ \A m \in DOMAIN conns : conns[m] < i => m < n
      /\ \A m \in DOMAIN conns : m <= n => conns[m] <= i
  <2>1. /\ DOMAIN conns = 1..Len(conns) /\ Len(conns) \in Nat
        /\ \A m \in DOMAIN conns : conns[m] \in Conns /\ conns[m] \in Nat
    BY Listed DEF PInv
  <2>2. \A l, m \in DOMAIN conns : l < m => conns[l] < conns[m]
    BY DEF PInv, OwnsItsSessions
  <2> QED
    BY <1>1, <1>2, <2>1, <2>2
<1>4. CASE MustResolve \/ ConnectReturns \/ SkipEntry
  BY <1>4 DEF MustResolve, ConnectReturns, SkipEntry, NextEntry, vars, closeVars, Behind
<1>5. CASE ConnectEntry
  <2>1. pc'[i] = "done" /\ stop' = stop /\ closeCall' = closeCall
    BY <1>5 DEF ConnectEntry, NextEntry, Spawn, Goto, owner, closeVars, Behind, IInv, TypeOK
  <2>2. closeCall # "stopping"
    BY <1>5 DEF ConnectEntry, NextEntry, PInv, Reached
  <2> QED
    BY <2>1, <2>2 DEF Behind
<1>6. CASE CloseStarts
  BY <1>2, <1>3, <1>6 DEF CloseStarts, vars, owned, Behind
<1>7. CASE CloseStops
  <2>1. /\ pc' = pc /\ UNCHANGED <<conns, closeCall, closeAt>>
        /\ stop' = [stop EXCEPT ![conns[closeAt]] = TRUE]
        /\ closeAt \in DOMAIN conns /\ conns[closeAt] <= i
    BY <1>7 DEF CloseStops, StopCall, owned, closeVars, Behind
  <2>2. conns[closeAt] # j
    BY <1>1, <1>3, <2>1
  <2> QED
    BY <2>1, <2>2 DEF Behind, IInv, TypeOK
<1>8. CASE CloseStopEnds
  <2>1. /\ pc' = pc /\ stop' = stop /\ conns' = conns
        /\ closeAt \in DOMAIN conns /\ conns[closeAt] <= i
        /\ StopClose(conns[closeAt]) /\ NextOrThrow(conns[closeAt])
    BY <1>8 DEF CloseStopEnds, StopClose, owned, Behind
  <2>2. CASE conns[closeAt] = i
    <3>1. stopCall'[i] = "threw"
      BY <1>1, <2>1, <2>2 DEF StopClose, Dead, IInv, TypeOK
    <3> QED
      BY <2>1, <2>2, <3>1 DEF NextOrThrow, Behind
  <2>3. CASE conns[closeAt] # i
    <3>1. conns[closeAt] < i
      BY <1>1, <1>3, <2>1, <2>3
    <3>2. closeAt + 1 <= n /\ closeAt + 1 \in DOMAIN conns
      BY <1>2, <1>3, <2>1, <3>1
    <3> QED
      BY <1>3, <2>1, <3>2 DEF NextOrThrow, Behind
  <2> QED
    BY <2>2, <2>3
<1>9. CASE CloseReturns
  BY <1>9 DEF CloseReturns, vars, Behind
<1>10. ASSUME NEW c \in Conns, Session(c) PROVE Behind(i, j)'
  <2>1. /\ SessionStep(c) \/ TlsStep(c)
        /\ UNCHANGED <<conns, closeCall, closeAt>>
    BY <1>10 DEF Session, owned, closeVars
  <2>2. stop' = stop /\ pc[c] # "done" /\ OthersKeep(c)
    BY <2>1, SessionAlone, Locality DEF SomeStep
  <2>3. pc'[i] = pc[i]
    BY <2>2 DEF OthersKeep, Behind
  <2> QED
    BY <2>1, <2>2, <2>3 DEF Behind
<1>11. CASE UNCHANGED allVars
  BY <1>11 DEF allVars, vars, owned, closeVars, Behind
<1> QED
  BY <1>4, <1>5, <1>6, <1>7, <1>8, <1>9, <1>10, <1>11
     DEF ParasitiferNext, RunStep, CloseStep

\* Theorem: no later call of Close reaches a session behind one that has ended.
THEOREM OutOfReach == ParasitiferSpec => TailOutOfReach
<1>1. ASSUME NEW i \in Conns, NEW j \in Conns, i < j
      PROVE  ParasitiferSpec =>
               [](pc[i] = "done" /\ closeCall # "stopping" /\ ~stop[j] => []~stop[j])
  <2>1. pc[i] = "done" /\ closeCall # "stopping" /\ ~stop[j] => Behind(i, j)
    BY DEF Behind
  <2>2. IInv /\ PInv /\ Behind(i, j) /\ [ParasitiferNext]_allVars => Behind(i, j)'
    BY <1>1, StaysBehind
  <2>3. Behind(i, j) => ~stop[j]
    BY DEF Behind
  <2> QED
    BY <2>1, <2>2, <2>3, AlwaysPInv, PTL DEF ParasitiferSpec
<1> QED
  BY <1>1 DEF TailOutOfReach
=============================================================================
