-------------------------- MODULE WsLifetime_proof --------------------------
(***************************************************************************)
(* Proofs about the deletion of streams, entries and connections: whatever *)
(* the application does and when, a deleted one is used only if a misuse   *)
(* that the model names has happened before.                               *)
(***************************************************************************)
EXTENDS WsLifetime, WsConn_proof

\* The two destructors are all that deletes a stream for good.
Objects ==
  \A c \in Conns :
    /\ object[c] = IF c \in Delivered /\ (~there[c] \/ ~up) THEN "deleted" ELSE "there"
    /\ ~there[c] => c \in Delivered

\* What a session or a Stop may still use is gone only by a misuse.
Blamed ==
  \A c \in Conns :
    /\ ~there[c] => Ended(c) \/ "delete" \in misused
    /\ c \in Delivered /\ ~up => Ended(c) \/ "destroy" \in misused
    /\ ~entry[c] => Ended(c) \/ "run" \in misused
    /\ held[c] = "deleted" => "stop" \in misused
    /\ stopCall[c] = "closing" /\ pc[c] \in ReConnecting => "stop" \in misused

\* stop_ is set as long as a Stop goes on, and a destructor that overlaps it is
\* a misuse, although the session may have ended long since.
Stopping ==
  \A c \in Conns :
    /\ held[c] # "none" => stopCall[c] = "closing"
    /\ stopCall[c] = "closing" => stop[c] /\ c \in Delivered
    /\ stopCall[c] = "closing" /\ Sound =>
         (there[c] \/ "delete" \in misused) /\ (up \/ "destroy" \in misused)
    /\ pc[c] = "threw" => Dead(ws[c])

\* A connection used or deleted once too often is one that was deleted, unless
\* it was looked up in a Parasitifer that is gone.
Told ==
  /\ faults \cap {"conn", "twice"} # {} =>
       (\E c \in Conns : ~there[c]) \/ "stop" \in misused
  /\ Sound /\ ~up => \A c \in Conns : there[c]

Parts == LifetimeTypeOK /\ Objects /\ Blamed /\ Stopping /\ Told /\ StreamAlive /\ EntryAlive
LInv == IInv /\ Parts

LEMMA InitLInv == LifetimeInit => LInv
<1> SUFFICES ASSUME LifetimeInit PROVE LInv
  OBVIOUS
<1>1. IInv
  BY InvInit DEF LifetimeInit
<1>2. LifetimeTypeOK
  BY <1>1 DEF LifetimeInit, LifetimeTypeOK, IInv
<1>3. Objects /\ Blamed /\ Stopping
  BY DEF LifetimeInit, Init, Objects, Blamed, Stopping, Delivered
<1>4. Told /\ StreamAlive /\ EntryAlive
  BY DEF LifetimeInit, Told, StreamAlive, EntryAlive
<1> QED
  BY <1>1, <1>2, <1>3, <1>4 DEF LInv, Parts

-----------------------------------------------------------------------------
(* The sessions.                                                            *)

LEMMA StartLInv ==
  ASSUME LInv, NEW c \in Conns, Start(c)
  PROVE  Parts'
<1>1. /\ UNCHANGED <<held, object, there, entry, up, faults, misused, stop, stopCall, ws>>
      /\ up /\ pc[c] = "idle" /\ pc' = [pc EXCEPT ![c] = "start"]
      /\ pc \in [Conns -> Labels]
  BY DEF Start, Spawn, Goto, objects, stream, owner, LInv, IInv, TypeOK
<1>2. TypeOK'
  BY StepOK DEF SomeStep, Start, LInv
<1>3. LifetimeTypeOK' /\ Told' /\ StreamAlive' /\ EntryAlive'
  BY <1>1, <1>2 DEF LInv, Parts, LifetimeTypeOK, Told, Sound, StreamAlive, EntryAlive
<1>4. /\ Delivered' = Delivered \cup {c} /\ c \notin Delivered
      /\ \A d \in Conns : Ended(d)' <=> Ended(d)
  BY <1>1 DEF Delivered, Ended
<1>5. Objects' /\ Blamed' /\ Stopping'
  BY <1>1, <1>4 DEF LInv, Parts, Objects, Blamed, Stopping, Sound, ReConnecting
<1> QED
  BY <1>3, <1>5 DEF Parts

\* Lemma: a session that runs uses nothing deleted unless there was a misuse.
LEMMA SessionLInv ==
  ASSUME LInv, NEW c \in Conns, Session(c)
  PROVE  Parts'
<1>1. /\ SessionStep(c) \/ TlsStep(c)
      /\ UNCHANGED <<object, there, entry, up, misused>> /\ Sound
      /\ \E address \in BOOLEAN : Used(c, address)
      /\ \/ held' = held
         \/ pc[c] = "rate" /\ Renewed(c)
  BY DEF Session, SessionStep, NewStream, UsesEntry, MayUseEntry, ReadFailed
<1>2. /\ TypeOK' /\ UNCHANGED <<stop, stopCall>>
      /\ pc[c] \notin {"idle", "done", "threw"}
      /\ pc'[c] = "threw" => Dead(ws'[c])
      /\ \A d \in Conns : (pc'[d] = "idle") <=> (pc[d] = "idle")
  BY <1>1, SessionAlone DEF LInv
<1>3. OthersKeep(c) /\ (stop[c] /\ pc'[c] \in ReConnecting => pc[c] \in ReConnecting)
  <2>1. ~StopCall(c)
    <3>1. UNCHANGED stopCall
      BY <1>2
    <3> QED
      BY <3>1 DEF StopCall, LInv, IInv, TypeOK
  <2> QED
    BY <1>1, <2>1, Locality, StepsFeed DEF SomeStep, LInv, NoNewReConnect
<1>4. Delivered' = Delivered /\ \A d \in Conns : Ended(d) => Ended(d)'
  BY <1>2, <1>3 DEF Delivered, Ended, OthersKeep
<1>5. \A d \in Conns :
        \/ held'[d] = held[d]
        \/ held'[d] = "deleted" /\ d = c /\ held[c] = "current" /\ pc[c] = "rate"
  <2>1. held \in [Conns -> {"none", "current", "deleted"}]
    BY DEF LInv, Parts, LifetimeTypeOK
  <2>2. CASE held' = held
    BY <2>2
  <2>3. CASE pc[c] = "rate" /\ Renewed(c)
    BY <2>1, <2>3 DEF Renewed
  <2> QED
    BY <1>1, <2>2, <2>3
<1>6. LifetimeTypeOK'
  BY <1>1, <1>2 DEF Used, Renewed, LInv, Parts, LifetimeTypeOK, Sound
<1>7. Objects'
  BY <1>1, <1>4 DEF LInv, Parts, Objects
<1>8. Blamed'
  <2> SUFFICES ASSUME NEW d \in Conns
               PROVE  /\ held'[d] = "deleted" => "stop" \in misused
                      /\ stopCall[d] = "closing" /\ pc'[d] \in ReConnecting => "stop" \in misused
    BY <1>1, <1>2, <1>4 DEF LInv, Parts, Blamed
  <2>1. held'[d] = "deleted" => "stop" \in misused
    BY <1>5 DEF LInv, Parts, Blamed, Stopping, ReConnecting
  <2>2. stopCall[d] = "closing" /\ pc'[d] \in ReConnecting => pc[d] \in ReConnecting
    BY <1>3 DEF LInv, Parts, Stopping, OthersKeep
  <2> QED
    BY <2>1, <2>2 DEF LInv, Parts, Blamed
<1>9. Stopping'
  BY <1>1, <1>2, <1>3, <1>4, <1>5 DEF LInv, Parts, Stopping, Sound, OthersKeep
<1>10. /\ faults' \subseteq {"stream", "entry"}
       /\ "stream" \in faults' => object[c] = "deleted" \/ ~there[c]
       /\ "entry" \in faults' => ~entry[c]
  BY <1>1 DEF Used, Sound
<1>11. Told'
  BY <1>1, <1>10 DEF LInv, Parts, Told, Sound
<1>12. StreamAlive' /\ EntryAlive'
  BY <1>1, <1>2, <1>10 DEF LInv, Parts, Objects, Blamed, Ended, StreamAlive, EntryAlive
<1> QED
  BY <1>6, <1>7, <1>8, <1>9, <1>11, <1>12 DEF Parts

\* Lemma: so it is with a control frame.
LEMMA ControlLInv ==
  ASSUME LInv, NEW c \in Conns, ControlCallBack(c)
  PROVE  Parts'
<1>1. /\ UNCHANGED <<pc, ws, stop, stopCall, held, object, there, entry, up, misused>> /\ TypeOK'
      /\ Sound /\ pc[c] = "read"
      /\ faults' \subseteq {"stream", "entry"}
      /\ "stream" \in faults' => object[c] = "deleted" \/ ~there[c]
      /\ "entry" \in faults' => ~entry[c]
  BY DEF ControlCallBack, Used, Sound, vars, LInv, IInv, TypeOK
<1>2. Delivered' = Delivered /\ \A d \in Conns : Ended(d)' <=> Ended(d)
  BY <1>1 DEF Delivered, Ended
<1>3. LifetimeTypeOK' /\ Objects' /\ Blamed' /\ Stopping' /\ Told'
  BY <1>1, <1>2 DEF LInv, Parts, LifetimeTypeOK, Objects, Blamed, Stopping, Told, Sound
<1>4. StreamAlive' /\ EntryAlive'
  BY <1>1 DEF LInv, Parts, Objects, Blamed, Ended, StreamAlive, EntryAlive
<1> QED
  BY <1>3, <1>4 DEF Parts

-----------------------------------------------------------------------------
(* Stop.                                                                    *)

LEMMA StopLInv ==
  ASSUME LInv, NEW c \in Conns, StopStep(c)
  PROVE  Parts'
<1>1. CASE StopSets(c)
  <2>1. /\ UNCHANGED <<pc, ws, held, object, there, entry, up>> /\ Sound
        /\ pc[c] # "idle"
        /\ stop' = [stop EXCEPT ![c] = TRUE] /\ stopCall' = [stopCall EXCEPT ![c] = "closing"]
        /\ misused' = IF pc[c] \in ReConnecting \/ ~up THEN misused \cup {"stop"} ELSE misused
        /\ faults' = IF there[c] /\ up THEN {} ELSE {"conn"}
    BY <1>1 DEF StopSets, StopCall, stream, Misuse, Fault, Sound
  <2>2. TypeOK'
    BY <1>1, StepOK DEF SomeStep, StopSets, LInv
  <2>3. Delivered' = Delivered /\ c \in Delivered /\ \A d \in Conns : Ended(d)' <=> Ended(d)
    BY <2>1 DEF Delivered, Ended
  <2>4. LifetimeTypeOK'
    BY <2>1, <2>2 DEF LInv, Parts, LifetimeTypeOK
  <2>5. Objects' /\ Blamed'
    BY <2>1, <2>3 DEF LInv, Parts, Objects, Blamed, IInv, TypeOK
  <2>6. Stopping'
    BY <2>1, <2>3 DEF LInv, Parts, Stopping, Sound, IInv, TypeOK
  <2>7. Told' /\ StreamAlive' /\ EntryAlive'
    BY <2>1 DEF LInv, Parts, Told, Sound, StreamAlive, EntryAlive
  <2> QED
    BY <2>4, <2>5, <2>6, <2>7 DEF Parts
<1>2. CASE StopReads(c)
  <2>1. /\ UNCHANGED <<pc, ws, stop, stopCall, object, there, entry, up, misused>> /\ Sound
        /\ stopCall[c] = "closing" /\ held' = [held EXCEPT ![c] = "current"] /\ TypeOK'
        /\ faults' = IF there[c] THEN {} ELSE {"conn"}
    BY <1>2 DEF StopReads, Fault, Sound, vars, LInv, IInv, TypeOK
  <2>2. Delivered' = Delivered /\ \A d \in Conns : Ended(d)' <=> Ended(d)
    BY <2>1 DEF Delivered, Ended
  <2>3. LifetimeTypeOK' /\ Objects' /\ Blamed'
    BY <2>1, <2>2 DEF LInv, Parts, LifetimeTypeOK, Objects, Blamed
  <2>4. Stopping' /\ Told' /\ StreamAlive' /\ EntryAlive'
    BY <2>1, <2>2 DEF LInv, Parts, LifetimeTypeOK, Stopping, Told, Sound, StreamAlive, EntryAlive
  <2> QED
    BY <2>3, <2>4 DEF Parts
<1>3. CASE StopEndsClose(c)
  <2>1. /\ UNCHANGED <<pc, stop, object, there, entry, up, misused>> /\ Sound
        /\ held[c] # "none" /\ held' = [held EXCEPT ![c] = "none"]
        /\ stopCall[c] = "closing" /\ stopCall'[c] \in {"returned", "threw"}
        /\ \A d \in Conns \ {c} : stopCall'[d] = stopCall[d] /\ ws'[d] = ws[d]
        /\ Dead(ws[c]) => Dead(ws'[c]) /\ stopCall'[c] = "threw"
    BY <1>3 DEF StopEndsClose, StopClose, Dead, Broken, SetWs, LInv, IInv, TypeOK
  <2>2. TypeOK'
    BY <1>3, StepOK DEF SomeStep, StopEndsClose, LInv
  <2>3. Delivered' = Delivered /\ \A d \in Conns : Ended(d)' <=> Ended(d)
    BY <2>1 DEF Delivered, Ended
  <2>4. /\ faults' \subseteq {"stream", "entry"}
        /\ "stream" \in faults' => held[c] = "deleted" \/ object[c] = "deleted"
        /\ "entry" \in faults' => ~entry[c] /\ stopCall'[c] = "returned"
    BY <1>3 DEF StopEndsClose, Sound, Logs
  <2>5. Ended(c) => Dead(ws[c])
    BY DEF LInv, Parts, Stopping, IInv, SessionOK, Ending, Ended
  <2>6. LifetimeTypeOK'
    BY <2>1, <2>2, <2>4 DEF LInv, Parts, LifetimeTypeOK
  <2>7. Objects' /\ Blamed' /\ Stopping'
    BY <2>1, <2>3 DEF LInv, Parts, LifetimeTypeOK, Objects, Blamed, Stopping, Sound
  <2>8. Told'
    BY <2>1, <2>4 DEF LInv, Parts, Told, Sound
  <2>9. StreamAlive' /\ EntryAlive'
    BY <2>1, <2>4, <2>5 DEF LInv, Parts, Objects, Blamed, Stopping, StreamAlive, EntryAlive
  <2> QED
    BY <2>6, <2>7, <2>8, <2>9 DEF Parts
<1> QED
  BY <1>1, <1>2, <1>3 DEF StopStep

-----------------------------------------------------------------------------
(* The application.                                                         *)

LEMMA ApplicationLInv ==
  ASSUME LInv, Application
  PROVE  Parts'
<1>1. /\ UNCHANGED <<pc, ws, stop, stopCall, held>> /\ TypeOK' /\ Sound
      /\ Delivered' = Delivered /\ \A d \in Conns : Ended(d)' <=> Ended(d)
  BY DEF Application, RunAgain, Destroy, DeleteConn, vars, LInv, IInv, TypeOK, Delivered, Ended
<1>2. CASE RunAgain
  <2>1. /\ UNCHANGED <<object, there, up, faults>>
        /\ entry' = [c \in Conns |-> entry[c] /\ c \notin Delivered]
        /\ misused' = IF AllAtRest THEN misused ELSE misused \cup {"run"}
    BY <1>2 DEF RunAgain, Misuse
  <2>2. Blamed'
    BY <1>1, <2>1 DEF LInv, Parts, LifetimeTypeOK, Blamed, AllAtRest, AtRest
  <2> QED
    BY <1>1, <2>1, <2>2 DEF LInv, Parts, LifetimeTypeOK, Objects, Stopping, Told, Sound,
       StreamAlive, EntryAlive
<1>3. ASSUME NEW c \in Conns, DeleteConn(c) PROVE Parts'
  <2>1. /\ UNCHANGED <<entry, up>> /\ c \in Delivered /\ there[c]
        /\ there' = [there EXCEPT ![c] = FALSE] /\ object' = [object EXCEPT ![c] = "deleted"]
        /\ faults' = IF object[c] = "deleted" THEN {"twice"} ELSE {}
        /\ misused' = IF AtRest(c) THEN misused ELSE misused \cup {"delete"}
    BY <1>3 DEF DeleteConn, Misuse, Fault, Sound
  <2>2. LifetimeTypeOK'
    BY <1>1, <2>1 DEF LInv, Parts, LifetimeTypeOK
  <2>3. Objects' /\ Blamed' /\ Stopping'
    BY <1>1, <2>1 DEF LInv, Parts, LifetimeTypeOK, Objects, Blamed, Stopping, Sound, AtRest
  <2>4. Told' /\ StreamAlive' /\ EntryAlive'
    BY <1>1, <2>1 DEF LInv, Parts, LifetimeTypeOK, Objects, Told, Sound, StreamAlive, EntryAlive
  <2> QED
    BY <2>2, <2>3, <2>4 DEF Parts
<1>4. CASE Destroy
  <2>1. /\ UNCHANGED <<there, entry>> /\ up /\ up' = FALSE
        /\ object' = [c \in Conns |-> IF c \in Delivered THEN "deleted" ELSE object[c]]
        /\ faults' = IF \E c \in Delivered : ~there[c] THEN {"conn"} ELSE {}
        /\ misused' = IF AllAtRest THEN misused ELSE misused \cup {"destroy"}
    BY <1>4 DEF Destroy, Misuse, Fault, Sound, LeavesPointer
  <2>2. LifetimeTypeOK'
    BY <1>1, <2>1 DEF LInv, Parts, LifetimeTypeOK
  <2>3. Objects' /\ Blamed' /\ Stopping'
    BY <1>1, <2>1 DEF LInv, Parts, Objects, Blamed, Stopping, Sound, AllAtRest, AtRest
  <2>4. Told' /\ StreamAlive' /\ EntryAlive'
    BY <1>1, <2>1 DEF LInv, Parts, Objects, Told, Sound, StreamAlive, EntryAlive, Delivered
  <2> QED
    BY <2>2, <2>3, <2>4 DEF Parts
<1> QED
  BY <1>2, <1>3, <1>4 DEF Application

-----------------------------------------------------------------------------
(* The invariant.                                                           *)

\* Lemma: every step is one of WsConn, or changes nothing there.
LEMMA StepRefines == ASSUME [LifetimeNext]_allVars PROVE [Next]_vars
<1>1. CASE Application
  BY <1>1 DEF Application, RunAgain, Destroy, DeleteConn
<1>2. ASSUME NEW c \in Conns, Start(c) \/ Session(c) \/ ControlCallBack(c) PROVE [Next]_vars
  BY <1>2 DEF Start, Session, ControlCallBack, SessionStep, Next
<1>3. ASSUME NEW c \in Conns, StopStep(c) PROVE [Next]_vars
  BY <1>3 DEF StopStep, StopSets, StopReads, StopEndsClose, Next
<1>4. CASE UNCHANGED allVars
  BY <1>4 DEF allVars
<1> QED
  BY <1>1, <1>2, <1>3, <1>4 DEF LifetimeNext

LEMMA NextLInv == LInv /\ [LifetimeNext]_allVars => LInv'
<1> SUFFICES ASSUME LInv, [LifetimeNext]_allVars PROVE LInv'
  OBVIOUS
<1>1. IInv'
  BY StepRefines, InvStep DEF LInv
<1>2. CASE UNCHANGED allVars
  <2>1. Parts'
    BY <1>2 DEF allVars, vars, objects, LInv, IInv, TypeOK, Parts, LifetimeTypeOK, Objects,
       Blamed, Stopping, Told, StreamAlive, EntryAlive, Delivered, Ended, Sound
  <2> QED
    BY <1>1, <2>1 DEF LInv
<1> QED
  BY <1>1, <1>2, StartLInv, SessionLInv, ControlLInv, StopLInv, ApplicationLInv DEF LifetimeNext, LInv

LEMMA AlwaysLInv == LifetimeSpec => []LInv
BY InitLInv, NextLInv, PTL DEF LifetimeSpec

\* Theorem: with what deletes and uses them, the sessions behave as WsConn says.
THEOREM SessionsAsSpecified == LifetimeSpec => Spec
<1>1. LifetimeInit => Init
  BY DEF LifetimeInit
<1>2. [LifetimeNext]_allVars => [Next]_vars
  BY StepRefines
<1> QED
  BY <1>1, <1>2, PTL DEF LifetimeSpec, Spec

\* Theorem: what is there and what is deleted keep their types.
THEOREM LifetimeTypeCorrect == LifetimeSpec => []LifetimeTypeOK
<1>1. LInv => LifetimeTypeOK
  BY DEF LInv, Parts
<1> QED
  BY <1>1, AlwaysLInv, PTL

\* Theorem: a deleted stream is used only after a Stop during ReConnect's close
\* or back-off, or a destructor that came before the end of the session or while
\* a Stop of it was blocked in its close.
THEOREM StreamsUsedAlive == LifetimeSpec => []StreamAlive
<1>1. LInv => StreamAlive
  BY DEF LInv, Parts
<1> QED
  BY <1>1, AlwaysLInv, PTL

\* Theorem: a replaced entry is used, by a session, for a control frame or by a
\* Stop, only after a Run that came before they had come to rest.
THEOREM EntriesUsedAlive == LifetimeSpec => []EntryAlive
<1>1. LInv => EntryAlive
  BY DEF LInv, Parts
<1> QED
  BY <1>1, AlwaysLInv, PTL

\* Theorem: destroyed when all sessions and Stops have come to rest, a Parasitifer
\* deletes each stream, and once.
THEOREM StreamsDeletedOnce == LifetimeSpec => []DeletedOnce
<1>1. LInv => DeletedOnce
  BY DEF LInv, Parts, LifetimeTypeOK, Objects, Told, StreamAlive, EntryAlive, DeletedOnce,
     Sound, Delivered
<1> QED
  BY <1>1, AlwaysLInv, PTL

\* Theorem: a connection deleted besides its Parasitifer always leads to a fault.
THEOREM NoTimeToDelete == LifetimeSpec => []NeverBoth
<1>1. LInv => NeverBoth
  BY DEF LInv, Parts, Told, NeverBoth, Delivered
<1> QED
  BY <1>1, AlwaysLInv, PTL
=============================================================================
