----------------------------- MODULE WsLifetime -----------------------------
(***************************************************************************)
(* Who deletes what in kn/net/src/ws, and who still uses it: the stream a  *)
(* session owns (conn.h), which ReConnect replaces, Stop uses on another   *)
(* thread, and both the destructors of the connection and of the           *)
(* Parasitifer delete; the entry of results_ a session refers to, which    *)
(* the next Run replaces; and the connection itself, which conns_ refers   *)
(* to (parasitifer.h).  The session is the one of WsConn, step by step.    *)
(*                                                                         *)
(* Nothing in the code keeps the application from doing any of it at any   *)
(* time: while sessions run, and while a Stop is blocked in its close.     *)
(* `misused' records what it does at a wrong time, `faults' the use of     *)
(* what is deleted; the model ends there, for what the code does then is   *)
(* undefined.  Only calls on a Parasitifer that is gone already are left   *)
(* out, but for the Stops that a Close still makes.                        *)
(***************************************************************************)
EXTENDS WsConn

VARIABLES
  held,     \* the stream that a Stop under way has read from stream_
  object,   \* the stream that stream_ points to; null if stream_ is
  there,    \* is the connection there?
  entry,    \* is the entry of results_ there that entry_ refers to?
  up,       \* is the Parasitifer there?
  faults,   \* what was used, or deleted again, after its deletion
  misused   \* what the application did at a wrong time

objects == <<held, object, there, entry, up, faults, misused>>
allVars == <<vars, objects>>

LifetimeTypeOK ==
  /\ TypeOK
  /\ held \in [Conns -> {"none", "current", "deleted"}]
  /\ object \in [Conns -> {"there", "deleted", "null"}]
  /\ there \in [Conns -> BOOLEAN]
  /\ entry \in [Conns -> BOOLEAN]
  /\ up \in BOOLEAN
  /\ faults \subseteq {"stream", "entry", "conn", "twice"}
  /\ misused \subseteq {"stop", "run", "destroy", "delete"}

LifetimeInit ==
  /\ Init
  /\ held = [c \in Conns |-> "none"]
  /\ object = [c \in Conns |-> "there"]
  /\ there = [c \in Conns |-> TRUE]
  /\ entry = [c \in Conns |-> TRUE]
  /\ up = TRUE
  /\ faults = {} /\ misused = {}

Sound == faults = {}
Delivered == {c \in Conns : pc[c] # "idle"}
Ended(c) == pc[c] \in {"done", "threw"}

\* The session has ended, and no Stop of it is on its way.
AtRest(c) == Ended(c) /\ stopCall[c] # "closing"
AllAtRest == \A c \in Delivered : AtRest(c)

Fault(kind, happens) == faults' = IF happens THEN faults \cup {kind} ELSE faults
Misuse(kind, wrong) == misused' = IF wrong THEN misused \cup {kind} ELSE misused

-----------------------------------------------------------------------------
(* The session: each of its steps uses the stream, and most the entry, if   *)
(* only to write its address to the log.                                    *)

Start(c) ==
  /\ Sound /\ up
  /\ Spawn(c)
  /\ UNCHANGED objects

\* The steps that write the address: the end of every operation but a read and
\* OnRead, and of these a read that failed and was not overtaken by Stop.
ReadFailed(c) == pc[c] = "read" /\ pc'[c] \notin {"onread", "closeEnd"}
UsesEntry(c) ==
  \/ pc[c] \in {"closeRe", "rate", "connect", "tls", "handshake", "sub", "closeCtrl", "closeEnd"}
  \/ ReadFailed(c)

\* After OnRead it depends on the error code that OnRead leaves.
MayUseEntry(c) == UsesEntry(c) \/ pc[c] = "onread"

Used(c, address) ==
  faults' = faults \cup (IF object[c] = "deleted" \/ ~there[c] THEN {"stream"} ELSE {})
                   \cup (IF address /\ ~entry[c] THEN {"entry"} ELSE {})

\* delete stream_; stream_ = new ...: a Stop under way is left with the old one.
Renewed(c) ==
  held' = [held EXCEPT ![c] = IF @ = "current" THEN "deleted" ELSE @]

Session(c) ==
  /\ Sound
  /\ \/ NewStream(c) /\ Renewed(c)
     \/ SessionStep(c) /\ pc[c] # "rate" /\ UNCHANGED held
     \/ TlsStep(c) /\ UNCHANGED held
  /\ \E address \in {UsesEntry(c), MayUseEntry(c)} : Used(c, address)
  /\ UNCHANGED <<object, there, entry, up, misused>>

\* A ping, pong or close arrives while a read waits: it is logged, and that is
\* all the connection does about it.
ControlCallBack(c) ==
  /\ Sound
  /\ pc[c] = "read" /\ ws[c] = "open"
  /\ Used(c, TRUE)
  /\ UNCHANGED <<vars, held, object, there, entry, up, misused>>

-----------------------------------------------------------------------------
(* Stop, by a thread that Close runs on: stop_ is set, then stream_ is read, *)
(* then the stream is closed, which takes its time.  A Close that began in   *)
(* time still goes through conns_ when the Parasitifer is gone.              *)

StopSets(c) ==
  /\ Sound
  /\ StopCall(c)
  /\ Misuse("stop", pc[c] \in ReConnecting \/ ~up)
  /\ Fault("conn", ~there[c] \/ ~up)
  /\ UNCHANGED <<held, object, there, entry, up>>

StopReads(c) ==
  /\ Sound
  /\ stopCall[c] = "closing" /\ held[c] = "none"
  /\ held' = [held EXCEPT ![c] = "current"]
  /\ Fault("conn", ~there[c])
  /\ UNCHANGED <<vars, object, there, entry, up, misused>>

\* A close that succeeds is logged with the address; one that throws is not.
LogsAlways(c) == TRUE
Logs(c) == stopCall'[c] = "returned"

StopEndsClose(c) ==
  /\ Sound
  /\ held[c] # "none"
  /\ StopClose(c)
  /\ held' = [held EXCEPT ![c] = "none"]
  /\ faults' = faults
       \cup (IF held[c] = "deleted" \/ object[c] = "deleted" THEN {"stream"} ELSE {})
       \cup (IF Logs(c) /\ ~entry[c] THEN {"entry"} ELSE {})
  /\ UNCHANGED <<object, there, entry, up, misused>>

-----------------------------------------------------------------------------
(* The application: a second Run, and the two destructors.                  *)

RunAgain ==
  /\ Sound /\ up
  /\ entry' = [c \in Conns |-> entry[c] /\ c \notin Delivered]
  /\ Misuse("run", ~AllAtRest)
  /\ UNCHANGED <<vars, held, object, there, up, faults>>

\* ~StreamEntry deletes the stream unless stream_ is null.
DeleteConn(c) ==
  /\ Sound
  /\ c \in Delivered /\ there[c]
  /\ there' = [there EXCEPT ![c] = FALSE]
  /\ object' = [object EXCEPT ![c] = "deleted"]
  /\ Fault("twice", object[c] = "deleted")
  /\ Misuse("delete", ~AtRest(c))
  /\ UNCHANGED <<vars, held, entry, up>>

\* ~ParasitiferBase deletes the streams of conns_; stream_ keeps pointing there.
LeavesNothing(c) == object[c]
LeavesNull(c) == "null"
LeavesPointer(c) == "deleted"

Destroy ==
  /\ Sound /\ up
  /\ up' = FALSE
  /\ object' = [c \in Conns |-> IF c \in Delivered THEN LeavesPointer(c) ELSE object[c]]
  /\ Fault("conn", \E c \in Delivered : ~there[c])
  /\ Misuse("destroy", ~AllAtRest)
  /\ UNCHANGED <<vars, held, there, entry>>

-----------------------------------------------------------------------------
Application == RunAgain \/ Destroy \/ \E c \in Conns : DeleteConn(c)
StopStep(c) == StopSets(c) \/ StopReads(c) \/ StopEndsClose(c)

LifetimeNext ==
  Application \/ \E c \in Conns : Start(c) \/ Session(c) \/ ControlCallBack(c) \/ StopStep(c)

LifetimeSpec == LifetimeInit /\ [][LifetimeNext]_allVars

-----------------------------------------------------------------------------
(* Properties. *)

\* A deleted stream is used only if Stop was called while ReConnect was closing
\* or backing off, or a destructor ran before the session had ended and before
\* every Stop of it had returned: a session that ends does not end the close in
\* which Stop is blocked, so that to wait for the sessions alone is not enough.
\* A Stop at any other time, on any thread, is safe: stop_ is set before stream_
\* is read, and no attempt that begins later will delete the stream.
StreamAlive ==
  "stream" \in faults => misused \cap {"stop", "destroy", "delete"} # {}

\* A replaced entry is used, by a session, a control frame or a Stop, only if Run
\* was called again before all sessions had ended and all Stops had returned.
\* The Stop of an ended session is safe: it throws before it would log the address.
EntryAlive == "entry" \in faults => "run" \in misused

\* If the Parasitifer is destroyed after all sessions have ended and all Stops
\* have returned, and no connection is deleted, each stream has been deleted,
\* once, and nothing that is deleted is used.
DeletedOnce ==
  ~up /\ misused = {} /\ (\A c \in Conns : there[c]) =>
    Sound /\ \A c \in Delivered : object[c] = "deleted"

\* There is no good time to delete a connection that was given to a Parasitifer:
\* before the Parasitifer is destroyed its destructor uses the connection, and
\* after that the connection deletes its stream again.
NeverBoth == ~up /\ (\E c \in Delivered : ~there[c]) => ~Sound
=============================================================================
