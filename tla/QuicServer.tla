----------------------------- MODULE QuicServer -----------------------------
(***************************************************************************)
(* SrvTransportFactory of kn/net/src/quic/srv.h and the Handlers of        *)
(* kn/net/src/quic/handler.h it makes.                                     *)
(*                                                                         *)
(* The QuicServer of mvfst is external: it runs one event base thread per  *)
(* worker (start(addr, 0): as many as the machine has cores), which calls  *)
(* make() for every new connection and then the callbacks of its handler;  *)
(* when it is shut down each worker closes its connections and accepts no  *)
(* more, and only then the factory is destroyed.                           *)
(*                                                                         *)
(* handlers_ is not locked: push_back reads the end of the vector, and     *)
(* writes the element and the new end later, so that two of them on two    *)
(* threads lose what the other wrote.  Of the outcomes of a race only this *)
(* one is modelled; `raced' tells that one has taken place.                *)
(***************************************************************************)
EXTENDS Naturals, Sequences

CONSTANTS
  Workers,  \* the event base threads
  Conns,    \* the connections peers may open
  None

ASSUME QuicServerAssumption == None \notin Workers \cup Conns

VARIABLES
  accepting,  \* has the worker not been shut down?
  making,     \* the connection it is in make() for
  end,        \* the end of handlers_ its push_back has read, 0 before
  handlers,   \* handlers_, each named by its connection
  evb,        \* evb_ of a handler
  transport,  \* of a connection
  reading,    \* connections with a stream that reports to the handler
  posted,     \* pops that wait for the worker to run them
  freedOn,    \* the thread that has deleted a handler
  factory,    \* alive, draining (in the destructor), or gone
  raced       \* has a push_back overlapped another?

pushVars == <<making, end, raced>>
connVars == <<evb, transport, reading>>
vars == <<accepting, making, end, handlers, evb, transport, reading,
          posted, freedOn, factory, raced>>

TypeOK ==
  /\ accepting \in [Workers -> BOOLEAN]
  /\ making \in [Workers -> Conns \cup {None}]
  /\ end \in [Workers -> Nat]
  /\ handlers \in Seq(Conns)
  /\ evb \in [Conns -> Workers \cup {None}]
  /\ transport \in [Conns -> {"none", "live", "closed"}]
  /\ reading \in SUBSET Conns
  /\ posted \in [Workers -> Nat]
  /\ freedOn \in [Conns -> Workers \cup {None}]
  /\ factory \in {"alive", "draining", "gone"}
  /\ raced \in BOOLEAN

Init ==
  /\ accepting = [w \in Workers |-> TRUE]
  /\ making = [w \in Workers |-> None]
  /\ end = [w \in Workers |-> 0]
  /\ handlers = <<>>
  /\ evb = [c \in Conns |-> None]
  /\ transport = [c \in Conns |-> "none"]
  /\ reading = {}
  /\ posted = [w \in Workers |-> 0]
  /\ freedOn = [c \in Conns |-> None]
  /\ factory = "alive"
  /\ raced = FALSE

-----------------------------------------------------------------------------
(* make(), on the thread of the worker.                                     *)

\* The handler and the transport that calls it.
Make(w, c) ==
  /\ accepting[w] /\ making[w] = None
  /\ transport[c] = "none"
  /\ transport' = [transport EXCEPT ![c] = "live"]
  /\ evb' = [evb EXCEPT ![c] = w]
  /\ making' = [making EXCEPT ![w] = c]
  /\ UNCHANGED <<accepting, end, handlers, reading, posted, freedOn, factory, raced>>

\* push_back.
Pushing(w) == end[w] # 0

PushBegins(w) ==
  /\ making[w] # None /\ ~Pushing(w)
  /\ end' = [end EXCEPT ![w] = Len(handlers) + 1]
  /\ raced' = (raced \/ \E v \in Workers : Pushing(v))
  /\ UNCHANGED <<accepting, making, handlers, connVars, posted, freedOn, factory>>

Before(w) ==
  SubSeq(handlers, 1, IF end[w] <= Len(handlers) THEN end[w] - 1 ELSE Len(handlers))
WriteAtEnd(w) == Append(Before(w), making[w])

PushEnds(w) ==
  /\ Pushing(w)
  /\ handlers' = WriteAtEnd(w)
  /\ making' = [making EXCEPT ![w] = None]
  /\ end' = [end EXCEPT ![w] = 0]
  /\ UNCHANGED <<accepting, connVars, posted, freedOn, factory, raced>>

-----------------------------------------------------------------------------
(* The callbacks of a handler, on its worker: they write to the log, and    *)
(* onNew...Stream has the stream report to the handler.  Nothing is read,   *)
(* and a handler whose connection has ended stays in handlers_.             *)

Free(w) == making[w] = None

NewStream(c) ==
  /\ transport[c] = "live" /\ Free(evb[c])
  /\ reading' = reading \cup {c}
  /\ UNCHANGED <<accepting, pushVars, handlers, evb, transport, posted, freedOn, factory>>

ConnectionEnds(c) ==
  /\ transport[c] = "live" /\ Free(evb[c])
  /\ transport' = [transport EXCEPT ![c] = "closed"]
  /\ reading' = reading \ {c}
  /\ UNCHANGED <<accepting, pushVars, handlers, evb, posted, freedOn, factory>>

\* The server shuts a worker down.
ShutDown(w) ==
  /\ accepting[w] /\ Free(w)
  /\ accepting' = [accepting EXCEPT ![w] = FALSE]
  /\ transport' = [c \in Conns |-> IF evb[c] = w THEN "closed" ELSE transport[c]]
  /\ reading' = {c \in reading : evb[c] # w}
  /\ UNCHANGED <<pushVars, handlers, evb, posted, freedOn, factory>>

-----------------------------------------------------------------------------
(* ~SrvTransportFactory                                                     *)

ShutDownBegun == \E w \in Workers : ~accepting[w]
ServerDown == \A w \in Workers : ~accepting[w]

Destroy ==
  /\ factory = "alive" /\ ServerDown
  /\ factory' = "draining"
  /\ UNCHANGED <<accepting, pushVars, handlers, connVars, posted, freedOn>>

LastHandler == handlers[Len(handlers)]

\* The loop has the thread of the last handler remove it, and waits for that
\* before it looks at handlers_ again.
NoWait == TRUE
WaitIsOver == \A w \in Workers : posted[w] = 0

Drain ==
  /\ factory = "draining" /\ handlers # <<>> /\ WaitIsOver
  /\ posted' = [posted EXCEPT ![evb[LastHandler]] = @ + 1]
  /\ UNCHANGED <<accepting, pushVars, handlers, connVars, freedOn, factory>>

Kept == handlers
Popped == SubSeq(handlers, 1, Len(handlers) - 1)

Pop(w) ==
  /\ posted[w] > 0 /\ handlers # <<>>
  /\ posted' = [posted EXCEPT ![w] = @ - 1]
  /\ freedOn' = [freedOn EXCEPT ![LastHandler] = w]
  /\ handlers' = Popped
  /\ UNCHANGED <<accepting, pushVars, connVars, factory>>

Drained ==
  /\ factory = "draining" /\ handlers = <<>> /\ WaitIsOver
  /\ factory' = "gone"
  /\ UNCHANGED <<accepting, pushVars, handlers, connVars, posted, freedOn>>

-----------------------------------------------------------------------------
WorkerStep(w) ==
  \/ PushBegins(w) \/ PushEnds(w) \/ ShutDown(w) \/ Pop(w)
  \/ \E c \in Conns : Make(w, c)
Connection(c) == NewStream(c) \/ ConnectionEnds(c)
DestructorStep == Drain \/ Drained

Next ==
  \/ \E w \in Workers : WorkerStep(w)
  \/ \E c \in Conns : Connection(c)
  \/ Destroy \/ DestructorStep

Spec == Init /\ [][Next]_vars

\* The event bases run what is posted to them until the factory is gone, and the
\* thread in the destructor runs on.
FairSpec ==
  /\ Spec
  /\ WF_vars(DestructorStep)
  /\ \A w \in Workers : WF_vars(Pop(w))

-----------------------------------------------------------------------------
(* Properties. *)

Made(c) == transport[c] # "none"
InMake(c) == \E w \in Workers : making[w] = c
Position(c) == {i \in DOMAIN handlers : handlers[i] = c}

\* A transport that may still call its handler finds it alive: handlers are
\* deleted only by the destructor, when all connections have been closed, and
\* not when their own connection ends.
CallbackAlive ==
  \A c \in Conns : transport[c] = "live" \/ c \in reading => freedOn[c] = None

\* Unless two push_backs have overlapped, handlers_ owns each handler once from
\* make() until it is deleted: none leaks, and none is deleted twice.
OwnedOnce ==
  ~raced =>
    \A c \in Conns :
      /\ \A i, j \in Position(c) : i = j
      /\ Position(c) # {} <=> Made(c) /\ ~InMake(c) /\ freedOn[c] = None

\* The destructor deletes each handler on its own event base thread, where its
\* callbacks run: it waits before it reads handlers_ again.
FreedOnOwnThread == \A c \in Conns : freedOn[c] # None => freedOn[c] = evb[c]

\* While the destructor drains handlers_ nobody adds to it, and whatever happens
\* brings it nearer to its end: it posts one pop for each handler and waits for
\* each, so that twice as many steps and one are left as there are handlers.
DrainLeft ==
  IF factory = "gone" THEN 0
  ELSE 2 * Len(handlers) + (IF WaitIsOver THEN 1 ELSE 0)
DrainShrinks == [][factory = "draining" => DrainLeft' < DrainLeft]_vars

\* The destructor comes to its end, and then no handler is left.
DrainEnds == factory = "draining" ~> factory = "gone"
=============================================================================
