-------------------------- MODULE QuicServer_proof --------------------------
(***************************************************************************)
(* Proofs about the handlers of the quic server, for any number of workers *)
(* and connections: none is deleted that may still be called, and each is  *)
(* deleted on its own thread; without a race of two push_backs each is     *)
(* owned exactly once.                                                     *)
(***************************************************************************)
EXTENDS QuicServer, SequenceTheorems, TLAPS

-----------------------------------------------------------------------------
(* The invariant.                                                           *)

\* A handler that has been made has a worker, the one that makes it, and only
\* what has been made is listed.
Making ==
  /\ \A c \in Conns : transport[c] = "none" <=> evb[c] = None
  /\ \A w \in Workers : making[w] # None => evb[making[w]] = w
  /\ \A w \in Workers : Pushing(w) => making[w] # None
  /\ \A i \in DOMAIN handlers : evb[handlers[i]] # None

\* A worker that was shut down makes nothing and has closed what it had.
Closed ==
  /\ \A c \in reading : transport[c] = "live"
  /\ \A w \in Workers : ~accepting[w] =>
       making[w] = None /\ \A c \in Conns : evb[c] = w => transport[c] = "closed"
  /\ factory # "alive" => ServerDown

\* At most one pop is posted, to the thread of the last handler.
Posted ==
  \A w \in Workers : posted[w] > 0 =>
    /\ posted[w] = 1 /\ factory = "draining"
    /\ handlers # <<>> /\ evb[LastHandler] = w
    /\ \A v \in Workers : posted[v] > 0 => v = w

Freed ==
  \A c \in Conns : freedOn[c] # None => factory # "alive" /\ freedOn[c] = evb[c]

\* Without a race there is one push_back at a time, at the end of handlers_.
Alone ==
  ~raced =>
    /\ \A v, w \in Workers : Pushing(v) /\ Pushing(w) => v = w
    /\ \A w \in Workers : Pushing(w) => end[w] = Len(handlers) + 1

IInv == TypeOK /\ Making /\ Closed /\ Posted /\ Freed /\ Alone /\ OwnedOnce

-----------------------------------------------------------------------------
LEMMA InitIInv == Init => IInv
<1> SUFFICES ASSUME Init PROVE IInv
  OBVIOUS
<1>1. TypeOK
  <2>1. handlers \in Seq(Conns)
    BY EmptySeq DEF Init
  <2>2. /\ accepting \in [Workers -> BOOLEAN] /\ making \in [Workers -> Conns \cup {None}]
        /\ end \in [Workers -> Nat] /\ posted \in [Workers -> Nat]
        /\ evb \in [Conns -> Workers \cup {None}] /\ freedOn \in [Conns -> Workers \cup {None}]
        /\ transport \in [Conns -> {"none", "live", "closed"}]
    BY DEF Init
  <2> QED
    BY <2>1, <2>2 DEF Init, TypeOK
<1>2. Making
  BY DEF Init, Making, Pushing
<1>3. Closed /\ Posted /\ Freed /\ Alone
  BY DEF Init, Closed, Posted, Freed, Alone, Pushing
<1>4. OwnedOnce
  BY DEF Init, OwnedOnce, Position, Made
<1> QED
  BY <1>1, <1>2, <1>3, <1>4 DEF IInv

\* Lemma: what a push_back leaves: the elements in front of the end it has read,
\* and the new handler.
LEMMA Pushed ==
  ASSUME IInv, NEW w \in Workers, Pushing(w)
  PROVE  /\ making[w] \in Conns
         /\ Before(w) \in Seq(Conns) /\ WriteAtEnd(w) \in Seq(Conns)
         /\ \A i \in DOMAIN Before(w) : i \in DOMAIN handlers /\ Before(w)[i] = handlers[i]
         /\ ~raced => Before(w) = handlers
<1>1. making[w] \in Conns
  BY DEF IInv, TypeOK, Making
<1>2. handlers \in Seq(Conns) /\ Len(handlers) \in Nat /\ end[w] \in Nat /\ end[w] > 0
      /\ DOMAIN handlers = 1..Len(handlers)
  BY DEF IInv, TypeOK, Pushing
<1> DEFINE n == IF end[w] <= Len(handlers) THEN end[w] - 1 ELSE Len(handlers)
<1>3. n \in 0..Len(handlers)
  BY <1>2
<1>4. /\ SubSeq(handlers, 1, n) \in Seq(Conns)
      /\ Len(SubSeq(handlers, 1, n)) = n
      /\ \A i \in 1..n : SubSeq(handlers, 1, n)[i] = handlers[i]
  BY <1>2, <1>3, SubSeqProperties
<1>5. Before(w) = SubSeq(handlers, 1, n)
  BY DEF Before
<1>6. Before(w) \in Seq(Conns) /\ DOMAIN Before(w) = 1..n
  BY <1>3, <1>4, <1>5
<1>7. WriteAtEnd(w) \in Seq(Conns)
  BY <1>1, <1>6 DEF WriteAtEnd
<1>8. ASSUME ~raced PROVE Before(w) = handlers
  <2>1. end[w] = Len(handlers) + 1
    BY <1>8 DEF IInv, Alone
  <2>2. n = Len(handlers)
    BY <1>2, <2>1
  <2> QED
    BY <1>2, <1>5, <2>2, SubSeqFull
<1> QED
  BY <1>1, <1>2, <1>3, <1>4, <1>5, <1>6, <1>7, <1>8

\* Lemma: making a handler.
LEMMA MakeIInv == ASSUME IInv, NEW w \in Workers, NEW c \in Conns, Make(w, c) PROVE IInv'
<1> USE QuicServerAssumption
<1>1. TypeOK'
  BY DEF IInv, TypeOK, Make
<1>2. evb[c] = None /\ making[w] = None /\ accepting[w]
  BY DEF IInv, Making, Make
<1>3. /\ \A d \in Conns : d # c => evb'[d] = evb[d] /\ transport'[d] = transport[d]
      /\ evb'[c] = w /\ transport'[c] = "live"
      /\ \A v \in Workers : v # w => making'[v] = making[v]
      /\ making'[w] = c
  BY DEF IInv, TypeOK, Make
<1>4. Making'
  <2>1. \A i \in DOMAIN handlers : handlers[i] \in Conns
    BY DEF IInv, TypeOK
  <2>2. \A v \in Workers : making[v] # None => making[v] \in Conns /\ making[v] # c
    BY <1>2 DEF IInv, TypeOK, Making
  <2> QED
    BY <1>2, <1>3, <2>1, <2>2 DEF IInv, Making, Make, Pushing
<1>5. Closed'
  BY <1>2, <1>3 DEF IInv, Closed, Make, ServerDown, TypeOK
<1>6. Posted' /\ Freed' /\ Alone'
  BY <1>2, <1>3 DEF IInv, TypeOK, Closed, Posted, Freed, Alone, Make, LastHandler, ServerDown, Pushing
<1>7. OwnedOnce'
  <2> SUFFICES ASSUME ~raced, NEW d \in Conns
               PROVE  /\ \A i, j \in Position(d)' : i = j
                      /\ Position(d)' # {} <=> Made(d)' /\ ~InMake(d)' /\ freedOn'[d] = None
    BY DEF OwnedOnce, Make
  <2>1. Position(d)' = Position(d)
    BY DEF Position, Make
  <2>2. /\ \A i, j \in Position(d) : i = j
        /\ Position(d) # {} <=> Made(d) /\ ~InMake(d) /\ freedOn[d] = None
    BY DEF IInv, OwnedOnce
  <2>3. freedOn' = freedOn
    BY DEF Make
  <2>4. CASE d = c
    <3>1. ~Made(c) /\ InMake(c)'
      BY <1>3 DEF Make, Made, InMake
    <3> QED
      BY <2>1, <2>2, <2>4, <3>1
  <2>5. CASE d # c
    <3>1. Made(d)' = Made(d) /\ InMake(d)' = InMake(d)
      BY <1>2, <1>3, <2>5 DEF Made, InMake
    <3> QED
      BY <2>1, <2>2, <2>3, <3>1
  <2> QED
    BY <2>4, <2>5
<1> QED
  BY <1>1, <1>4, <1>5, <1>6, <1>7 DEF IInv

\* Lemma: reading the end of handlers_.
LEMMA PushBeginsIInv == ASSUME IInv, NEW w \in Workers, PushBegins(w) PROVE IInv'
<1>1. Len(handlers) \in Nat
  BY DEF IInv, TypeOK
<1>2. TypeOK'
  <2>1. end' \in [Workers -> Nat]
    BY <1>1 DEF IInv, TypeOK, PushBegins
  <2>2. raced' \in BOOLEAN
    BY Zenon DEF PushBegins
  <2> QED
    BY <2>1, <2>2 DEF IInv, TypeOK, PushBegins, connVars
<1>3. /\ \A v \in Workers : v # w => end'[v] = end[v]
      /\ end'[w] = Len(handlers) + 1 /\ end[w] = 0 /\ making[w] # None
      /\ UNCHANGED <<accepting, making, handlers, evb, transport, reading, posted, freedOn, factory>>
  <2>1. end \in [Workers -> Nat] /\ end' = [end EXCEPT ![w] = Len(handlers) + 1]
    BY DEF IInv, TypeOK, PushBegins
  <2> QED
    BY <2>1 DEF PushBegins, Pushing, connVars
<1>4. Making'
  BY <1>3 DEF IInv, Making, Pushing
<1>5. Closed' /\ Posted' /\ Freed'
  BY <1>3 DEF IInv, Closed, Posted, Freed, ServerDown, LastHandler
<1>6. Alone'
  BY <1>1, <1>3 DEF IInv, Alone, PushBegins, Pushing
<1>7. OwnedOnce'
  <2>1. raced => raced'
    BY DEF PushBegins
  <2> QED
    BY <1>3, <2>1 DEF IInv, OwnedOnce, Position, Made, InMake
<1> QED
  BY <1>2, <1>4, <1>5, <1>6, <1>7 DEF IInv

\* Lemma: writing the new handler.
LEMMA PushEndsIInv == ASSUME IInv, NEW w \in Workers, PushEnds(w) PROVE IInv'
<1> USE QuicServerAssumption
<1> DEFINE c == making[w]
<1>1. /\ Pushing(w) /\ c \in Conns /\ c # None /\ evb[c] = w
      /\ Before(w) \in Seq(Conns) /\ handlers' \in Seq(Conns)
      /\ \A i \in DOMAIN Before(w) : i \in DOMAIN handlers /\ Before(w)[i] = handlers[i]
      /\ ~raced => Before(w) = handlers
      /\ handlers' = Append(Before(w), c)
  BY Pushed DEF PushEnds, WriteAtEnd, IInv, Making
<1>2. /\ making' = [making EXCEPT ![w] = None] /\ end' = [end EXCEPT ![w] = 0]
      /\ UNCHANGED <<accepting, evb, transport, reading, posted, freedOn, factory, raced>>
  BY DEF PushEnds, connVars
<1>3. TypeOK'
  BY <1>1, <1>2 DEF IInv, TypeOK
<1>4. /\ Len(Before(w)) \in Nat
      /\ DOMAIN handlers' = DOMAIN Before(w) \cup {Len(Before(w)) + 1}
      /\ Len(Before(w)) + 1 \notin DOMAIN Before(w)
      /\ handlers'[Len(Before(w)) + 1] = c
      /\ \A i \in DOMAIN Before(w) : handlers'[i] = Before(w)[i]
  BY <1>1
<1>5. /\ \A v \in Workers : v # w => making'[v] = making[v] /\ end'[v] = end[v]
      /\ making'[w] = None /\ end'[w] = 0
  BY <1>2 DEF IInv, TypeOK
<1>6. Making'
  BY <1>1, <1>2, <1>4, <1>5 DEF IInv, Making, Pushing
<1>7. accepting[w] /\ factory = "alive"
  BY <1>1 DEF IInv, TypeOK, Closed, ServerDown
<1>8. Closed'
  BY <1>2, <1>5 DEF IInv, Closed, ServerDown
<1>9. \A v \in Workers : posted[v] = 0
  BY <1>7 DEF IInv, TypeOK, Posted
<1>10. Posted' /\ Freed'
  BY <1>2, <1>9 DEF IInv, Posted, Freed
<1>11. Alone'
  BY <1>1, <1>2, <1>5 DEF IInv, Alone, Pushing
<1>12. OwnedOnce'
  <2> SUFFICES ASSUME ~raced, NEW d \in Conns
               PROVE  /\ \A i, j \in Position(d)' : i = j
                      /\ Position(d)' # {} <=> Made(d)' /\ ~InMake(d)' /\ freedOn'[d] = None
    BY <1>2 DEF OwnedOnce
  <2>1. /\ \A i, j \in Position(d) : i = j
        /\ Position(d) # {} <=> Made(d) /\ ~InMake(d) /\ freedOn[d] = None
    BY DEF IInv, OwnedOnce
  <2>2. Made(d)' = Made(d) /\ freedOn' = freedOn
    BY <1>2 DEF Made
  <2>3. CASE d = c
    <3>1. InMake(c) /\ Position(c) = {} /\ Made(c) /\ freedOn[c] = None
      <4>1. InMake(c) /\ Made(c)
        BY <1>1 DEF InMake, Made, IInv, Making
      <4>2. freedOn[c] = None
        BY <1>1, <1>7 DEF IInv, Freed
      <4> QED
        BY <2>1, <2>3, <4>1, <4>2
    <3>2. ~InMake(d)'
      BY <1>1, <1>5, <2>3 DEF InMake, IInv, Making
    <3>3. Position(d)' = {Len(Before(w)) + 1}
      BY <1>1, <1>4, <2>3, <3>1 DEF Position
    <3> QED
      BY <2>2, <2>3, <3>1, <3>2, <3>3
  <2>4. CASE d # c
    <3>1. InMake(d)' = InMake(d)
      BY <1>1, <1>5, <2>4 DEF InMake
    <3>2. Position(d)' = Position(d)
      BY <1>1, <1>4, <2>4 DEF Position
    <3> QED
      BY <2>1, <2>2, <3>1, <3>2
  <2> QED
    BY <2>3, <2>4
<1> QED
  BY <1>3, <1>6, <1>8, <1>10, <1>11, <1>12 DEF IInv

\* Lemma: the callbacks of a connection.
LEMMA ConnectionIInv == ASSUME IInv, NEW c \in Conns, Connection(c) PROVE IInv'
<1>1. /\ transport[c] = "live"
      /\ UNCHANGED <<accepting, making, end, raced, handlers, evb, posted, freedOn, factory>>
      /\ \/ transport' = transport /\ reading' = reading \cup {c}
         \/ transport' = [transport EXCEPT ![c] = "closed"] /\ reading' = reading \ {c}
  BY DEF Connection, NewStream, ConnectionEnds, pushVars
<1>2. TypeOK'
  BY <1>1 DEF IInv, TypeOK
<1>3. /\ \A d \in Conns : transport'[d] = "none" <=> transport[d] = "none"
      /\ \A d \in Conns : transport[d] = "closed" => transport'[d] = "closed"
      /\ \A d \in reading' : transport'[d] = "live"
  BY <1>1 DEF IInv, TypeOK, Closed
<1>4. Making' /\ Posted' /\ Freed' /\ Alone'
  BY <1>1, <1>3 DEF IInv, Making, Posted, Freed, Alone, Pushing, LastHandler
<1>5. Closed'
  BY <1>1, <1>3 DEF IInv, Closed, ServerDown
<1>6. OwnedOnce'
  BY <1>1, <1>3 DEF IInv, OwnedOnce, Position, Made, InMake
<1> QED
  BY <1>2, <1>4, <1>5, <1>6 DEF IInv

\* Lemma: a worker is shut down.
LEMMA ShutDownIInv == ASSUME IInv, NEW w \in Workers, ShutDown(w) PROVE IInv'
<1> USE QuicServerAssumption
<1>1. /\ making[w] = None /\ accepting' = [accepting EXCEPT ![w] = FALSE]
      /\ transport' = [c \in Conns |-> IF evb[c] = w THEN "closed" ELSE transport[c]]
      /\ reading' = {c \in reading : evb[c] # w}
      /\ UNCHANGED <<making, end, raced, handlers, evb, posted, freedOn, factory>>
  BY DEF ShutDown, Free, pushVars
<1>2. TypeOK'
  BY <1>1 DEF IInv, TypeOK
<1>3. /\ \A c \in Conns : transport'[c] = "none" <=> transport[c] = "none"
      /\ \A c \in Conns : transport[c] = "closed" => transport'[c] = "closed"
      /\ \A c \in Conns : evb[c] = w => transport'[c] = "closed"
      /\ \A c \in reading' : transport'[c] = "live"
      /\ \A v \in Workers : v # w => accepting'[v] = accepting[v]
      /\ ~accepting'[w]
  BY <1>1 DEF IInv, TypeOK, Closed, Making
<1>4. Making' /\ Posted' /\ Freed' /\ Alone'
  BY <1>1, <1>3 DEF IInv, Making, Posted, Freed, Alone, Pushing, LastHandler
<1>5. Closed'
  BY <1>1, <1>3 DEF IInv, Closed, ServerDown
<1>6. OwnedOnce'
  BY <1>1, <1>3 DEF IInv, OwnedOnce, Position, Made, InMake
<1> QED
  BY <1>2, <1>4, <1>5, <1>6 DEF IInv

\* Lemma: the destructor up to the next post, or to its end.
LEMMA DestructorIInv == ASSUME IInv, Destroy \/ Drained PROVE IInv'
<1>1. /\ factory' \in {"draining", "gone"} /\ ServerDown
      /\ \A w \in Workers : posted[w] = 0
      /\ UNCHANGED <<accepting, making, end, raced, handlers, evb, transport, reading, posted, freedOn>>
  <2>1. CASE Destroy
    <3>1. \A w \in Workers : posted[w] = 0
      BY <2>1 DEF Destroy, IInv, TypeOK, Posted
    <3> QED
      BY <2>1, <3>1 DEF Destroy, pushVars, connVars
  <2>2. CASE Drained
    BY <2>2 DEF Drained, WaitIsOver, IInv, Closed, pushVars, connVars
  <2> QED
    BY <2>1, <2>2
<1>2. TypeOK' /\ Making'
  BY <1>1 DEF IInv, TypeOK, Making, Pushing
<1>3. Closed' /\ Posted' /\ Freed' /\ Alone'
  BY <1>1 DEF IInv, Closed, Posted, Freed, Alone, ServerDown, Pushing
<1>4. OwnedOnce'
  BY <1>1 DEF IInv, OwnedOnce, Position, Made, InMake
<1> QED
  BY <1>2, <1>3, <1>4 DEF IInv

\* Lemma: the last handler, when there is one.
LEMMA LastOne ==
  ASSUME IInv, handlers # <<>>
  PROVE  /\ Len(handlers) \in Nat /\ Len(handlers) > 0 /\ DOMAIN handlers = 1..Len(handlers)
         /\ LastHandler \in Conns /\ evb[LastHandler] \in Workers
<1>1. handlers \in Seq(Conns)
  BY DEF IInv, TypeOK
<1>2. Len(handlers) \in Nat /\ Len(handlers) > 0 /\ DOMAIN handlers = 1..Len(handlers)
  BY <1>1, EmptySeq
<1>3. LastHandler \in Conns /\ evb[LastHandler] # None
  BY <1>1, <1>2 DEF LastHandler, IInv, Making
<1> QED
  BY <1>2, <1>3 DEF IInv, TypeOK

\* Lemma: a pop is posted.
LEMMA DrainIInv == ASSUME IInv, Drain PROVE IInv'
<1> DEFINE w == evb[LastHandler]
<1>1. /\ factory = "draining" /\ handlers # <<>>
      /\ \A v \in Workers : posted[v] = 0
      /\ posted' = [posted EXCEPT ![w] = @ + 1]
      /\ UNCHANGED <<accepting, making, end, raced, handlers, evb, transport, reading, freedOn, factory>>
  BY DEF Drain, WaitIsOver, pushVars, connVars
<1>2. w \in Workers
  BY <1>1, LastOne
<1>3. posted' \in [Workers -> Nat] /\ posted'[w] = 1
      /\ \A v \in Workers : v # w => posted'[v] = 0
  BY <1>1, <1>2 DEF IInv, TypeOK
<1>4. TypeOK' /\ Making'
  BY <1>1, <1>3 DEF IInv, TypeOK, Making, Pushing
<1>5. Closed' /\ Freed' /\ Alone'
  BY <1>1 DEF IInv, Closed, Freed, Alone, ServerDown, Pushing
<1>6. Posted'
  BY <1>1, <1>3 DEF Posted, LastHandler
<1>7. OwnedOnce'
  BY <1>1 DEF IInv, OwnedOnce, Position, Made, InMake
<1> QED
  BY <1>4, <1>5, <1>6, <1>7 DEF IInv

\* Lemma: a pop takes the last handler off, and no other.
LEMMA PopShortens ==
  ASSUME IInv, handlers # <<>>, handlers' = Popped
  PROVE  /\ handlers' \in Seq(Conns) /\ Len(handlers') = Len(handlers) - 1
         /\ \A i \in 1..(Len(handlers) - 1) : handlers'[i] = handlers[i]
<1>1. Len(handlers) \in Nat /\ Len(handlers) > 0 /\ DOMAIN handlers = 1..Len(handlers)
  BY LastOne
<1>2. \A i \in 1..(Len(handlers) - 1) : handlers[i] \in Conns
  BY <1>1 DEF IInv, TypeOK
<1>3. handlers' = SubSeq(handlers, 1, Len(handlers) - 1)
  BY DEF Popped
<1> QED
  BY <1>1, <1>2, <1>3, SubSeqProperties

\* Lemma: a handler is deleted.
LEMMA PopIInv == ASSUME IInv, NEW w \in Workers, Pop(w) PROVE IInv'
<1> USE QuicServerAssumption
<1>1. /\ posted[w] > 0 /\ handlers # <<>>
      /\ posted' = [posted EXCEPT ![w] = @ - 1]
      /\ freedOn' = [freedOn EXCEPT ![LastHandler] = w]
      /\ handlers' = SubSeq(handlers, 1, Len(handlers) - 1)
      /\ UNCHANGED <<accepting, making, end, raced, evb, transport, reading, factory>>
  BY DEF Pop, Popped, pushVars, connVars
<1>2. /\ Len(handlers) \in Nat /\ Len(handlers) > 0 /\ DOMAIN handlers = 1..Len(handlers)
      /\ LastHandler \in Conns
  BY <1>1, LastOne
<1>3. posted[w] = 1 /\ factory = "draining" /\ evb[LastHandler] = w
      /\ \A v \in Workers : v # w => posted[v] = 0
  BY <1>1 DEF IInv, TypeOK, Posted
<1>4. /\ handlers' \in Seq(Conns)
      /\ DOMAIN handlers' = DOMAIN handlers \ {Len(handlers)}
      /\ \A i \in DOMAIN handlers' : handlers'[i] = handlers[i]
  <2>1. /\ handlers' \in Seq(Conns) /\ Len(handlers') = Len(handlers) - 1
        /\ \A i \in 1..(Len(handlers) - 1) : handlers'[i] = handlers[i]
    BY <1>1, PopShortens DEF Popped
  <2>2. DOMAIN handlers' = 1..(Len(handlers) - 1)
    BY <2>1
  <2> QED
    BY <1>2, <2>1, <2>2
<1>5. posted' \in [Workers -> Nat] /\ \A v \in Workers : posted'[v] = 0
  BY <1>1, <1>3 DEF IInv, TypeOK
<1>6. TypeOK'
  BY <1>1, <1>4, <1>5 DEF IInv, TypeOK
<1>7. /\ freedOn'[LastHandler] = w
      /\ \A c \in Conns : c # LastHandler => freedOn'[c] = freedOn[c]
  BY <1>1, <1>2 DEF IInv, TypeOK
<1>8. \A v \in Workers : making[v] = None /\ ~Pushing(v)
  BY <1>3 DEF IInv, Closed, Making, ServerDown
<1>9. Making' /\ Closed' /\ Posted'
  BY <1>1, <1>4, <1>5, <1>8 DEF IInv, Making, Closed, Posted, ServerDown, Pushing
<1>10. Freed'
  BY <1>1, <1>3, <1>7 DEF IInv, Freed
<1>11. Alone'
  BY <1>1, <1>8 DEF Alone, Pushing
<1>12. OwnedOnce'
  <2> SUFFICES ASSUME ~raced, NEW d \in Conns
               PROVE  /\ \A i, j \in Position(d)' : i = j
                      /\ Position(d)' # {} <=> Made(d)' /\ ~InMake(d)' /\ freedOn'[d] = None
    BY <1>1 DEF OwnedOnce
  <2>1. /\ \A i, j \in Position(d) : i = j
        /\ Position(d) # {} <=> Made(d) /\ ~InMake(d) /\ freedOn[d] = None
    BY DEF IInv, OwnedOnce
  <2>2. Made(d)' = Made(d) /\ InMake(d)' = InMake(d)
    BY <1>1 DEF Made, InMake
  <2>3. Len(handlers) \in Position(LastHandler)
    BY <1>2 DEF Position, LastHandler
  <2>4. CASE d = LastHandler
    <3>1. Position(d)' = {}
      BY <1>4, <2>1, <2>3, <2>4 DEF Position
    <3>2. freedOn'[d] # None
      BY <1>7, <2>4
    <3> QED
      BY <3>1, <3>2
  <2>5. CASE d # LastHandler
    <3>1. Position(d)' = Position(d)
      BY <1>2, <1>4, <2>5 DEF Position, LastHandler
    <3> QED
      BY <1>7, <2>1, <2>2, <2>5, <3>1
  <2> QED
    BY <2>4, <2>5
<1> QED
  BY <1>6, <1>9, <1>10, <1>11, <1>12 DEF IInv

\* Lemma: every step keeps the invariant.
LEMMA NextIInv == IInv /\ [Next]_vars => IInv'
<1> SUFFICES ASSUME IInv, [Next]_vars PROVE IInv'
  OBVIOUS
<1>1. ASSUME NEW w \in Workers, WorkerStep(w) PROVE IInv'
  BY <1>1, MakeIInv, PushBeginsIInv, PushEndsIInv, ShutDownIInv, PopIInv DEF WorkerStep
<1>2. ASSUME NEW c \in Conns, Connection(c) PROVE IInv'
  BY <1>2, ConnectionIInv
<1>3. CASE Destroy \/ DestructorStep
  BY <1>3, DestructorIInv, DrainIInv DEF DestructorStep
<1>4. CASE UNCHANGED vars
  <2>1. TypeOK' /\ Making' /\ Closed' /\ Posted' /\ Freed' /\ Alone'
    BY <1>4 DEF IInv, vars, TypeOK, Making, Closed, Posted, Freed, Alone, ServerDown, Pushing,
       LastHandler
  <2>2. OwnedOnce'
    BY <1>4 DEF IInv, vars, OwnedOnce, Position, Made, InMake
  <2> QED
    BY <2>1, <2>2 DEF IInv
<1> QED
  BY <1>1, <1>2, <1>3, <1>4 DEF Next

LEMMA AlwaysIInv == Spec => []IInv
BY InitIInv, NextIInv, PTL DEF Spec

-----------------------------------------------------------------------------
(* The theorems.                                                            *)

\* Theorem: every variable keeps its type, also when push_backs overlap.
THEOREM TypeCorrect == Spec => []TypeOK
<1>1. IInv => TypeOK
  BY DEF IInv
<1> QED
  BY <1>1, AlwaysIInv, PTL

\* Theorem: no handler is deleted that a transport may still call, be there a race
\* or not.
THEOREM CallbacksFindHandler == Spec => []CallbackAlive
<1>1. IInv => CallbackAlive
  <2> SUFFICES ASSUME IInv, NEW c \in Conns, transport[c] = "live" \/ c \in reading,
                      freedOn[c] # None
               PROVE  FALSE
    BY DEF CallbackAlive
  <2>1. transport[c] = "live"
    BY DEF IInv, Closed
  <2>2. evb[c] \in Workers
    BY <2>1 DEF IInv, TypeOK, Making
  <2>3. ~accepting[evb[c]]
    BY <2>2 DEF IInv, Freed, Closed, ServerDown
  <2> QED
    BY <2>1, <2>2, <2>3 DEF IInv, Closed
<1> QED
  BY <1>1, AlwaysIInv, PTL

\* Theorem: each handler is deleted on its own event base thread, be there a race
\* or not.
THEOREM DeletedOnOwnThread == Spec => []FreedOnOwnThread
<1>1. IInv => FreedOnOwnThread
  BY DEF IInv, Freed, FreedOnOwnThread
<1> QED
  BY <1>1, AlwaysIInv, PTL

\* Theorem: unless push_backs have overlapped, handlers_ owns each handler once.
THEOREM NoneLeaks == Spec => []OwnedOnce
<1>1. IInv => OwnedOnce
  BY DEF IInv
<1> QED
  BY <1>1, AlwaysIInv, PTL

\* Theorem: while the destructor drains handlers_, whatever happens brings it
\* nearer to its end, be there a race or not: the event bases have been shut
\* down, so that none of them adds a handler or posts a second pop.
Shrinks == factory = "draining" => DrainLeft' < DrainLeft

THEOREM DrainsOut == Spec => DrainShrinks
<1>1. ASSUME IInv, Next, factory = "draining" PROVE DrainLeft' < DrainLeft
  <2>1. Len(handlers) \in Nat
    BY <1>1 DEF IInv, TypeOK
  <2>2. \A w \in Workers : ~accepting[w] /\ making[w] = None /\ ~Pushing(w)
    BY <1>1 DEF IInv, Closed, Making, ServerDown
  <2>3. \A c \in Conns : transport[c] # "live"
    BY <1>1, <2>2 DEF IInv, TypeOK, Making, Closed
  <2>4. ~Destroy /\ \A c \in Conns : ~Connection(c)
    BY <1>1, <2>3 DEF Destroy, Connection, NewStream, ConnectionEnds
  <2>5. CASE Drain
    <3>1. LastHandler \in Conns /\ evb[LastHandler] \in Workers
      BY <1>1, <2>5, LastOne DEF Drain
    <3>2. WaitIsOver /\ ~WaitIsOver'
      BY <1>1, <2>5, <3>1 DEF Drain, WaitIsOver, IInv, TypeOK
    <3>3. UNCHANGED <<handlers, factory>>
      BY <2>5 DEF Drain
    <3> QED
      BY <1>1, <2>1, <3>2, <3>3 DEF DrainLeft
  <2>6. CASE Drained
    <3>1. handlers = <<>> /\ WaitIsOver /\ factory' = "gone"
      BY <2>6 DEF Drained
    <3>2. Len(handlers) = 0
      BY <3>1
    <3> QED
      BY <1>1, <3>1, <3>2 DEF DrainLeft
  <2>7. ASSUME NEW w \in Workers, WorkerStep(w) PROVE DrainLeft' < DrainLeft
    <3>1. Pop(w)
      BY <2>2, <2>7 DEF WorkerStep, PushBegins, PushEnds, ShutDown, Make
    <3>2. Len(handlers) > 0
      BY <1>1, <3>1, LastOne DEF Pop
    <3>3. Len(handlers') = Len(handlers) - 1 /\ factory' = factory
      BY <1>1, <3>1, PopShortens DEF Pop
    <3>4. DrainLeft' = 2 * Len(handlers') \/ DrainLeft' = 2 * Len(handlers') + 1
      BY <1>1, <2>1, <3>3 DEF DrainLeft
    <3>5. DrainLeft = 2 * Len(handlers)
      <4>1. ~WaitIsOver
        BY <3>1 DEF Pop, WaitIsOver
      <4> QED
        BY <1>1, <2>1, <4>1 DEF DrainLeft
    <3> QED
      BY <2>1, <3>2, <3>3, <3>4, <3>5
  <2> QED
    BY <1>1, <2>4, <2>5, <2>6, <2>7 DEF Next, DestructorStep
<1>2. IInv /\ [Next]_vars => [Shrinks]_vars
  BY <1>1 DEF Shrinks
<1> QED
  BY <1>2, AlwaysIInv, PTL DEF Spec, DrainShrinks, Shrinks

\* Theorem: when the destructor is done, every handler that was ever made has
\* been deleted, on its own thread, unless push_backs have overlapped.
AllDeleted ==
  factory = "gone" /\ ~raced => \A c \in Conns : Made(c) => freedOn[c] = evb[c]

THEOREM DeletesAll == Spec => []AllDeleted
<1> DEFINE Emptied == factory = "gone" => handlers = <<>>
<1>1. Init => Emptied
  BY DEF Init
<1>2. ASSUME IInv, Emptied, [Next]_vars PROVE Emptied'
  <2>1. CASE factory = "gone"
    <3>1. \A w \in Workers : ~accepting[w] /\ making[w] = None /\ ~Pushing(w) /\ ~(posted[w] > 0)
      BY <1>2, <2>1 DEF IInv, Closed, Making, ServerDown, Posted
    <3>2. UNCHANGED handlers
      BY <1>2, <2>1, <3>1 DEF Next, WorkerStep, PushBegins, PushEnds, ShutDown, Pop, Make,
         Connection, NewStream, ConnectionEnds, Destroy, DestructorStep, Drain, Drained, vars
    <3> QED
      BY <1>2, <2>1, <3>2
  <2>2. CASE factory # "gone"
    BY <1>2, <2>2 DEF Next, WorkerStep, PushBegins, PushEnds, ShutDown, Pop, Make,
       Connection, NewStream, ConnectionEnds, Destroy, DestructorStep, Drain, Drained, vars
  <2> QED
    BY <2>1, <2>2
<1>3. IInv /\ Emptied => AllDeleted
  <2> SUFFICES ASSUME IInv, Emptied, factory = "gone", ~raced, NEW c \in Conns, Made(c)
               PROVE  freedOn[c] = evb[c]
    BY DEF AllDeleted
  <2>1. Position(c) = {}
    BY DEF Position
  <2>2. ~InMake(c)
    BY QuicServerAssumption DEF IInv, Closed, ServerDown, InMake
  <2> QED
    BY <2>1, <2>2 DEF IInv, OwnedOnce, Freed
<1> HIDE DEF Emptied
<1> QED
  BY <1>1, <1>2, <1>3, AlwaysIInv, PTL DEF Spec
=============================================================================
