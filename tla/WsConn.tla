------------------------------- MODULE WsConn -------------------------------
(***************************************************************************)
(* The websocket client session of kn/net/src/ws/conn.h: the coroutine     *)
(* Conn<EnableSSL>::DoSession with the functions it calls (ReConnect,      *)
(* ConnAndHandShake, Init, Sub, Read, OnRead, Close), and Stop(), which    *)
(* another actor may call between any two of its steps.                    *)
(*                                                                         *)
(* One step of a session runs from one point where it can be overtaken (a  *)
(* suspended asynchronous operation, a blocking call, or a loop head that  *)
(* reads stop_) to the next.  What the network, the peer and the virtual   *)
(* OnRead do is chosen nondeterministically, and so is an error code among *)
(* those the code tells apart.  The Boost.Beast stream is external: only   *)
(* what DoSession relies on is modelled, the life cycle of its status and  *)
(* which operations can succeed in which status.                           *)
(***************************************************************************)
EXTENDS Naturals

CONSTANTS
  Conns,      \* the sessions
  EnableSSL,  \* Conn<true> or Conn<false>
  NSubs,      \* number of non-empty strings in subs_
  MaxMsg      \* bound: bytes one read can add to buffer_

ASSUME WsConnAssumption ==
  /\ EnableSSL \in BOOLEAN
  /\ NSubs \in Nat
  /\ MaxMsg \in Nat

VARIABLES
  pc,       \* where the coroutine is
  ret,      \* loop of DoSession that ReConnect or Sub returns to
  ws,       \* status of the current websocket stream
  tcp,      \* is the socket under the current stream open?
  inited,   \* has Init() run since the current stream was created?
  sent,     \* subscriptions written on the current stream
  next,     \* index of the subscription Sub is writing
  buf,      \* bytes held by buffer_
  size,     \* size_read of the message OnRead is looking at
  stop,     \* stop_
  stopCall  \* progress of the latest call of Stop()

stream == <<ws, tcp, inited, sent>>
buffer == <<buf, size>>
owner  == <<stop, stopCall>>
vars   == <<pc, ret, ws, tcp, inited, sent, next, buf, size, stop, stopCall>>

Labels == {"idle", "start", "closeRe", "rate", "connect", "tls", "handshake",
           "sub", "loop", "read", "onread", "closeCtrl", "closeEnd",
           "done", "threw"}
Statuses == {"closed", "handshake", "open", "closing", "failed"}
Subs == 1..NSubs

TypeOK ==
  /\ pc \in [Conns -> Labels]
  /\ ret \in [Conns -> {"start", "loop"}]
  /\ ws \in [Conns -> Statuses]
  /\ tcp \in [Conns -> BOOLEAN]
  /\ inited \in [Conns -> BOOLEAN]
  /\ sent \in [Conns -> SUBSET Subs]
  /\ next \in [Conns -> 1..(NSubs + 1)]
  /\ buf \in [Conns -> 0..MaxMsg]
  /\ size \in [Conns -> 0..MaxMsg]
  /\ stop \in [Conns -> BOOLEAN]
  /\ stopCall \in [Conns -> {"none", "closing", "returned", "threw"}]

Init ==
  /\ pc = [c \in Conns |-> "idle"]
  /\ ret = [c \in Conns |-> "start"]
  /\ ws = [c \in Conns |-> "closed"]
  /\ tcp = [c \in Conns |-> FALSE]
  /\ inited = [c \in Conns |-> FALSE]
  /\ sent = [c \in Conns |-> {}]
  /\ next = [c \in Conns |-> 1]
  /\ buf = [c \in Conns |-> 0]
  /\ size = [c \in Conns |-> 0]
  /\ stop = [c \in Conns |-> FALSE]
  /\ stopCall = [c \in Conns |-> "none"]

-----------------------------------------------------------------------------
(* The Beast stream (external). *)

\* A dead stream completes every operation with operation_aborted.
Dead(s) == s \in {"closed", "failed"}

\* Status after an operation on a stream of status s has failed.
Broken(s) == IF s = "closed" THEN "closed" ELSE "failed"

\* Status once a closing handshake is under way, and once it is over.
Closing(s) == IF Dead(s) THEN s ELSE "closing"
Closed(s)  == IF Dead(s) THEN {s} ELSE {"closed", "failed"}

\* flat_buffer::consume drops n bytes, or all of them when there are fewer.
Consume(b, n) == IF n < b THEN b - n ELSE 0

-----------------------------------------------------------------------------
(* Helpers. *)

Goto(c, label) == pc' = [pc EXCEPT ![c] = label]
SetWs(c, s)    == ws' = [ws EXCEPT ![c] = s]

\* boost::asio::spawn: Parasitifer::Connect starts the session.
Spawn(c) ==
  /\ pc[c] = "idle"
  /\ Goto(c, "start")
  /\ UNCHANGED <<ret, stream, next, buffer, owner>>

\* Entry of ReConnect, called from loop r with the stream in status s: an
\* open stream is closed first, then the back-off runs.
ReConnect(c, r, s) ==
  /\ ret' = [ret EXCEPT ![c] = r]
  /\ SetWs(c, IF s = "open" THEN "closing" ELSE s)
  /\ Goto(c, IF s = "open" THEN "closeRe" ELSE "rate")

\* Init() and the start of Sub, which returns to loop r.
InitOnly(c, r) ==
  /\ inited' = [inited EXCEPT ![c] = TRUE]
  /\ ret' = [ret EXCEPT ![c] = r]
  /\ Goto(c, r)
  /\ UNCHANGED next
InitAndSub(c, r) ==
  /\ inited' = [inited EXCEPT ![c] = TRUE]
  /\ next' = [next EXCEPT ![c] = 1]
  /\ ret' = [ret EXCEPT ![c] = r]
  /\ Goto(c, IF NSubs = 0 THEN r ELSE "sub")

\* The Close after the read loop, with the stream in status s.
FinalClose(c, s) ==
  /\ Goto(c, "closeEnd")
  /\ SetWs(c, Closing(s))

-----------------------------------------------------------------------------
(* START: while (!stream()->is_open() && !stop_) ReConnect(yield, ec);  *)

MustReConnectIgnoringStop(c) == ws[c] # "open"
MustReConnect(c) == ws[c] # "open" /\ ~stop[c]

StartLoop(c) ==
  /\ pc[c] = "start"
  /\ \/ /\ MustReConnect(c)
        /\ ReConnect(c, "start", ws[c])
     \/ /\ ~MustReConnect(c)
        /\ Goto(c, "loop")
        /\ UNCHANGED <<ret, ws>>
  /\ UNCHANGED <<tcp, inited, sent, next, buffer, owner>>

\* async_close ends: on an error the socket is closed, otherwise the closing
\* handshake has shut it down.
CloseKeepingSocket(c, from, to) ==
  /\ pc[c] = from
  /\ \E s \in Closed(ws[c]) : SetWs(c, s)
  /\ Goto(c, to)
  /\ UNCHANGED <<ret, tcp, inited, sent, next, buffer, owner>>
CloseDone(c, from, to) ==
  /\ pc[c] = from
  /\ \E s \in Closed(ws[c]) : SetWs(c, s)
  /\ tcp' = [tcp EXCEPT ![c] = FALSE]
  /\ Goto(c, to)
  /\ UNCHANGED <<ret, inited, sent, next, buffer, owner>>

CloseBeforeReConnect(c) == CloseDone(c, "closeRe", "rate")

\* ReConnectRate returns; the old stream is deleted, a new one is created and
\* its connection is attempted.  With TLS the server name is set first, which
\* throws when it fails.
NewStream(c) ==
  /\ pc[c] = "rate"
  /\ SetWs(c, "closed")
  /\ tcp' = [tcp EXCEPT ![c] = FALSE]
  /\ inited' = [inited EXCEPT ![c] = FALSE]
  /\ sent' = [sent EXCEPT ![c] = {}]
  /\ \/ Goto(c, "connect")
     \/ EnableSSL /\ Goto(c, "threw")
  /\ UNCHANGED <<ret, next, buffer, owner>>

-----------------------------------------------------------------------------
(* ConnAndHandShake. *)

\* async_connect ends.  An SSL error is cleared and taken for success,
\* although the socket is not connected; any other error closes the socket
\* and makes ReConnect return.
Connect(c) ==
  /\ pc[c] = "connect"
  /\ \/ \E up \in BOOLEAN :
          /\ tcp' = [tcp EXCEPT ![c] = up]
          /\ \/ EnableSSL /\ Goto(c, "tls") /\ UNCHANGED ws
             \/ ~EnableSSL /\ Goto(c, "handshake") /\ SetWs(c, "handshake")
     \/ Goto(c, ret[c]) /\ UNCHANGED <<ws, tcp>>
  /\ UNCHANGED <<ret, inited, sent, next, buffer, owner>>

\* The blocking TLS handshake of Conn<true> ends.
TlsHandShake(c) ==
  /\ pc[c] = "tls"
  /\ \/ tcp[c] /\ Goto(c, "handshake") /\ SetWs(c, "handshake") /\ UNCHANGED tcp
     \/ Goto(c, ret[c]) /\ tcp' = [tcp EXCEPT ![c] = FALSE] /\ UNCHANGED ws
  /\ UNCHANGED <<ret, inited, sent, next, buffer, owner>>

\* The websocket handshake succeeds: the stream is open.
HandShakeOk(c) ==
  /\ pc[c] = "handshake"
  /\ ws[c] = "handshake" /\ tcp[c]
  /\ SetWs(c, "open")
  /\ InitAndSub(c, ret[c])
  /\ UNCHANGED <<tcp, sent, buffer, owner>>

\* stream_truncated: the error is cleared and the session goes on as after a
\* success, on a stream that never opened.
HandShakeTruncated(c) ==
  /\ pc[c] = "handshake" /\ ws[c] = "handshake"
  /\ InitAndSub(c, ret[c])
  /\ UNCHANGED <<ws, tcp, sent, buffer, owner>>

\* Any other error, a timeout included, closes the socket.
HandShakeFails(c) ==
  /\ pc[c] = "handshake"
  /\ \E s \in {ws[c], "closed"} : SetWs(c, s)
  /\ tcp' = [tcp EXCEPT ![c] = FALSE]
  /\ Goto(c, ret[c])
  /\ UNCHANGED <<ret, inited, sent, next, buffer, owner>>

\* One async_write of Sub ends.  A failed write is logged and Sub goes on with
\* the next subscription; after the last one it returns.
LastSub(n) == n >= NSubs

WriteSub(c) ==
  /\ pc[c] = "sub"
  /\ \/ /\ ws[c] = "open"
        /\ sent' = [sent EXCEPT ![c] = @ \cup {next[c]}]
        /\ UNCHANGED ws
     \/ SetWs(c, Broken(ws[c])) /\ UNCHANGED sent
  /\ \/ /\ ~LastSub(next[c])
        /\ next' = [next EXCEPT ![c] = @ + 1]
        /\ UNCHANGED pc
     \/ LastSub(next[c]) /\ Goto(c, ret[c]) /\ UNCHANGED next
  /\ UNCHANGED <<ret, tcp, inited, buffer, owner>>

-----------------------------------------------------------------------------
(* while (!stop_) { Read; ... }  Close(yield, ec);  *)

ReadLoop(c) ==
  /\ pc[c] = "loop"
  /\ \/ stop[c] /\ FinalClose(c, ws[c])
     \/ ~stop[c] /\ Goto(c, "read") /\ UNCHANGED ws
  /\ UNCHANGED <<ret, tcp, inited, sent, next, buffer, owner>>

\* if (stop_) break;  straight after Read, whatever it returned.
NeverBreak(c) == FALSE
BreakOnStop(c) == stop[c]

ReadBreak(c) ==
  /\ pc[c] = "read" /\ BreakOnStop(c)
  /\ \E n \in 0..MaxMsg : buf' = [buf EXCEPT ![c] = n]
  /\ \E s \in {ws[c], Broken(ws[c])} : FinalClose(c, s)
  /\ UNCHANGED <<ret, tcp, inited, sent, next, size, owner>>

\* Read hands a whole message of n bytes to OnRead.
ReadMsg(c) ==
  /\ pc[c] = "read" /\ ~BreakOnStop(c)
  /\ ws[c] = "open"
  /\ \E n \in 0..MaxMsg :
       /\ buf' = [buf EXCEPT ![c] = @ + n]
       /\ size' = [size EXCEPT ![c] = n]
  /\ Goto(c, "onread")
  /\ UNCHANGED <<ret, stream, next, owner>>

\* Read fails after n bytes of a message, which buffer_ gives up at once.
KeepPartialRead(c) ==
  \E n \in 0..MaxMsg : buf' = [buf EXCEPT ![c] = n]
PartialRead(c) ==
  \E n \in 0..MaxMsg : buf' = [buf EXCEPT ![c] = Consume(@ + n, n)]

\* timeout: the idle timer has closed the stream.
ReadTimeout(c) ==
  /\ pc[c] = "read" /\ ~BreakOnStop(c)
  /\ ws[c] = "open"
  /\ PartialRead(c)
  /\ ReConnect(c, "loop", "closed")
  /\ tcp' = [tcp EXCEPT ![c] = FALSE]
  /\ UNCHANGED <<inited, sent, next, size, owner>>

\* operation_aborted: the stream was dead already, or the read was cancelled.
ReadAbortedIgnored(c) ==
  /\ pc[c] = "read" /\ ~BreakOnStop(c)
  /\ Dead(ws[c])
  /\ PartialRead(c)
  /\ Goto(c, "loop")
  /\ UNCHANGED <<ret, stream, next, size, owner>>
ReadAborted(c) ==
  /\ pc[c] = "read" /\ ~BreakOnStop(c)
  /\ PartialRead(c)
  /\ \/ Dead(ws[c]) /\ ReConnect(c, "loop", ws[c])
     \/ ws[c] = "open" /\ \E s \in {"open", "failed"} : ReConnect(c, "loop", s)
  /\ UNCHANGED <<tcp, inited, sent, next, size, owner>>

\* Any other error is only logged: the stream is dead from now on, and the
\* next Read is aborted.
ReadError(c) ==
  /\ pc[c] = "read" /\ ~BreakOnStop(c)
  /\ ~Dead(ws[c])
  /\ PartialRead(c)
  /\ \E s \in {"closed", "failed"} : SetWs(c, s)
  /\ Goto(c, "loop")
  /\ UNCHANGED <<ret, tcp, inited, sent, next, size, owner>>

-----------------------------------------------------------------------------
(* OnRead returns a Ctrl.  It may have used the stream, and broken it.  *)

ConsumeMsg(c) ==
  /\ buf' = [buf EXCEPT ![c] = Consume(@, size[c])]
  /\ size' = [size EXCEPT ![c] = 0]

AfterOnRead(c) == {ws[c], Broken(ws[c])}

OnReadContinue(c) ==
  /\ pc[c] = "onread"
  /\ ConsumeMsg(c)
  /\ \E s \in AfterOnRead(c) : SetWs(c, s)
  /\ Goto(c, "loop")
  /\ UNCHANGED <<ret, tcp, inited, sent, next, owner>>

\* CtrlReConnect: Close until the stream is not open, then goto START.
OnReadReConnect(c) ==
  /\ pc[c] = "onread"
  /\ ConsumeMsg(c)
  /\ \E s \in AfterOnRead(c) : SetWs(c, Closing(s))
  /\ Goto(c, "closeCtrl")
  /\ UNCHANGED <<ret, tcp, inited, sent, next, owner>>

CloseOnCtrl(c) == CloseDone(c, "closeCtrl", "start")

\* CtrlReSub: UnSub does nothing, then Init and Sub once more.
OnReadReSub(c) ==
  /\ pc[c] = "onread"
  /\ ConsumeMsg(c)
  /\ \E s \in AfterOnRead(c) : SetWs(c, s)
  /\ InitAndSub(c, "loop")
  /\ UNCHANGED <<tcp, sent, owner>>

\* CtrlPing: ping() is blocking and throws when it fails.
OnReadPing(c) ==
  /\ pc[c] = "onread"
  /\ ConsumeMsg(c)
  /\ \/ ws[c] = "open" /\ Goto(c, "loop") /\ UNCHANGED ws
     \/ Goto(c, "threw") /\ SetWs(c, Broken(ws[c]))
  /\ UNCHANGED <<ret, tcp, inited, sent, next, owner>>

CloseAtEnd(c) == CloseDone(c, "closeEnd", "done")

-----------------------------------------------------------------------------
(* Stop(), called by another actor: it sets stop_, then closes the stream   *)
(* with the blocking close that reports an error by throwing.               *)

StopCall(c) ==
  /\ pc[c] # "idle" /\ stopCall[c] # "closing"
  /\ stop' = [stop EXCEPT ![c] = TRUE]
  /\ stopCall' = [stopCall EXCEPT ![c] = "closing"]
  /\ UNCHANGED <<pc, ret, stream, next, buffer>>

StopCloseTwice(c) ==
  /\ stopCall[c] = "closing"
  /\ \/ /\ ws[c] \in {"open", "closing", "closed"}
        /\ SetWs(c, "closed")
        /\ tcp' = [tcp EXCEPT ![c] = FALSE]
        /\ stopCall' = [stopCall EXCEPT ![c] = "returned"]
     \/ /\ SetWs(c, Broken(ws[c]))
        /\ stopCall' = [stopCall EXCEPT ![c] = "threw"]
        /\ UNCHANGED tcp
  /\ UNCHANGED <<pc, ret, inited, sent, next, buffer, stop>>
StopClose(c) ==
  /\ stopCall[c] = "closing"
  /\ \/ /\ ws[c] \in {"open", "closing"}
        /\ SetWs(c, "closed")
        /\ tcp' = [tcp EXCEPT ![c] = FALSE]
        /\ stopCall' = [stopCall EXCEPT ![c] = "returned"]
     \/ /\ SetWs(c, Broken(ws[c]))
        /\ stopCall' = [stopCall EXCEPT ![c] = "threw"]
        /\ UNCHANGED tcp
  /\ UNCHANGED <<pc, ret, inited, sent, next, buffer, stop>>

-----------------------------------------------------------------------------
(* The session and the specification.                                       *)

\* The steps Conn<true> and Conn<false> share.
SessionStep(c) ==
  \/ StartLoop(c) \/ CloseBeforeReConnect(c) \/ NewStream(c) \/ Connect(c)
  \/ HandShakeOk(c) \/ HandShakeTruncated(c) \/ HandShakeFails(c)
  \/ WriteSub(c) \/ ReadLoop(c)
  \/ ReadBreak(c) \/ ReadMsg(c) \/ ReadTimeout(c) \/ ReadAborted(c)
  \/ ReadError(c) \/ OnReadContinue(c) \/ OnReadReConnect(c)
  \/ CloseOnCtrl(c) \/ CloseAtEnd(c)

\* Conn<false> treats every Ctrl but CtrlReConnect as CtrlContinue.
TlsStep(c) ==
  /\ EnableSSL
  /\ TlsHandShake(c) \/ OnReadReSub(c) \/ OnReadPing(c)

Next ==
  \E c \in Conns :
    Spawn(c) \/ SessionStep(c) \/ TlsStep(c) \/ StopCall(c) \/ StopClose(c)

\* The steps no peer can put off for ever: they end an operation that has a
\* timeout or a timer, work on a stream that is already dead, or return from
\* the application's OnRead.  A read on an open stream is not among them (the
\* keep-alive pings let an idle feed stay silent), nor the TLS handshake.
Advance(c) ==
  \/ /\ pc[c] = "read" => ws[c] # "open"
     /\ SessionStep(c)
  \/ pc[c] = "onread" /\ TlsStep(c)

Spec == Init /\ [][Next]_vars
FairSpec ==
  Spec /\ \A c \in Conns : WF_vars(Advance(c)) /\ WF_vars(StopClose(c))

-----------------------------------------------------------------------------
(* Properties. *)

Subscribed(c) == inited[c] /\ sent[c] = Subs

\* OnRead is called, and an open stream is read, only on a stream on which
\* Init has run and every subscription has been written: however the
\* last stream was lost, no message comes from a half-subscribed one, although
\* Sub only logs a failed write.
FeedReady ==
  \A c \in Conns :
    pc[c] = "onread" \/ (pc[c] \in {"start", "loop", "read"} /\ ws[c] = "open")
      => Subscribed(c)

\* OnRead gets the beginning of buffer_ and the size of one message: the bytes
\* of a read that failed on an earlier stream are never in front of them.
MessageWhole == \A c \in Conns : pc[c] = "onread" => buf[c] = size[c]

\* A session returns only when it was stopped, and it leaves a dead stream and
\* a closed socket behind, whatever Stop's own close did in the meantime.
EndedClean ==
  \A c \in Conns : pc[c] = "done" => stop[c] /\ Dead(ws[c]) /\ ~tcp[c]

\* Once stop_ is set no new attempt to reconnect begins; one that has begun
\* may still go through.
ReConnecting == {"closeRe", "rate"}
NoNewReConnect(c) ==
  stop[c] /\ pc'[c] \in ReConnecting => pc[c] \in ReConnecting
NoNewReConnects == \A c \in Conns : NoNewReConnect(c)
NoReConnectAfterStop == [][NoNewReConnects]_vars

\* The steps that a stopped session still takes, at most: from the place it is
\* at, with the subscriptions it has to write.
Distance ==
  [done |-> 0, threw |-> 0, closeEnd |-> 1, loop |-> 2, read |-> 2, start |-> 3,
   closeCtrl |-> 4, sub |-> 4, handshake |-> 5, onread |-> 5, tls |-> 6,
   connect |-> 7, rate |-> 8, closeRe |-> 9, idle |-> 10]
StillToWrite(c) ==
  IF pc[c] = "sub" THEN NSubs - next[c]
  ELSE IF Distance[pc[c]] >= 5 THEN NSubs ELSE 0
StepsLeft(c) == Distance[pc[c]] + StillToWrite(c)

\* Every step of a stopped session brings it nearer to its end, and none of
\* Stop's own steps takes it away from there: no loop of DoSession, and no way
\* through ReConnect, Sub or the Ctrl of OnRead, is taken twice.  So it ends
\* after NSubs + 9 steps at most, if each of them returns.
RunsOut(c) ==
  stop[c] =>
    /\ StepsLeft(c)' <= StepsLeft(c)
    /\ SessionStep(c) \/ TlsStep(c) => StepsLeft(c)' < StepsLeft(c)
StopRunsOut == [][\A c \in Conns : RunsOut(c)]_vars

\* A session that is stopped ends, as long as its blocking TLS handshakes
\* return: neither the back-off nor a reconnecting loop keeps it alive.
TlsReturns(c) == []<>(pc[c] # "tls")
StopEnds ==
  \A c \in Conns : TlsReturns(c) => (stop[c] ~> pc[c] \in {"done", "threw"})

\* A session that finds its stream lost comes to connect a new one, unless it
\* is stopped: no read error leaves it spinning on a dead stream.
Recovers ==
  \A c \in Conns :
    (pc[c] \in {"start", "loop", "read"} /\ ws[c] # "open")
      ~> (pc[c] \in {"connect", "threw"} \/ stop[c])

-----------------------------------------------------------------------------
(* What a session promises its application: module WsFeed.                  *)

FeedPhase(c) ==
  IF pc[c] = "done" THEN "over"
  ELSE IF pc[c] = "threw" THEN "dead"
  ELSE IF ws[c] # "open" THEN "off"
  ELSE IF Subscribed(c) THEN "live" ELSE "joining"

Feed == INSTANCE WsFeed WITH
  phase  <- [c \in Conns |-> FeedPhase(c)],
  busy   <- [c \in Conns |-> pc[c] = "onread"],
  halted <- stop

\* Every behaviour of the session is one of the abstract feed.
ImplementsFeed == Feed!Spec
=============================================================================
