---------------------------- MODULE WsConn_proof ----------------------------
(***************************************************************************)
(* Proofs about the websocket session: its invariants, for any sessions,   *)
(* subscriptions and sizes of messages.                                    *)
(***************************************************************************)
EXTENDS WsConn, TLAPS

\* Where the session has no open stream, whatever Stop does.
Offline == {"idle", "closeRe", "rate", "connect", "tls", "handshake",
            "closeCtrl", "closeEnd", "done", "threw"}

\* Where it may have one, and every subscription has been written on it.
Listening == {"start", "loop", "read"}

StreamShut(c) == pc[c] \in Offline => ws[c] # "open"

Ready(c) ==
  pc[c] = "onread" \/ (pc[c] \in Listening /\ ws[c] = "open") => Subscribed(c)

\* Sub has written the subscriptions before the next one, if the stream lives.
Subscribing(c) ==
  pc[c] = "sub" =>
    /\ inited[c] /\ next[c] \in Subs
    /\ ws[c] = "open" => 1..(next[c] - 1) \subseteq sent[c]

\* buffer_ holds nothing but the message OnRead is looking at.
Buffered(c) ==
  /\ pc[c] = "onread" => buf[c] = size[c]
  /\ pc[c] \notin {"onread", "closeEnd", "done"} => buf[c] = 0

Ending(c) ==
  /\ pc[c] \in {"closeEnd", "done"} => stop[c]
  /\ pc[c] = "done" => Dead(ws[c]) /\ ~tcp[c]

SessionOK(c) ==
  StreamShut(c) /\ Ready(c) /\ Subscribing(c) /\ Buffered(c) /\ Ending(c)

IInv == TypeOK /\ \A c \in Conns : SessionOK(c)

-----------------------------------------------------------------------------
(* A step of one session, seen from that session and from the others.       *)

\* The state of session c changes, the others keep theirs.
OthersKeep(c) ==
  \A d \in Conns \ {c} :
    /\ pc'[d] = pc[d] /\ ret'[d] = ret[d] /\ ws'[d] = ws[d] /\ tcp'[d] = tcp[d]
    /\ inited'[d] = inited[d] /\ sent'[d] = sent[d] /\ next'[d] = next[d]
    /\ buf'[d] = buf[d] /\ size'[d] = size[d] /\ stop'[d] = stop[d]

SomeStep(c) ==
  Spawn(c) \/ SessionStep(c) \/ TlsStep(c) \/ StopCall(c) \/ StopClose(c)

LEMMA Locality ==
  ASSUME IInv, NEW c \in Conns, SomeStep(c)
  PROVE  OthersKeep(c)
<1> USE DEF IInv, TypeOK, OthersKeep, stream, buffer, owner, Goto, SetWs
<1>1. CASE Spawn(c)
  BY <1>1 DEF Spawn
<1>2. CASE StartLoop(c)
  BY <1>2 DEF StartLoop, ReConnect
<1>3. CASE CloseBeforeReConnect(c) \/ CloseOnCtrl(c) \/ CloseAtEnd(c)
  BY <1>3 DEF CloseBeforeReConnect, CloseOnCtrl, CloseAtEnd, CloseDone
<1>4. CASE NewStream(c)
  BY <1>4 DEF NewStream
<1>5. CASE Connect(c)
  BY <1>5 DEF Connect
<1>6. CASE HandShakeOk(c) \/ HandShakeTruncated(c) \/ HandShakeFails(c)
  BY <1>6 DEF HandShakeOk, HandShakeTruncated, HandShakeFails, InitAndSub
<1>7. CASE WriteSub(c)
  BY <1>7 DEF WriteSub
<1>8. CASE ReadLoop(c) \/ ReadBreak(c)
  BY <1>8 DEF ReadLoop, ReadBreak, FinalClose
<1>9. CASE ReadMsg(c)
  BY <1>9 DEF ReadMsg
<1>10. CASE ReadTimeout(c) \/ ReadAborted(c) \/ ReadError(c)
  BY <1>10 DEF ReadTimeout, ReadAborted, ReadError, PartialRead, ReConnect
<1>11. CASE OnReadContinue(c) \/ OnReadReConnect(c)
  BY <1>11 DEF OnReadContinue, OnReadReConnect, ConsumeMsg
<1>12. CASE TlsStep(c)
  BY <1>12 DEF TlsStep, TlsHandShake, OnReadReSub, OnReadPing, ConsumeMsg,
               InitAndSub
<1>13. CASE StopCall(c) \/ StopClose(c)
  BY <1>13 DEF StopCall, StopClose
<1> QED
  BY <1>1, <1>2, <1>3, <1>4, <1>5, <1>6, <1>7, <1>8, <1>9, <1>10, <1>11,
     <1>12, <1>13 DEF SomeStep, SessionStep

LEMMA OthersOK ==
  ASSUME IInv, NEW c \in Conns, OthersKeep(c), SessionOK(c)'
  PROVE  \A d \in Conns : SessionOK(d)'
<1> SUFFICES ASSUME NEW d \in Conns, d # c PROVE SessionOK(d)'
  OBVIOUS
<1> QED
  BY DEF IInv, OthersKeep, SessionOK, StreamShut, Ready, Subscribed,
         Subscribing, Buffered, Ending

-----------------------------------------------------------------------------
(* Every step of a session keeps the types, and its own SessionOK.          *)

LEMMA StepOK ==
  ASSUME IInv, NEW c \in Conns, SomeStep(c)
  PROVE  TypeOK' /\ SessionOK(c)'
<1> USE WsConnAssumption DEF stream, buffer, owner, Goto, SetWs, Labels, Statuses
<1>0. /\ TypeOK /\ SessionOK(c)
      /\ pc[c] \in Labels /\ ret[c] \in {"start", "loop"} /\ ws[c] \in Statuses
      /\ Closed(ws[c]) \subseteq {"closed", "failed"}
      /\ Broken(ws[c]) \in {"closed", "failed"}
      /\ Closing(ws[c]) \in Statuses \ {"open"}
  BY DEF IInv, TypeOK, Closed, Broken, Closing, Dead
<1> DEFINE OK == TypeOK' /\ SessionOK(c)'
<1>1. CASE Spawn(c)
  <2>1. TypeOK'
    BY <1>0, <1>1 DEF TypeOK, Spawn, SessionOK, Buffered, Subscribing
  <2>2. SessionOK(c)'
    BY <1>0, <1>1 DEF TypeOK, Spawn,
       SessionOK, StreamShut, Ready, Subscribed, Subscribing, Buffered, Ending,
       Offline, Listening, Dead
  <2> QED
    BY <2>1, <2>2
<1>2. CASE StartLoop(c)
  <2>1. TypeOK'
    BY <1>0, <1>2 DEF TypeOK, StartLoop, ReConnect, MustReConnect, SessionOK, Buffered, Subscribing
  <2>2. SessionOK(c)'
    BY <1>0, <1>2 DEF TypeOK, StartLoop, ReConnect, MustReConnect,
       SessionOK, StreamShut, Ready, Subscribed, Subscribing, Buffered, Ending,
       Offline, Listening, Dead
  <2> QED
    BY <2>1, <2>2
<1>3. CASE CloseBeforeReConnect(c)
  <2>1. TypeOK'
    BY <1>0, <1>3 DEF TypeOK, CloseBeforeReConnect, CloseDone, SessionOK, Buffered, Subscribing
  <2>2. SessionOK(c)'
    BY <1>0, <1>3 DEF TypeOK, CloseBeforeReConnect, CloseDone,
       SessionOK, StreamShut, Ready, Subscribed, Subscribing, Buffered, Ending,
       Offline, Listening, Dead
  <2> QED
    BY <2>1, <2>2
<1>4. CASE CloseOnCtrl(c)
  <2>1. TypeOK'
    BY <1>0, <1>4 DEF TypeOK, CloseOnCtrl, CloseDone, SessionOK, Buffered, Subscribing
  <2>2. SessionOK(c)'
    BY <1>0, <1>4 DEF TypeOK, CloseOnCtrl, CloseDone,
       SessionOK, StreamShut, Ready, Subscribed, Subscribing, Buffered, Ending,
       Offline, Listening, Dead
  <2> QED
    BY <2>1, <2>2
<1>5. CASE CloseAtEnd(c)
  <2>1. TypeOK'
    BY <1>0, <1>5 DEF TypeOK, CloseAtEnd, CloseDone, SessionOK, Buffered, Subscribing
  <2>2. SessionOK(c)'
    BY <1>0, <1>5 DEF TypeOK, CloseAtEnd, CloseDone,
       SessionOK, StreamShut, Ready, Subscribed, Subscribing, Buffered, Ending,
       Offline, Listening, Dead
  <2> QED
    BY <2>1, <2>2
<1>6. CASE NewStream(c)
  <2>1. TypeOK'
    BY <1>0, <1>6 DEF TypeOK, NewStream, SessionOK, Buffered, Subscribing
  <2>2. SessionOK(c)'
    BY <1>0, <1>6 DEF TypeOK, NewStream,
       SessionOK, StreamShut, Ready, Subscribed, Subscribing, Buffered, Ending,
       Offline, Listening, Dead
  <2> QED
    BY <2>1, <2>2
<1>7. CASE Connect(c)
  <2>1. TypeOK'
    BY <1>0, <1>7 DEF TypeOK, Connect, SessionOK, Buffered, Subscribing
  <2>2. SessionOK(c)'
    BY <1>0, <1>7 DEF TypeOK, Connect,
       SessionOK, StreamShut, Ready, Subscribed, Subscribing, Buffered, Ending,
       Offline, Listening, Dead
  <2> QED
    BY <2>1, <2>2
<1>8. CASE HandShakeOk(c)
  <2>1. TypeOK'
    <3>1. pc' \in [Conns -> Labels] /\ ws' \in [Conns -> Statuses]
      BY <1>0, <1>8 DEF TypeOK, HandShakeOk, InitAndSub
    <3>2. inited' \in [Conns -> BOOLEAN]
      BY <1>0, <1>8 DEF TypeOK, HandShakeOk, InitAndSub
    <3>3. ret' \in [Conns -> {"start", "loop"}]
      BY <1>0, <1>8 DEF TypeOK, HandShakeOk, InitAndSub
    <3>4. next' \in [Conns -> 1..(NSubs + 1)]
      BY <1>0, <1>8 DEF TypeOK, HandShakeOk, InitAndSub
    <3> QED
      BY <1>0, <1>8, <3>1, <3>2, <3>3, <3>4 DEF TypeOK, HandShakeOk
  <2>2. SessionOK(c)'
    <3>1. /\ pc'[c] = IF NSubs = 0 THEN ret[c] ELSE "sub"
          /\ inited'[c] /\ next'[c] = 1 /\ sent' = sent /\ buf' = buf
      BY <1>0, <1>8 DEF TypeOK, HandShakeOk, InitAndSub
    <3>2. Buffered(c)' /\ Ending(c)' /\ StreamShut(c)'
      BY <1>0, <1>8, <3>1 DEF HandShakeOk, SessionOK, Buffered, Ending,
         StreamShut, Offline
    <3>3. Ready(c)'
      <4>1. NSubs = 0 => sent[c] = Subs
        BY <1>0 DEF TypeOK, Subs
      <4> QED
        BY <1>0, <3>1, <4>1 DEF Ready, Listening, Subscribed, Subs
    <3>4. Subscribing(c)'
      <4>1. 1..(1 - 1) = {}
        OBVIOUS
      <4>2. NSubs # 0 => 1 \in Subs
        BY DEF Subs
      <4> QED
        BY <1>0, <3>1, <4>1, <4>2 DEF Subscribing, Subs
    <3> QED
      BY <3>2, <3>3, <3>4 DEF SessionOK
  <2> QED
    BY <2>1, <2>2
<1>9. CASE HandShakeTruncated(c)
  <2>1. TypeOK'
    BY <1>0, <1>9 DEF TypeOK, HandShakeTruncated, InitAndSub, Subs, SessionOK, Buffered, Subscribing
  <2>2. SessionOK(c)'
    BY <1>0, <1>9 DEF TypeOK, HandShakeTruncated, InitAndSub, Subs,
       SessionOK, StreamShut, Ready, Subscribed, Subscribing, Buffered, Ending,
       Offline, Listening, Dead
  <2> QED
    BY <2>1, <2>2
<1>10. CASE HandShakeFails(c)
  <2>1. TypeOK'
    BY <1>0, <1>10 DEF TypeOK, HandShakeFails, SessionOK, Buffered, Subscribing
  <2>2. SessionOK(c)'
    BY <1>0, <1>10 DEF TypeOK, HandShakeFails,
       SessionOK, StreamShut, Ready, Subscribed, Subscribing, Buffered, Ending,
       Offline, Listening, Dead
  <2> QED
    BY <2>1, <2>2
<1>11. CASE WriteSub(c)
  <2>1. TypeOK'
    <3>1. next[c] \in Subs
      BY <1>0, <1>11 DEF WriteSub, SessionOK, Subscribing
    <3>2. pc' \in [Conns -> Labels] /\ ws' \in [Conns -> Statuses]
      BY <1>0, <1>11 DEF TypeOK, WriteSub
    <3>3. sent' \in [Conns -> SUBSET Subs]
      BY <1>0, <1>11, <3>1 DEF TypeOK, WriteSub
    <3>4. next' \in [Conns -> 1..(NSubs + 1)]
      BY <1>0, <1>11, <3>1 DEF TypeOK, WriteSub, LastSub, Subs
    <3> QED
      BY <1>0, <1>11, <3>2, <3>3, <3>4 DEF TypeOK, WriteSub
  <2>2. SessionOK(c)'
    <3>1. next[c] \in 1..NSubs /\ inited'[c] /\ sent[c] \subseteq 1..NSubs
      BY <1>0, <1>11 DEF TypeOK, WriteSub, SessionOK, Subscribing, Subs
    <3>2. Buffered(c)' /\ Ending(c)' /\ StreamShut(c)'
      BY <1>0, <1>11 DEF TypeOK, WriteSub, SessionOK, Buffered, Ending,
         StreamShut, Offline
    <3>3. ASSUME ws'[c] = "open"
          PROVE  sent'[c] = sent[c] \cup {next[c]} /\ 1..(next[c] - 1) \subseteq sent[c]
      BY <1>0, <1>11, <3>3 DEF TypeOK, WriteSub, SessionOK, Subscribing
    <3>4. CASE ~LastSub(next[c])
      <4>1. pc'[c] = "sub" /\ next'[c] = next[c] + 1 /\ next'[c] \in 1..NSubs
        BY <1>0, <1>11, <3>1, <3>4 DEF TypeOK, WriteSub, LastSub
      <4> QED
        BY <3>1, <3>2, <3>3, <4>1 DEF SessionOK, Ready, Listening, Subscribing, Subs
    <3>5. CASE LastSub(next[c])
      <4>1. pc'[c] = ret[c] /\ next[c] = NSubs
        BY <1>0, <1>11, <3>1, <3>5 DEF TypeOK, WriteSub, LastSub
      <4>2. Subs = 1..(NSubs - 1) \cup {NSubs}
        BY <3>1, <4>1 DEF Subs
      <4>3. ws'[c] = "open" => sent'[c] = Subs
        <5> SUFFICES ASSUME ws'[c] = "open" PROVE sent'[c] = Subs
          OBVIOUS
        <5>1. sent'[c] = sent[c] \cup {NSubs} /\ 1..(NSubs - 1) \subseteq sent[c]
          BY <3>3, <4>1
        <5>2. sent[c] \subseteq Subs /\ NSubs \in Subs
          BY <3>1, <4>1 DEF Subs
        <5> QED
          BY <4>2, <5>1, <5>2, Zenon
      <4> QED
        BY <1>0, <3>1, <3>2, <4>1, <4>3 DEF SessionOK, Ready, Listening,
           Subscribed, Subscribing
    <3> QED
      BY <3>4, <3>5
  <2> QED
    BY <2>1, <2>2
<1>12. CASE ReadLoop(c)
  <2>1. TypeOK'
    BY <1>0, <1>12 DEF TypeOK, ReadLoop, FinalClose, Closing, SessionOK, Buffered, Subscribing
  <2>2. SessionOK(c)'
    BY <1>0, <1>12 DEF TypeOK, ReadLoop, FinalClose, Closing,
       SessionOK, StreamShut, Ready, Subscribed, Subscribing, Buffered, Ending,
       Offline, Listening, Dead
  <2> QED
    BY <2>1, <2>2
<1>13. CASE ReadBreak(c)
  <2>1. TypeOK'
    BY <1>0, <1>13 DEF TypeOK, ReadBreak, FinalClose, BreakOnStop, Closing, Broken, SessionOK, Buffered, Subscribing
  <2>2. SessionOK(c)'
    BY <1>0, <1>13 DEF TypeOK, ReadBreak, FinalClose, BreakOnStop, Closing, Broken,
       SessionOK, StreamShut, Ready, Subscribed, Subscribing, Buffered, Ending,
       Offline, Listening, Dead
  <2> QED
    BY <2>1, <2>2
<1>14. CASE ReadMsg(c)
  <2>1. TypeOK'
    BY <1>0, <1>14 DEF TypeOK, ReadMsg, BreakOnStop, SessionOK, Buffered, Subscribing
  <2>2. SessionOK(c)'
    BY <1>0, <1>14 DEF TypeOK, ReadMsg, BreakOnStop,
       SessionOK, StreamShut, Ready, Subscribed, Subscribing, Buffered, Ending,
       Offline, Listening, Dead
  <2> QED
    BY <2>1, <2>2
<1>15. CASE ReadTimeout(c)
  <2>1. TypeOK'
    BY <1>0, <1>15 DEF TypeOK, ReadTimeout, PartialRead, Consume, ReConnect, SessionOK, Buffered, Subscribing
  <2>2. SessionOK(c)'
    BY <1>0, <1>15 DEF TypeOK, ReadTimeout, PartialRead, Consume, ReConnect,
       SessionOK, StreamShut, Ready, Subscribed, Subscribing, Buffered, Ending,
       Offline, Listening, Dead
  <2> QED
    BY <2>1, <2>2
<1>16. CASE ReadAborted(c)
  <2>1. TypeOK'
    BY <1>0, <1>16 DEF TypeOK, ReadAborted, PartialRead, Consume, ReConnect, SessionOK, Buffered, Subscribing
  <2>2. SessionOK(c)'
    BY <1>0, <1>16 DEF TypeOK, ReadAborted, PartialRead, Consume, ReConnect,
       SessionOK, StreamShut, Ready, Subscribed, Subscribing, Buffered, Ending,
       Offline, Listening, Dead
  <2> QED
    BY <2>1, <2>2
<1>17. CASE ReadError(c)
  <2>1. TypeOK'
    BY <1>0, <1>17 DEF TypeOK, ReadError, PartialRead, Consume, SessionOK, Buffered, Subscribing
  <2>2. SessionOK(c)'
    BY <1>0, <1>17 DEF TypeOK, ReadError, PartialRead, Consume,
       SessionOK, StreamShut, Ready, Subscribed, Subscribing, Buffered, Ending,
       Offline, Listening, Dead
  <2> QED
    BY <2>1, <2>2
<1>18. CASE OnReadContinue(c)
  <2>1. TypeOK'
    BY <1>0, <1>18 DEF TypeOK, OnReadContinue, ConsumeMsg, Consume, AfterOnRead, Broken, SessionOK, Buffered, Subscribing
  <2>2. SessionOK(c)'
    BY <1>0, <1>18 DEF TypeOK, OnReadContinue, ConsumeMsg, Consume, AfterOnRead, Broken,
       SessionOK, StreamShut, Ready, Subscribed, Subscribing, Buffered, Ending,
       Offline, Listening, Dead
  <2> QED
    BY <2>1, <2>2
<1>19. CASE OnReadReConnect(c)
  <2>1. TypeOK'
    BY <1>0, <1>19 DEF TypeOK, OnReadReConnect, ConsumeMsg, Consume, AfterOnRead, Broken, Closing, SessionOK, Buffered, Subscribing
  <2>2. SessionOK(c)'
    BY <1>0, <1>19 DEF TypeOK, OnReadReConnect, ConsumeMsg, Consume, AfterOnRead, Broken, Closing,
       SessionOK, StreamShut, Ready, Subscribed, Subscribing, Buffered, Ending,
       Offline, Listening, Dead
  <2> QED
    BY <2>1, <2>2
<1>20. CASE TlsHandShake(c)
  <2>1. TypeOK'
    <3>1. tcp' \in [Conns -> BOOLEAN]
      BY <1>0, <1>20 DEF TypeOK, TlsHandShake
    <3>2. pc' \in [Conns -> Labels] /\ ws' \in [Conns -> Statuses]
      BY <1>0, <1>20 DEF TypeOK, TlsHandShake
    <3> QED
      BY <1>0, <1>20, <3>1, <3>2 DEF TypeOK, TlsHandShake
  <2>2. SessionOK(c)'
    BY <1>0, <1>20 DEF TypeOK, TlsHandShake,
       SessionOK, StreamShut, Ready, Subscribed, Subscribing, Buffered, Ending,
       Offline, Listening, Dead
  <2> QED
    BY <2>1, <2>2
<1>21. CASE OnReadReSub(c)
  <2>1. TypeOK'
    BY <1>0, <1>21 DEF TypeOK, OnReadReSub, ConsumeMsg, Consume, AfterOnRead, Broken, InitAndSub, Subs, SessionOK, Buffered, Subscribing
  <2>2. SessionOK(c)'
    BY <1>0, <1>21 DEF TypeOK, OnReadReSub, ConsumeMsg, Consume, AfterOnRead, Broken, InitAndSub, Subs,
       SessionOK, StreamShut, Ready, Subscribed, Subscribing, Buffered, Ending,
       Offline, Listening, Dead
  <2> QED
    BY <2>1, <2>2
<1>22. CASE OnReadPing(c)
  <2>1. TypeOK'
    BY <1>0, <1>22 DEF TypeOK, OnReadPing, ConsumeMsg, Consume, Broken, SessionOK, Buffered, Subscribing
  <2>2. SessionOK(c)'
    BY <1>0, <1>22 DEF TypeOK, OnReadPing, ConsumeMsg, Consume, Broken,
       SessionOK, StreamShut, Ready, Subscribed, Subscribing, Buffered, Ending,
       Offline, Listening, Dead
  <2> QED
    BY <2>1, <2>2
<1>23. CASE StopCall(c)
  <2>1. TypeOK'
    BY <1>0, <1>23 DEF TypeOK, StopCall, SessionOK, Buffered, Subscribing
  <2>2. SessionOK(c)'
    BY <1>0, <1>23 DEF TypeOK, StopCall,
       SessionOK, StreamShut, Ready, Subscribed, Subscribing, Buffered, Ending,
       Offline, Listening, Dead
  <2> QED
    BY <2>1, <2>2
<1>24. CASE StopClose(c)
  <2>1. TypeOK'
    BY <1>0, <1>24 DEF TypeOK, StopClose, Broken, SessionOK, Buffered, Subscribing
  <2>2. SessionOK(c)'
    BY <1>0, <1>24 DEF TypeOK, StopClose, Broken,
       SessionOK, StreamShut, Ready, Subscribed, Subscribing, Buffered, Ending,
       Offline, Listening, Dead
  <2> QED
    BY <2>1, <2>2
<1> QED
  BY <1>1, <1>2, <1>3, <1>4, <1>5, <1>6, <1>7, <1>8, <1>9, <1>10, <1>11, <1>12, <1>13, <1>14, <1>15, <1>16, <1>17, <1>18, <1>19, <1>20, <1>21, <1>22, <1>23, <1>24
     DEF SomeStep, SessionStep, TlsStep

-----------------------------------------------------------------------------
(* The invariant.                                                           *)

LEMMA InvInit == Init => IInv
<1> SUFFICES ASSUME Init PROVE IInv
  OBVIOUS
<1>1. TypeOK
  BY WsConnAssumption DEF Init, TypeOK, Labels, Statuses
<1>2. ASSUME NEW c \in Conns PROVE SessionOK(c)
  BY DEF Init, SessionOK, StreamShut, Ready, Subscribing, Buffered, Ending,
     Listening
<1> QED
  BY <1>1, <1>2 DEF IInv

LEMMA InvStep == IInv /\ [Next]_vars => IInv'
<1> SUFFICES ASSUME IInv, [Next]_vars PROVE IInv'
  OBVIOUS
<1>1. CASE Next
  <2>1. PICK c \in Conns : SomeStep(c)
    BY <1>1 DEF Next, SomeStep
  <2>2. TypeOK' /\ SessionOK(c)'
    BY <2>1, StepOK
  <2>3. \A d \in Conns : SessionOK(d)'
    BY <2>1, <2>2, Locality, OthersOK
  <2> QED
    BY <2>2, <2>3 DEF IInv
<1>2. CASE UNCHANGED vars
  BY <1>2 DEF vars, IInv, TypeOK, SessionOK, StreamShut, Ready, Subscribed,
     Subscribing, Buffered, Ending
<1> QED
  BY <1>1, <1>2

LEMMA Invariance == Spec => []IInv
BY InvInit, InvStep, PTL DEF Spec

\* Every variable keeps its type; buffer_ never holds more than one message.
THEOREM TypeCorrect == Spec => []TypeOK
<1>1. IInv => TypeOK
  BY DEF IInv
<1> QED
  BY <1>1, Invariance, PTL

\* A message is read and handled only on a fully subscribed stream, however
\* many streams were lost before.
THEOREM FeedIsReady == Spec => []FeedReady
<1>1. IInv => FeedReady
  BY DEF IInv, SessionOK, Ready, Listening, FeedReady
<1> QED
  BY <1>1, Invariance, PTL

\* OnRead always sees exactly one message at the beginning of buffer_.
THEOREM MessagesAreWhole == Spec => []MessageWhole
<1>1. IInv => MessageWhole
  BY DEF IInv, SessionOK, Buffered, MessageWhole
<1> QED
  BY <1>1, Invariance, PTL

\* A session returns only when stopped, with its stream dead and its socket
\* closed.
THEOREM EndsClean == Spec => []EndedClean
<1>1. IInv => EndedClean
  BY DEF IInv, SessionOK, Ending, EndedClean
<1> QED
  BY <1>1, Invariance, PTL

-----------------------------------------------------------------------------
(* What the modules that build on the session need to know of its steps.    *)

\* Lemma: a session takes steps between its start and its end, and stops nothing;
\* an exception leaves its stream dead.
LEMMA SessionAlone ==
  ASSUME IInv, NEW c \in Conns, SessionStep(c) \/ TlsStep(c)
  PROVE  /\ TypeOK' /\ UNCHANGED <<stop, stopCall>>
         /\ pc[c] \notin {"idle", "done", "threw"}
         /\ pc'[c] = "threw" => Dead(ws'[c])
         /\ \A d \in Conns : (pc'[d] = "idle") <=> (pc[d] = "idle")
<1> USE DEF stream, buffer, owner, Goto, SetWs, Dead, Broken
<1>0. /\ SomeStep(c) /\ pc \in [Conns -> Labels]
      /\ ret[c] \notin {"idle", "threw"} /\ ws \in [Conns -> Statuses] /\ ret \in [Conns -> {"start", "loop"}]
  BY DEF SomeStep, IInv, TypeOK
<1>1. TypeOK' /\ OthersKeep(c)
  BY <1>0, StepOK, Locality
<1>2. /\ UNCHANGED <<stop, stopCall>>
      /\ pc[c] \notin {"idle", "done", "threw"} /\ pc'[c] # "idle"
      /\ pc'[c] = "threw" => Dead(ws'[c])
  <2>1. CASE StartLoop(c)
    BY <1>0, <2>1 DEF StartLoop, ReConnect
  <2>2. CASE CloseBeforeReConnect(c) \/ CloseOnCtrl(c) \/ CloseAtEnd(c)
    BY <1>0, <2>2 DEF CloseBeforeReConnect, CloseOnCtrl, CloseAtEnd, CloseDone
  <2>3. CASE NewStream(c) \/ Connect(c)
    BY <1>0, <2>3 DEF NewStream, Connect
  <2>4. CASE HandShakeOk(c) \/ HandShakeTruncated(c) \/ HandShakeFails(c)
    BY <1>0, <2>4 DEF HandShakeOk, HandShakeTruncated, HandShakeFails, InitAndSub
  <2>5. CASE WriteSub(c)
    BY <1>0, <2>5 DEF WriteSub
  <2>6. CASE ReadLoop(c) \/ ReadBreak(c)
    BY <1>0, <2>6 DEF ReadLoop, ReadBreak, FinalClose
  <2>7. CASE ReadMsg(c)
    BY <1>0, <2>7 DEF ReadMsg
  <2>8. CASE ReadTimeout(c) \/ ReadAborted(c) \/ ReadError(c)
    BY <1>0, <2>8 DEF ReadTimeout, ReadAborted, ReadError, PartialRead, ReConnect
  <2>9. CASE OnReadContinue(c) \/ OnReadReConnect(c)
    BY <1>0, <2>9 DEF OnReadContinue, OnReadReConnect, ConsumeMsg
  <2>10. CASE TlsStep(c)
    BY <1>0, <2>10 DEF TlsStep, TlsHandShake, OnReadReSub, OnReadPing, ConsumeMsg, InitAndSub
  <2> QED
    BY <2>1, <2>2, <2>3, <2>4, <2>5, <2>6, <2>7, <2>8, <2>9, <2>10 DEF SessionStep
<1> QED
  BY <1>1, <1>2 DEF OthersKeep

-----------------------------------------------------------------------------
(***************************************************************************)
(* The steps of the websocket session: none of them starts to reconnect    *)
(* after Stop, and all of them are steps of the abstract feed (WsFeed).    *)
(***************************************************************************)

\* A step of session c, as the application that owns it sees it.
Same(c) == FeedPhase(c)' = FeedPhase(c) /\ (pc'[c] = "onread" <=> pc[c] = "onread")
Moves(c, from, to) ==
  FeedPhase(c) \in from /\ FeedPhase(c)' \in to /\ pc[c] # "onread" /\ pc'[c] # "onread"

Joins(c)     == Moves(c, {"off"}, {"joining", "live"})
Subscribes(c) == Moves(c, {"joining"}, {"live"})
Loses(c) ==
  /\ FeedPhase(c) \in {"joining", "live"} /\ FeedPhase(c)' = "off"
  /\ pc'[c] = "onread" <=> pc[c] = "onread"
Delivers(c) ==
  /\ FeedPhase(c) = "live" /\ FeedPhase(c)' = "live" /\ ~stop[c]
  /\ pc[c] # "onread" /\ pc'[c] = "onread"
Finishes(c) ==
  /\ FeedPhase(c)' \in {FeedPhase(c), "off", "dead"}
  /\ pc[c] = "onread" /\ pc'[c] # "onread"
Ends(c)      == Moves(c, {"off"}, {"over"}) /\ stop[c]
Dies(c)      == Moves(c, {"off"}, {"dead"})

FeedStep(c) ==
  \/ Same(c) \/ Joins(c) \/ Subscribes(c) \/ Loses(c) \/ Delivers(c)
  \/ Finishes(c) \/ Ends(c) \/ Dies(c)

-----------------------------------------------------------------------------
\* Every step of a session but Stop's first is a step of the feed, and starts
\* no reconnection when the session is stopped.
LEMMA StepsFeed ==
  ASSUME IInv, NEW c \in Conns, SomeStep(c), ~StopCall(c)
  PROVE  FeedStep(c) /\ stop' = stop /\ NoNewReConnect(c)
<1> USE DEF stream, buffer, owner, Goto, SetWs
<1>0. /\ TypeOK /\ SessionOK(c)
      /\ pc[c] \in Labels /\ ret[c] \in {"start", "loop"} /\ ws[c] \in Statuses
      /\ Closed(ws[c]) \subseteq {"closed", "failed"}
      /\ Broken(ws[c]) \in {"closed", "failed"}
      /\ Closing(ws[c]) \in Statuses \ {"open"}
  BY DEF IInv, TypeOK, Labels, Statuses, Closed, Broken, Closing, Dead
<1>1. CASE Spawn(c)
  <2>1. stop' = stop /\ NoNewReConnect(c)
    BY <1>0, <1>1 DEF TypeOK, Spawn, NoNewReConnect, ReConnecting
  <2>2. FeedStep(c)
    BY <1>0, <1>1 DEF TypeOK, Spawn,
       SessionOK, StreamShut, Ready, Subscribed, Ending, Offline, Listening, Labels, Statuses,
       FeedPhase, FeedStep, Same, Moves, Joins, Subscribes, Loses, Delivers,
       Finishes, Ends, Dies
  <2> QED
    BY <2>1, <2>2
<1>2. CASE StartLoop(c)
  <2>1. stop' = stop /\ NoNewReConnect(c)
    BY <1>0, <1>2 DEF TypeOK, StartLoop, ReConnect, MustReConnect, NoNewReConnect, ReConnecting
  <2>2. FeedStep(c)
    BY <1>0, <1>2 DEF TypeOK, StartLoop, ReConnect, MustReConnect,
       SessionOK, StreamShut, Ready, Subscribed, Ending, Offline, Listening, Labels, Statuses,
       FeedPhase, FeedStep, Same, Moves, Joins, Subscribes, Loses, Delivers,
       Finishes, Ends, Dies
  <2> QED
    BY <2>1, <2>2
<1>3. CASE CloseBeforeReConnect(c)
  <2>1. stop' = stop /\ NoNewReConnect(c)
    BY <1>0, <1>3 DEF TypeOK, CloseBeforeReConnect, CloseDone, NoNewReConnect, ReConnecting
  <2>2. FeedStep(c)
    BY <1>0, <1>3 DEF TypeOK, CloseBeforeReConnect, CloseDone,
       SessionOK, StreamShut, Ready, Subscribed, Ending, Offline, Listening, Labels, Statuses,
       FeedPhase, FeedStep, Same, Moves, Joins, Subscribes, Loses, Delivers,
       Finishes, Ends, Dies
  <2> QED
    BY <2>1, <2>2
<1>4. CASE CloseOnCtrl(c)
  <2>1. stop' = stop /\ NoNewReConnect(c)
    BY <1>0, <1>4 DEF TypeOK, CloseOnCtrl, CloseDone, NoNewReConnect, ReConnecting
  <2>2. FeedStep(c)
    BY <1>0, <1>4 DEF TypeOK, CloseOnCtrl, CloseDone,
       SessionOK, StreamShut, Ready, Subscribed, Ending, Offline, Listening, Labels, Statuses,
       FeedPhase, FeedStep, Same, Moves, Joins, Subscribes, Loses, Delivers,
       Finishes, Ends, Dies
  <2> QED
    BY <2>1, <2>2
<1>5. CASE CloseAtEnd(c)
  <2>1. stop' = stop /\ NoNewReConnect(c)
    BY <1>0, <1>5 DEF TypeOK, CloseAtEnd, CloseDone, NoNewReConnect, ReConnecting
  <2>2. FeedStep(c)
    BY <1>0, <1>5 DEF TypeOK, CloseAtEnd, CloseDone,
       SessionOK, StreamShut, Ready, Subscribed, Ending, Offline, Listening, Labels, Statuses,
       FeedPhase, FeedStep, Same, Moves, Joins, Subscribes, Loses, Delivers,
       Finishes, Ends, Dies
  <2> QED
    BY <2>1, <2>2
<1>6. CASE NewStream(c)
  <2>1. stop' = stop /\ NoNewReConnect(c)
    BY <1>0, <1>6 DEF TypeOK, NewStream, NoNewReConnect, ReConnecting
  <2>2. FeedStep(c)
    BY <1>0, <1>6 DEF TypeOK, NewStream,
       SessionOK, StreamShut, Ready, Subscribed, Ending, Offline, Listening, Labels, Statuses,
       FeedPhase, FeedStep, Same, Moves, Joins, Subscribes, Loses, Delivers,
       Finishes, Ends, Dies
  <2> QED
    BY <2>1, <2>2
<1>7. CASE Connect(c)
  <2>1. stop' = stop /\ NoNewReConnect(c)
    BY <1>0, <1>7 DEF TypeOK, Connect, NoNewReConnect, ReConnecting
  <2>2. FeedStep(c)
    BY <1>0, <1>7 DEF TypeOK, Connect,
       SessionOK, StreamShut, Ready, Subscribed, Ending, Offline, Listening, Labels, Statuses,
       FeedPhase, FeedStep, Same, Moves, Joins, Subscribes, Loses, Delivers,
       Finishes, Ends, Dies
  <2> QED
    BY <2>1, <2>2
<1>8. CASE HandShakeOk(c)
  <2>1. stop' = stop /\ NoNewReConnect(c)
    BY <1>0, <1>8 DEF TypeOK, HandShakeOk, InitAndSub, NoNewReConnect, ReConnecting
  <2>2. FeedStep(c)
    BY <1>0, <1>8 DEF TypeOK, HandShakeOk, InitAndSub,
       SessionOK, StreamShut, Ready, Subscribed, Ending, Offline, Listening, Labels, Statuses,
       FeedPhase, FeedStep, Same, Moves, Joins, Subscribes, Loses, Delivers,
       Finishes, Ends, Dies
  <2> QED
    BY <2>1, <2>2
<1>9. CASE HandShakeTruncated(c)
  <2>1. stop' = stop /\ NoNewReConnect(c)
    BY <1>0, <1>9 DEF TypeOK, HandShakeTruncated, InitAndSub, NoNewReConnect, ReConnecting
  <2>2. FeedStep(c)
    BY <1>0, <1>9 DEF TypeOK, HandShakeTruncated, InitAndSub,
       SessionOK, StreamShut, Ready, Subscribed, Ending, Offline, Listening, Labels, Statuses,
       FeedPhase, FeedStep, Same, Moves, Joins, Subscribes, Loses, Delivers,
       Finishes, Ends, Dies
  <2> QED
    BY <2>1, <2>2
<1>10. CASE HandShakeFails(c)
  <2>1. stop' = stop /\ NoNewReConnect(c)
    BY <1>0, <1>10 DEF TypeOK, HandShakeFails, NoNewReConnect, ReConnecting
  <2>2. FeedStep(c)
    BY <1>0, <1>10 DEF TypeOK, HandShakeFails,
       SessionOK, StreamShut, Ready, Subscribed, Ending, Offline, Listening, Labels, Statuses,
       FeedPhase, FeedStep, Same, Moves, Joins, Subscribes, Loses, Delivers,
       Finishes, Ends, Dies
  <2> QED
    BY <2>1, <2>2
<1>11. CASE WriteSub(c)
  <2>1. stop' = stop /\ NoNewReConnect(c)
    BY <1>0, <1>11 DEF TypeOK, WriteSub, NoNewReConnect, ReConnecting
  <2>2. pc[c] = "sub" /\ pc'[c] \in {"sub", "start", "loop"}
    BY <1>0, <1>11 DEF TypeOK, WriteSub
  <2>3. ASSUME ws'[c] # "open" PROVE FeedStep(c)
    <3>1. FeedPhase(c)' = "off"
      BY <2>2, <2>3 DEF FeedPhase
    <3>2. CASE ws[c] = "open"
      <4>1. FeedPhase(c) \in {"joining", "live"}
        BY <2>2, <3>2 DEF FeedPhase
      <4> QED
        BY <2>2, <3>1, <4>1 DEF FeedStep, Loses
    <3>3. CASE ws[c] # "open"
      <4>1. FeedPhase(c) = "off"
        BY <2>2, <3>3 DEF FeedPhase
      <4> QED
        BY <2>2, <3>1, <4>1 DEF FeedStep, Same
    <3> QED
      BY <3>2, <3>3
  <2>4. ASSUME ws'[c] = "open" PROVE FeedStep(c)
    <3>1. ws[c] = "open" /\ inited' = inited /\ sent'[c] = sent[c] \cup {next[c]}
      BY <1>0, <1>11, <2>4 DEF TypeOK, WriteSub
    <3>2. next[c] \in Subs /\ sent[c] \subseteq Subs
      BY <1>0, <1>11 DEF TypeOK, WriteSub, SessionOK, Subscribing
    <3>3. Subscribed(c) => Subscribed(c)'
      BY <3>1, <3>2 DEF Subscribed, Subs
    <3>4. /\ FeedPhase(c) = IF Subscribed(c) THEN "live" ELSE "joining"
          /\ FeedPhase(c)' = IF Subscribed(c)' THEN "live" ELSE "joining"
      BY <2>2, <2>4, <3>1 DEF FeedPhase
    <3> QED
      BY <2>2, <3>3, <3>4 DEF FeedStep, Same, Moves, Subscribes
  <2> QED
    BY <2>1, <2>3, <2>4
<1>12. CASE ReadLoop(c)
  <2>1. stop' = stop /\ NoNewReConnect(c)
    BY <1>0, <1>12 DEF TypeOK, ReadLoop, FinalClose, NoNewReConnect, ReConnecting
  <2>2. FeedStep(c)
    BY <1>0, <1>12 DEF TypeOK, ReadLoop, FinalClose,
       SessionOK, StreamShut, Ready, Subscribed, Ending, Offline, Listening, Labels, Statuses,
       FeedPhase, FeedStep, Same, Moves, Joins, Subscribes, Loses, Delivers,
       Finishes, Ends, Dies
  <2> QED
    BY <2>1, <2>2
<1>13. CASE ReadBreak(c)
  <2>1. stop' = stop /\ NoNewReConnect(c)
    BY <1>0, <1>13 DEF TypeOK, ReadBreak, FinalClose, BreakOnStop, NoNewReConnect, ReConnecting
  <2>2. FeedStep(c)
    BY <1>0, <1>13 DEF TypeOK, ReadBreak, FinalClose, BreakOnStop,
       SessionOK, StreamShut, Ready, Subscribed, Ending, Offline, Listening, Labels, Statuses,
       FeedPhase, FeedStep, Same, Moves, Joins, Subscribes, Loses, Delivers,
       Finishes, Ends, Dies
  <2> QED
    BY <2>1, <2>2
<1>14. CASE ReadMsg(c)
  <2>1. stop' = stop /\ NoNewReConnect(c)
    BY <1>0, <1>14 DEF TypeOK, ReadMsg, BreakOnStop, NoNewReConnect, ReConnecting
  <2>2. FeedStep(c)
    BY <1>0, <1>14 DEF TypeOK, ReadMsg, BreakOnStop,
       SessionOK, StreamShut, Ready, Subscribed, Ending, Offline, Listening, Labels, Statuses,
       FeedPhase, FeedStep, Same, Moves, Joins, Subscribes, Loses, Delivers,
       Finishes, Ends, Dies
  <2> QED
    BY <2>1, <2>2
<1>15. CASE ReadTimeout(c)
  <2>1. stop' = stop /\ NoNewReConnect(c)
    BY <1>0, <1>15 DEF TypeOK, ReadTimeout, ReConnect, BreakOnStop, NoNewReConnect, ReConnecting
  <2>2. FeedStep(c)
    BY <1>0, <1>15 DEF TypeOK, ReadTimeout, ReConnect, BreakOnStop,
       SessionOK, StreamShut, Ready, Subscribed, Ending, Offline, Listening, Labels, Statuses,
       FeedPhase, FeedStep, Same, Moves, Joins, Subscribes, Loses, Delivers,
       Finishes, Ends, Dies
  <2> QED
    BY <2>1, <2>2
<1>16. CASE ReadAborted(c)
  <2>1. stop' = stop /\ NoNewReConnect(c)
    BY <1>0, <1>16 DEF TypeOK, ReadAborted, ReConnect, BreakOnStop, Dead, NoNewReConnect, ReConnecting
  <2>2. FeedStep(c)
    BY <1>0, <1>16 DEF TypeOK, ReadAborted, ReConnect, BreakOnStop, Dead,
       SessionOK, StreamShut, Ready, Subscribed, Ending, Offline, Listening, Labels, Statuses,
       FeedPhase, FeedStep, Same, Moves, Joins, Subscribes, Loses, Delivers,
       Finishes, Ends, Dies
  <2> QED
    BY <2>1, <2>2
<1>17. CASE ReadError(c)
  <2>1. stop' = stop /\ NoNewReConnect(c)
    BY <1>0, <1>17 DEF TypeOK, ReadError, NoNewReConnect, ReConnecting
  <2>2. FeedStep(c)
    BY <1>0, <1>17 DEF TypeOK, ReadError,
       SessionOK, StreamShut, Ready, Subscribed, Ending, Offline, Listening, Labels, Statuses,
       FeedPhase, FeedStep, Same, Moves, Joins, Subscribes, Loses, Delivers,
       Finishes, Ends, Dies
  <2> QED
    BY <2>1, <2>2
<1>18. CASE OnReadContinue(c)
  <2>1. stop' = stop /\ NoNewReConnect(c)
    BY <1>0, <1>18 DEF TypeOK, OnReadContinue, AfterOnRead, NoNewReConnect, ReConnecting
  <2>2. FeedStep(c)
    BY <1>0, <1>18 DEF TypeOK, OnReadContinue, AfterOnRead,
       SessionOK, StreamShut, Ready, Subscribed, Ending, Offline, Listening, Labels, Statuses,
       FeedPhase, FeedStep, Same, Moves, Joins, Subscribes, Loses, Delivers,
       Finishes, Ends, Dies
  <2> QED
    BY <2>1, <2>2
<1>19. CASE OnReadReConnect(c)
  <2>1. stop' = stop /\ NoNewReConnect(c)
    BY <1>0, <1>19 DEF TypeOK, OnReadReConnect, AfterOnRead, NoNewReConnect, ReConnecting
  <2>2. ws'[c] # "open"
    BY <1>0, <1>19 DEF TypeOK, OnReadReConnect, AfterOnRead, Closing, Dead
  <2>3. pc[c] = "onread" /\ pc'[c] = "closeCtrl"
    BY <1>0, <1>19 DEF TypeOK, OnReadReConnect
  <2>4. FeedStep(c)
    BY <2>2, <2>3 DEF FeedPhase, FeedStep, Finishes
  <2> QED
    BY <2>1, <2>4
<1>20. CASE TlsHandShake(c)
  <2>1. stop' = stop /\ NoNewReConnect(c)
    BY <1>0, <1>20 DEF TypeOK, TlsHandShake, NoNewReConnect, ReConnecting
  <2>2. FeedStep(c)
    BY <1>0, <1>20 DEF TypeOK, TlsHandShake,
       SessionOK, StreamShut, Ready, Subscribed, Ending, Offline, Listening, Labels, Statuses,
       FeedPhase, FeedStep, Same, Moves, Joins, Subscribes, Loses, Delivers,
       Finishes, Ends, Dies
  <2> QED
    BY <2>1, <2>2
<1>21. CASE OnReadReSub(c)
  <2>1. stop' = stop /\ NoNewReConnect(c)
    BY <1>0, <1>21 DEF TypeOK, OnReadReSub, AfterOnRead, InitAndSub, NoNewReConnect, ReConnecting
  <2>2. FeedStep(c)
    BY <1>0, <1>21 DEF TypeOK, OnReadReSub, AfterOnRead, InitAndSub,
       SessionOK, StreamShut, Ready, Subscribed, Ending, Offline, Listening, Labels, Statuses,
       FeedPhase, FeedStep, Same, Moves, Joins, Subscribes, Loses, Delivers,
       Finishes, Ends, Dies
  <2> QED
    BY <2>1, <2>2
<1>22. CASE OnReadPing(c)
  <2>1. stop' = stop /\ NoNewReConnect(c)
    BY <1>0, <1>22 DEF TypeOK, OnReadPing, NoNewReConnect, ReConnecting
  <2>2. FeedStep(c)
    BY <1>0, <1>22 DEF TypeOK, OnReadPing,
       SessionOK, StreamShut, Ready, Subscribed, Ending, Offline, Listening, Labels, Statuses,
       FeedPhase, FeedStep, Same, Moves, Joins, Subscribes, Loses, Delivers,
       Finishes, Ends, Dies
  <2> QED
    BY <2>1, <2>2
<1>23. CASE StopClose(c)
  <2>1. stop' = stop /\ NoNewReConnect(c)
    BY <1>0, <1>23 DEF TypeOK, StopClose, NoNewReConnect, ReConnecting
  <2>2. FeedStep(c)
    BY <1>0, <1>23 DEF TypeOK, StopClose,
       SessionOK, StreamShut, Ready, Subscribed, Ending, Offline, Listening, Labels, Statuses,
       FeedPhase, FeedStep, Same, Moves, Joins, Subscribes, Loses, Delivers,
       Finishes, Ends, Dies
  <2> QED
    BY <2>1, <2>2
<1> QED
  BY <1>1, <1>2, <1>3, <1>4, <1>5, <1>6, <1>7, <1>8, <1>9, <1>10, <1>11, <1>12, <1>13, <1>14, <1>15, <1>16, <1>17, <1>18, <1>19, <1>20, <1>21, <1>22, <1>23
     DEF SomeStep, SessionStep, TlsStep

-----------------------------------------------------------------------------
\* A session that is stopped does not start to reconnect: each of the three
\* ways into the back-off tests stop_ in the same step.
THEOREM StoppedStaysAway == Spec => NoReConnectAfterStop
<1>1. ASSUME IInv, Next PROVE NoNewReConnects
  <2>1. PICK d \in Conns : SomeStep(d)
    BY <1>1 DEF Next, SomeStep
  <2>2. OthersKeep(d)
    BY <1>1, <2>1, Locality
  <2>3. NoNewReConnect(d)
    <3>1. CASE StopCall(d)
      BY <3>1 DEF StopCall, NoNewReConnect
    <3> QED
      BY <1>1, <2>1, <3>1, StepsFeed
  <2> QED
    BY <2>2, <2>3 DEF OthersKeep, NoNewReConnect, NoNewReConnects
<1>2. IInv /\ [Next]_vars => [NoNewReConnects]_vars
  BY <1>1
<1> QED
  BY <1>2, Invariance, PTL DEF Spec, NoReConnectAfterStop

-----------------------------------------------------------------------------
(* A stopped session runs out of steps.                                     *)

\* The stations of a session, as numbers.
LEMMA DistanceFacts ==
  /\ Distance["done"] = 0 /\ Distance["threw"] = 0 /\ Distance["closeEnd"] = 1
  /\ Distance["loop"] = 2 /\ Distance["read"] = 2 /\ Distance["start"] = 3
  /\ Distance["closeCtrl"] = 4 /\ Distance["sub"] = 4 /\ Distance["handshake"] = 5
  /\ Distance["onread"] = 5 /\ Distance["tls"] = 6 /\ Distance["connect"] = 7
  /\ Distance["rate"] = 8 /\ Distance["closeRe"] = 9 /\ Distance["idle"] = 10
BY DEF Distance

LEMMA StepsLeftType ==
  ASSUME IInv, NEW c \in Conns
  PROVE  StepsLeft(c) \in 0..(NSubs + 10)
<1>1. pc[c] \in Labels /\ NSubs \in Nat
  BY WsConnAssumption DEF IInv, TypeOK
<1>2. pc[c] = "sub" => next[c] \in 1..NSubs
  BY DEF IInv, SessionOK, Subscribing, Subs
<1> QED
  BY <1>1, <1>2, DistanceFacts DEF StepsLeft, StillToWrite, Labels

\* Where a stopped session goes from where it is.
Near == {"done", "threw", "closeEnd", "loop", "read", "start", "closeCtrl"}

Homeward(c) ==
  \/ /\ pc[c] \in Near \ {"done", "threw"} /\ pc'[c] \in Near
     /\ Distance[pc'[c]] < Distance[pc[c]]
  \/ /\ pc[c] \in {"closeRe", "rate", "connect", "tls"}
     /\ \/ pc'[c] \in {"rate", "connect", "tls", "handshake"}
           /\ Distance[pc'[c]] < Distance[pc[c]]
        \/ pc'[c] \in {"threw", "start", "loop"}
  \/ /\ pc[c] \in {"handshake", "onread"}
     /\ \/ pc'[c] = "sub" /\ next'[c] = 1
        \/ pc'[c] \in {"threw", "start", "loop", "closeCtrl"}
  \/ /\ pc[c] = "sub"
     /\ \/ pc'[c] = "sub" /\ next'[c] = next[c] + 1
        \/ pc'[c] \in {"start", "loop"}

LEMMA StoppedGoesHome ==
  ASSUME IInv, NEW c \in Conns, stop[c], SessionStep(c) \/ TlsStep(c)
  PROVE  Homeward(c)
<1> USE DistanceFacts DEF IInv, TypeOK, Homeward, Near, Goto
<1>0. ret[c] \in {"start", "loop"}
  OBVIOUS
<1>1. CASE StartLoop(c)
  BY <1>1 DEF StartLoop, MustReConnect
<1>2. CASE CloseBeforeReConnect(c)
  BY <1>2 DEF CloseBeforeReConnect, CloseDone
<1>3. CASE CloseOnCtrl(c) \/ CloseAtEnd(c)
  BY <1>3 DEF CloseOnCtrl, CloseAtEnd, CloseDone
<1>4. CASE NewStream(c)
  BY <1>4 DEF NewStream
<1>5. CASE Connect(c)
  BY <1>0, <1>5 DEF Connect
<1>6. CASE HandShakeOk(c) \/ HandShakeTruncated(c)
  BY <1>0, <1>6 DEF HandShakeOk, HandShakeTruncated, InitAndSub
<1>7. CASE HandShakeFails(c)
  BY <1>0, <1>7 DEF HandShakeFails
<1>8. CASE WriteSub(c)
  BY <1>0, <1>8 DEF WriteSub
<1>9. CASE ReadLoop(c)
  BY <1>9 DEF ReadLoop, FinalClose
<1>10. CASE ReadBreak(c)
  BY <1>10 DEF ReadBreak, FinalClose
<1>11. CASE ReadMsg(c) \/ ReadTimeout(c) \/ ReadAborted(c)
  BY <1>11 DEF ReadMsg, ReadTimeout, ReadAborted, BreakOnStop
<1>12. CASE ReadError(c)
  BY <1>12 DEF ReadError, BreakOnStop
<1>13. CASE OnReadContinue(c) \/ OnReadReConnect(c)
  BY <1>13 DEF OnReadContinue, OnReadReConnect
<1>14. CASE TlsHandShake(c)
  BY <1>0, <1>14 DEF TlsHandShake
<1>15. CASE OnReadReSub(c)
  BY <1>15 DEF OnReadReSub, InitAndSub
<1>16. CASE OnReadPing(c)
  BY <1>16 DEF OnReadPing
<1> QED
  BY <1>1, <1>2, <1>3, <1>4, <1>5, <1>6, <1>7, <1>8, <1>9, <1>10, <1>11, <1>12, <1>13,
     <1>14, <1>15, <1>16 DEF SessionStep, TlsStep

LEMMA HomewardShortens ==
  ASSUME IInv, NEW c \in Conns, Homeward(c), pc'[c] = "sub" => next'[c] \in 1..NSubs
  PROVE  StepsLeft(c)' < StepsLeft(c)
<1>1. NSubs \in Nat /\ (pc[c] = "sub" => next[c] \in 1..NSubs)
  BY WsConnAssumption DEF IInv, SessionOK, Subscribing, Subs
<1> USE DistanceFacts DEF StepsLeft, StillToWrite
<1>2. CASE pc[c] \in Near \ {"done", "threw"}
  BY <1>1, <1>2 DEF Homeward, Near
<1>3. CASE pc[c] \in {"closeRe", "rate", "connect", "tls"}
  BY <1>1, <1>3 DEF Homeward, Near
<1>4. CASE pc[c] \in {"handshake", "onread"}
  BY <1>1, <1>4 DEF Homeward, Near
<1>5. CASE pc[c] = "sub"
  BY <1>1, <1>5 DEF Homeward, Near
<1> QED
  BY <1>2, <1>3, <1>4, <1>5 DEF Homeward, Near

\* Theorem: every step of a stopped session brings it nearer to its end,
\* whatever the network, the peer, OnRead and Stop do.
RunOut == \A c \in Conns : RunsOut(c)

THEOREM StoppedRunsOut == Spec => StopRunsOut
<1>1. ASSUME IInv, IInv', Next PROVE RunOut
  <2> SUFFICES ASSUME NEW c \in Conns, stop[c] PROVE RunsOut(c)
    BY DEF RunOut, RunsOut
  <2>1. PICK d \in Conns : SomeStep(d)
    BY <1>1 DEF Next, SomeStep
  <2>2. StepsLeft(c) \in Nat /\ StepsLeft(c)' \in Nat
    <3>1. StepsLeft(c) \in Nat
      BY <1>1, StepsLeftType
    <3>2. pc'[c] \in Labels /\ (pc'[c] = "sub" => next'[c] \in 1..NSubs)
      BY <1>1 DEF IInv, TypeOK, SessionOK, Subscribing, Subs
    <3>3. StepsLeft(c)' \in Nat
      BY <3>2, WsConnAssumption, DistanceFacts DEF StepsLeft, StillToWrite, Labels
    <3> QED
      BY <3>1, <3>3
  <2>3. ASSUME SessionStep(c) \/ TlsStep(c) PROVE StepsLeft(c)' < StepsLeft(c)
    <3>1. Homeward(c)
      BY <1>1, <2>3, StoppedGoesHome
    <3>2. pc'[c] = "sub" => next'[c] \in 1..NSubs
      BY <1>1 DEF IInv, SessionOK, Subscribing, Subs
    <3> QED
      BY <1>1, <3>1, <3>2, HomewardShortens
  <2>4. ASSUME pc'[c] = pc[c], next'[c] = next[c] PROVE StepsLeft(c)' = StepsLeft(c)
    BY <2>4 DEF StepsLeft, StillToWrite
  <2>5. CASE d # c
    BY <1>1, <2>1, <2>2, <2>3, <2>4, <2>5, Locality DEF OthersKeep, RunsOut
  <2>6. CASE d = c /\ (StopCall(c) \/ StopClose(c))
    <3>1. pc' = pc /\ next' = next
      BY <2>6 DEF StopCall, StopClose
    <3> QED
      BY <2>2, <2>3, <2>4, <3>1 DEF RunsOut
  <2>7. CASE d = c /\ Spawn(c)
    <3>1. pc[c] = "idle" /\ pc'[c] = "start"
      BY <1>1, <2>7 DEF Spawn, Goto, IInv, TypeOK
    <3>2. StepsLeft(c)' < StepsLeft(c)
      BY <3>1, WsConnAssumption, DistanceFacts DEF StepsLeft, StillToWrite
    <3> QED
      BY <2>2, <3>2 DEF RunsOut
  <2>8. CASE SessionStep(c) \/ TlsStep(c)
    BY <2>2, <2>3, <2>8 DEF RunsOut
  <2> QED
    BY <2>1, <2>5, <2>6, <2>7, <2>8 DEF SomeStep
<1>2. IInv /\ IInv' /\ [Next]_vars => [RunOut]_vars
  BY <1>1
<1> QED
  BY <1>2, Invariance, PTL DEF Spec, StopRunsOut, RunOut

\* Theorem: and it has NSubs + 9 of them at most, besides the one that takes it up.
StepsBounded ==
  \A c \in Conns : StepsLeft(c) \in 0..(IF pc[c] = "idle" THEN NSubs + 10 ELSE NSubs + 9)

THEOREM BoundedRun == Spec => []StepsBounded
<1>1. IInv => StepsBounded
  <2> SUFFICES ASSUME IInv, NEW c \in Conns, pc[c] # "idle"
               PROVE  StepsLeft(c) \in 0..(NSubs + 9)
    BY StepsLeftType DEF StepsBounded
  <2>1. StepsLeft(c) \in 0..(NSubs + 10) /\ pc[c] \in Labels
    BY StepsLeftType DEF IInv, TypeOK
  <2>2. pc[c] = "sub" => next[c] \in 1..NSubs
    BY DEF IInv, SessionOK, Subscribing, Subs
  <2>3. StepsLeft(c) <= NSubs + 9
    BY <2>1, <2>2, WsConnAssumption, DistanceFacts DEF StepsLeft, StillToWrite, Labels
  <2> QED
    BY <2>1, <2>3, WsConnAssumption
<1> QED
  BY <1>1, Invariance, PTL

-----------------------------------------------------------------------------
(* The refinement.                                                          *)

\* The variables of the feed, and how a step of session c changes them.
PhaseOf == [d \in Conns |-> FeedPhase(d)]
BusyOf  == [d \in Conns |-> pc[d] = "onread"]

LEMMA FeedVariables ==
  ASSUME NEW c \in Conns, OthersKeep(c)
  PROVE  /\ PhaseOf' = [PhaseOf EXCEPT ![c] = FeedPhase(c)']
         /\ BusyOf' = [BusyOf EXCEPT ![c] = (pc'[c] = "onread")]
<1>1. \A d \in Conns \ {c} : FeedPhase(d)' = FeedPhase(d)
  BY DEF OthersKeep, FeedPhase, Subscribed
<1>2. \A d \in Conns \ {c} : (pc'[d] = "onread") = (pc[d] = "onread")
  BY DEF OthersKeep
<1> QED
  BY <1>1, <1>2 DEF PhaseOf, BusyOf

\* A step of the session is one of the feed, or leaves it unchanged.
LEMMA FeedSimulates ==
  ASSUME NEW c \in Conns, OthersKeep(c), FeedStep(c), stop' = stop
  PROVE  Feed!Next \/ UNCHANGED Feed!feedVars
<1> DEFINE p == FeedPhase(c)'
           b == (pc'[c] = "onread")
<1>1. /\ PhaseOf' = [PhaseOf EXCEPT ![c] = p]
      /\ BusyOf' = [BusyOf EXCEPT ![c] = b]
      /\ PhaseOf[c] = FeedPhase(c)
      /\ BusyOf[c] = (pc[c] = "onread")
      /\ stop' = stop
  BY FeedVariables DEF PhaseOf, BusyOf
<1>2. CASE Same(c)
  <2>1. PhaseOf' = PhaseOf /\ BusyOf' = BusyOf
    BY <1>1, <1>2 DEF Same, PhaseOf, BusyOf
  <2> QED
    BY <1>1, <2>1 DEF Feed!feedVars, PhaseOf, BusyOf
<1>3. CASE Joins(c)
  <2>1. Feed!Join(c)
    BY <1>1, <1>3 DEF Joins, Moves, Feed!Join, Feed!Become, PhaseOf, BusyOf
  <2> QED
    BY <2>1 DEF Feed!Next
<1>4. CASE Subscribes(c)
  <2>1. Feed!Subscribe(c)
    BY <1>1, <1>4 DEF Subscribes, Moves, Feed!Subscribe, Feed!Become, PhaseOf, BusyOf
  <2> QED
    BY <2>1 DEF Feed!Next
<1>5. CASE Loses(c)
  <2>1. Feed!Lose(c)
    BY <1>1, <1>5 DEF Loses, Feed!Lose, Feed!Become, PhaseOf, BusyOf
  <2> QED
    BY <2>1 DEF Feed!Next
<1>6. CASE Delivers(c)
  <2>1. FeedPhase(c) = "live" /\ p = "live" /\ ~stop[c] /\ BusyOf[c] = FALSE
    BY <1>1, <1>6 DEF Delivers
  <2>2. b = TRUE
    BY <1>6 DEF Delivers
  <2>3. PhaseOf' = PhaseOf
    BY <1>1, <2>1 DEF PhaseOf
  <2>4. BusyOf' = [BusyOf EXCEPT ![c] = TRUE]
    BY <1>1, <2>2
  <2>5. Feed!Deliver(c)
    BY <1>1, <2>1, <2>3, <2>4 DEF Feed!Deliver, PhaseOf, BusyOf
  <2> QED
    BY <2>5 DEF Feed!Next
<1>7. CASE Finishes(c)
  <2>1. Feed!Finish(c)
    BY <1>1, <1>7 DEF Finishes, Feed!Finish, Feed!Become, PhaseOf, BusyOf
  <2> QED
    BY <2>1 DEF Feed!Next
<1>8. CASE Ends(c)
  <2>1. Feed!End(c)
    BY <1>1, <1>8 DEF Ends, Moves, Feed!End, Feed!Become, PhaseOf, BusyOf
  <2> QED
    BY <2>1 DEF Feed!Next
<1>9. CASE Dies(c)
  <2>1. Feed!Die(c)
    BY <1>1, <1>9 DEF Dies, Moves, Feed!Die, Feed!Become, PhaseOf, BusyOf
  <2> QED
    BY <2>1 DEF Feed!Next
<1> QED
  BY <1>2, <1>3, <1>4, <1>5, <1>6, <1>7, <1>8, <1>9 DEF FeedStep

\* The first step of Stop halts the feed.
LEMMA StopHalts ==
  ASSUME TypeOK, NEW c \in Conns, StopCall(c)
  PROVE  Feed!Next \/ UNCHANGED Feed!feedVars
<1>1. /\ UNCHANGED <<pc, ws, inited, sent>>
      /\ stop' = [stop EXCEPT ![c] = TRUE]
  BY DEF StopCall, stream
<1>2. PhaseOf' = PhaseOf /\ BusyOf' = BusyOf
  BY <1>1 DEF PhaseOf, BusyOf, FeedPhase, Subscribed
<1>3. CASE stop[c]
  <2>1. stop' = stop
    BY <1>1, <1>3 DEF TypeOK
  <2> QED
    BY <1>2, <2>1 DEF Feed!feedVars, PhaseOf, BusyOf
<1>4. CASE ~stop[c]
  <2>1. Feed!Halt(c)
    BY <1>1, <1>2, <1>4 DEF Feed!Halt, PhaseOf, BusyOf
  <2> QED
    BY <2>1 DEF Feed!Next
<1> QED
  BY <1>3, <1>4

\* Every behaviour of the sessions is one of the abstract feed: messages only
\* from a subscribed stream, one at a time, none begun after Stop, and an end
\* only after Stop or by an exception.
THEOREM Refinement == Spec => ImplementsFeed
<1>1. Init => Feed!Init
  <2> SUFFICES ASSUME Init PROVE Feed!Init
    OBVIOUS
  <2>1. \A c \in Conns : FeedPhase(c) = "off" /\ pc[c] # "onread"
    BY DEF Init, FeedPhase
  <2>2. stop = [c \in Conns |-> FALSE]
    BY DEF Init
  <2> QED
    BY <2>1, <2>2 DEF Feed!Init
<1>2. ASSUME IInv, Next PROVE Feed!Next \/ UNCHANGED Feed!feedVars
  <2>1. PICK c \in Conns : SomeStep(c)
    BY <1>2 DEF Next, SomeStep
  <2>2. OthersKeep(c)
    BY <1>2, <2>1, Locality
  <2>3. CASE StopCall(c)
    BY <1>2, <2>3, StopHalts DEF IInv
  <2>4. CASE ~StopCall(c)
    BY <1>2, <2>1, <2>2, <2>4, StepsFeed, FeedSimulates
  <2> QED
    BY <2>3, <2>4
<1>3. ASSUME UNCHANGED vars PROVE UNCHANGED Feed!feedVars
  BY <1>3 DEF vars, Feed!feedVars, FeedPhase, Subscribed
<1>4. IInv /\ [Next]_vars => [Feed!Next]_Feed!feedVars
  BY <1>2, <1>3
<1> QED
  BY <1>1, <1>4, Invariance, PTL DEF Spec, ImplementsFeed, Feed!Spec
=============================================================================
