------------------------------- MODULE Relay -------------------------------
(***************************************************************************)
(* The relay connections of kn/net/src/ws/relay_conn.h and                 *)
(* kn/net/src/kafka/relay_conn.h: sessions whose OnRead hands what it      *)
(* reads to the same UDP receivers (udp::Conn) and Kafka producers         *)
(* (kafka::Producer), with the Send functions of UdpReceivers.             *)
(*                                                                         *)
(* Of a session only its promise is used, module WsFeed.  Sending does not *)
(* suspend the coroutine, so a session in OnRead holds its thread of the   *)
(* io_context, and sessions interleave only when there are several         *)
(* threads.  What the virtual OnRead does is up to the application: it     *)
(* calls Send as often as it likes, which is also what the Send of a       *)
(* vector of messages does.  The error code the UDP receivers overwrite in *)
(* turn is only logged by the session, and is left out.                    *)
(***************************************************************************)
EXTENDS Naturals, Sequences, FiniteSets

CONSTANTS
  Relays,      \* the sessions
  Udps,        \* number of receivers_
  Producers,   \* number of kafka_receivers_
  Flushing,    \* positions of the producers with flush_flag_
  QueueLimit,  \* messages the queue of a producer holds
  Threads,     \* threads that run the io_context
  MaxMsg       \* bound: messages a session sends

\* The receivers in the order of the two loops of Send.
Last == Udps + Producers
Receivers == 1..Last
Kafkas == (Udps + 1)..Last

ASSUME RelayAssumption ==
  /\ Udps \in Nat /\ Producers \in Nat
  /\ Flushing \subseteq Kafkas
  /\ QueueLimit \in Nat /\ Threads \in Nat /\ MaxMsg \in Nat

VARIABLES
  phase, busy, halted,  \* the sessions, see WsFeed
  msg,     \* number of the message a session sends, or has sent last
  pos,     \* the receiver it is sent to; past the last one between the calls
  flush,   \* is the session in producer_->flush()?
  sent,    \* what a receiver has taken, in order
  missed,  \* what it has refused
  queued   \* messages in its queue, of a producer

feedVars  == <<phase, busy, halted>>
relayVars == <<msg, pos, flush, sent, missed, queued>>
vars == <<phase, busy, halted, msg, pos, flush, sent, missed, queued>>

Feed == INSTANCE WsFeed WITH Conns <- Relays

Msgs == Relays \X (1..MaxMsg)

TypeOK ==
  /\ Feed!FeedTypeOK
  /\ msg \in [Relays -> 0..MaxMsg]
  /\ pos \in [Relays -> 1..(Last + 1)]
  /\ flush \in [Relays -> BOOLEAN]
  /\ sent \in [Receivers -> Seq(Msgs)]
  /\ missed \in [Receivers -> SUBSET Msgs]
  /\ queued \in [Receivers -> 0..QueueLimit]

Init ==
  /\ Feed!Init
  /\ msg = [r \in Relays |-> 0]
  /\ pos = [r \in Relays |-> Last + 1]
  /\ flush = [r \in Relays |-> FALSE]
  /\ sent = [x \in Receivers |-> <<>>]
  /\ missed = [x \in Receivers |-> {}]
  /\ queued = [x \in Receivers |-> 0]

-----------------------------------------------------------------------------
(* OnRead.                                                                  *)

InSend(r) == pos[r] <= Last

\* A thread takes up the session whose read has ended.
ThreadAlwaysFree == TRUE
ThreadFree == Cardinality({r \in Relays : busy[r]}) < Threads

OnRead(r) ==
  /\ ThreadFree
  /\ Feed!Deliver(r)
  /\ UNCHANGED relayVars

OnReadReturns(r) ==
  /\ ~InSend(r)
  /\ Feed!Finish(r)
  /\ UNCHANGED relayVars

First == 1

Send(r) ==
  /\ busy[r] /\ ~InSend(r) /\ msg[r] < MaxMsg
  /\ msg' = [msg EXCEPT ![r] = @ + 1]
  /\ pos' = [pos EXCEPT ![r] = First]
  /\ UNCHANGED <<feedVars, flush, sent, missed, queued>>

-----------------------------------------------------------------------------
(* The loops of UdpReceivers::Send.                                         *)

Message(r) == <<r, msg[r]>>

Take(r, x)   == sent' = [sent EXCEPT ![x] = Append(@, Message(r))] /\ UNCHANGED missed
Refuse(r, x) == missed' = [missed EXCEPT ![x] = @ \cup {Message(r)}] /\ UNCHANGED sent

SameReceiver(r) == UNCHANGED pos
NextReceiver(r) == pos' = [pos EXCEPT ![r] = @ + 1]

\* udp::Conn::Send: a failed send_to is logged.
SendUdpOrEnd(r) ==
  /\ InSend(r) /\ pos[r] <= Udps
  /\ \/ Take(r, pos[r]) /\ NextReceiver(r)
     \/ Refuse(r, pos[r]) /\ pos' = [pos EXCEPT ![r] = Last + 1]
  /\ UNCHANGED <<feedVars, msg, flush, queued>>
SendUdp(r) ==
  /\ InSend(r) /\ pos[r] <= Udps
  /\ Take(r, pos[r]) \/ Refuse(r, pos[r])
  /\ NextReceiver(r)
  /\ UNCHANGED <<feedVars, msg, flush, queued>>

\* Producer::Send: the message goes into the producer's queue, which is then
\* flushed if the producer has flush_flag_.
Produce(r) ==
  /\ InSend(r) /\ pos[r] > Udps /\ ~flush[r]
  /\ queued[pos[r]] < QueueLimit
  /\ Take(r, pos[r])
  /\ queued' = [queued EXCEPT ![pos[r]] = @ + 1]
  /\ \/ pos[r] \in Flushing /\ flush' = [flush EXCEPT ![r] = TRUE] /\ UNCHANGED pos
     \/ pos[r] \notin Flushing /\ NextReceiver(r) /\ UNCHANGED flush
  /\ UNCHANGED <<feedVars, msg>>

\* produce() throws, at a full queue among others; the exception is caught in
\* Producer::Send, and the flush is skipped.
ProduceThrows(r) ==
  /\ InSend(r) /\ pos[r] > Udps /\ ~flush[r]
  /\ Refuse(r, pos[r])
  /\ NextReceiver(r)
  /\ UNCHANGED <<feedVars, msg, flush, queued>>

\* flush() ends with an empty queue; at the producer's timeout it throws, and
\* the exception is caught likewise.
FlushWithoutTimeout(r) ==
  /\ flush[r] /\ queued[pos[r]] = 0
  /\ flush' = [flush EXCEPT ![r] = FALSE]
  /\ NextReceiver(r)
  /\ UNCHANGED <<feedVars, msg, sent, missed, queued>>
Flush(r) ==
  /\ flush[r]
  /\ flush' = [flush EXCEPT ![r] = FALSE]
  /\ NextReceiver(r)
  /\ UNCHANGED <<feedVars, msg, sent, missed, queued>>

\* The producer's own thread delivers a message to the broker, or gives it up.
Settle(x) ==
  /\ queued[x] > 0
  /\ queued' = [queued EXCEPT ![x] = @ - 1]
  /\ UNCHANGED <<feedVars, msg, pos, flush, sent, missed>>

-----------------------------------------------------------------------------
\* What a session does besides.
Session(r) ==
  /\ \/ Feed!Join(r) \/ Feed!Subscribe(r) \/ Feed!Lose(r)
     \/ Feed!Halt(r) \/ Feed!End(r) \/ Feed!Die(r)
  /\ UNCHANGED relayVars

SendStep(r) == SendUdp(r) \/ Produce(r) \/ ProduceThrows(r) \/ Flush(r)

RelayStep(r) ==
  OnRead(r) \/ OnReadReturns(r) \/ Send(r) \/ SendStep(r) \/ Session(r)

Next == (\E r \in Relays : RelayStep(r)) \/ (\E x \in Kafkas : Settle(x))

Spec == Init /\ [][Next]_vars

\* A thread in Send goes on; neither the broker nor the application has to.
FairSpec == Spec /\ \A r \in Relays : WF_vars(SendStep(r))

-----------------------------------------------------------------------------
(* Properties.                                                              *)

\* A message has been offered to every receiver when its Send returns, and to
\* those before the one it is at until then, each exactly once: no failure of
\* one receiver keeps it from another.
Offered(r, m, x) == m < msg[r] \/ (m = msg[r] /\ x < pos[r])
EveryReceiverTried ==
  \A r \in Relays, x \in Receivers : \A m \in 1..msg[r] :
    Offered(r, m, x) =>
      ((\E i \in DOMAIN sent[x] : sent[x][i] = <<r, m>>) # (<<r, m>> \in missed[x]))

\* A receiver gets the messages of a session in the order they were read, none
\* of them twice, however many threads run the sessions.
InOrder ==
  \A x \in Receivers : \A i, j \in DOMAIN sent[x] :
    i < j /\ sent[x][i][1] = sent[x][j][1] => sent[x][i][2] < sent[x][j][2]

\* As long as one thread runs the sessions, two receivers get what they both
\* get in the same order: relays do not overtake each other between receivers.
SameOrder ==
  \A x, y \in Receivers : \A i, j \in DOMAIN sent[x], k, l \in DOMAIN sent[y] :
    sent[x][i] = sent[y][k] /\ sent[x][j] = sent[y][l] /\ i < j => k < l

\* A session that is stopped outside OnRead sends nothing more; what it was
\* sending when it was stopped, it may send to the end.
SendsNothing(r) == ~busy'[r] /\ msg'[r] = msg[r] /\ pos'[r] = pos[r]
NoRelayAfterStop ==
  [][\A r \in Relays : halted[r] /\ ~busy[r] => SendsNothing(r)]_vars

\* Send returns although the broker never answers.
SendReturns == \A r \in Relays : InSend(r) ~> ~InSend(r)
=============================================================================
