---------------------------- MODULE Relay_proof ----------------------------
(***************************************************************************)
(* Proofs about the relay: whatever the number of sessions, receivers,     *)
(* threads and messages, every receiver is offered every message once and  *)
(* in order, and a session that was stopped sends nothing more.            *)
(***************************************************************************)
EXTENDS RelayUdp, FiniteSetTheorems, SequenceTheorems, TLAPS

\* A step of a session that is none of the relay's.
FeedStep(r) ==
  \/ Feed!Deliver(r) \/ Feed!Finish(r) \/ Feed!Join(r) \/ Feed!Subscribe(r)
  \/ Feed!Lose(r) \/ Feed!Halt(r) \/ Feed!End(r) \/ Feed!Die(r)

\* Lemma: the sessions keep their types.
LEMMA FeedKeepsType ==
  ASSUME NEW r \in Relays, Feed!FeedTypeOK, FeedStep(r)
  PROVE  Feed!FeedTypeOK'
BY DEF FeedStep, Feed!FeedTypeOK, Feed!Phases, Feed!Become, Feed!Deliver,
       Feed!Finish, Feed!Join, Feed!Subscribe, Feed!Lose, Feed!Halt, Feed!End,
       Feed!Die

\* Lemma: what the relay is at changes only by its own steps.
LEMMA RelayOrFeed ==
  ASSUME NEW r \in Relays, RelayStep(r)
  PROVE  \/ FeedStep(r) /\ UNCHANGED relayVars
         \/ (Send(r) \/ SendStep(r)) /\ UNCHANGED feedVars
BY DEF RelayStep, FeedStep, OnRead, OnReadReturns, Session, Send, SendStep,
       SendUdp, Produce, ProduceThrows, Flush

\* Lemma: a position inside the loops is that of a receiver.
LEMMA AtReceiver ==
  ASSUME TypeOK, NEW r \in Relays, InSend(r)
  PROVE  /\ pos[r] \in Receivers
         /\ pos[r] + 1 \in 1..(Last + 1)
BY RelayAssumption DEF TypeOK, InSend, Receivers, Last

\* Where a session is in Send, it is in OnRead, with a message in hand; it
\* waits for a producer only.
Sending(r) ==
  /\ InSend(r) => busy[r] /\ msg[r] > 0
  /\ flush[r] => InSend(r) /\ pos[r] > Udps

LEMMA InitTypeOK == Init => TypeOK /\ \A r \in Relays : Sending(r)
<1> SUFFICES ASSUME Init PROVE TypeOK /\ \A r \in Relays : Sending(r)
  OBVIOUS
<1>1. Feed!FeedTypeOK
  BY DEF Init, Feed!Init, Feed!FeedTypeOK, Feed!Phases
<1> QED
  BY <1>1, RelayAssumption DEF Init, TypeOK, Last, Sending, InSend

\* Lemma: the message a session sends is one of those the receivers know.
LEMMA MessageType ==
  ASSUME TypeOK, NEW r \in Relays, Sending(r), InSend(r)
  PROVE  Message(r) \in Msgs
BY RelayAssumption DEF TypeOK, Sending, Message, Msgs

\* Lemma: the actions of Send keep the types.
LEMMA SendKeepsType ==
  ASSUME TypeOK, NEW r \in Relays, Sending(r),
         Send(r) \/ SendStep(r), UNCHANGED feedVars
  PROVE  TypeOK'
<1>1. Feed!FeedTypeOK'
  BY DEF TypeOK, Feed!FeedTypeOK, feedVars
<1>2. CASE Send(r)
  BY <1>1, <1>2, RelayAssumption DEF TypeOK, Send, First, Last
<1>3. CASE SendStep(r)
  <2>1. InSend(r)
    BY <1>3 DEF SendStep, SendUdp, Produce, ProduceThrows, Flush, Sending
  <2>2. pos[r] \in Receivers /\ pos[r] + 1 \in 1..(Last + 1) /\ Message(r) \in Msgs
    BY <2>1, AtReceiver, MessageType
  <2>3. Take(r, pos[r]) => sent' \in [Receivers -> Seq(Msgs)]
                           /\ missed' \in [Receivers -> SUBSET Msgs]
    <3>1. sent[pos[r]] \in Seq(Msgs)
      BY <2>2 DEF TypeOK
    <3>2. Append(sent[pos[r]], Message(r)) \in Seq(Msgs)
      BY <2>2, <3>1
    <3> QED
      BY <3>2 DEF TypeOK, Take
  <2>4. Refuse(r, pos[r]) => sent' \in [Receivers -> Seq(Msgs)]
                             /\ missed' \in [Receivers -> SUBSET Msgs]
    BY <2>2 DEF TypeOK, Refuse
  <2>5. CASE SendUdp(r)
    BY <1>1, <2>2, <2>3, <2>4, <2>5 DEF SendUdp, TypeOK, NextReceiver
  <2>6. CASE Produce(r)
    <3>1. queued[pos[r]] + 1 \in 0..QueueLimit
      BY <2>2, <2>6, RelayAssumption DEF Produce, TypeOK
    <3> QED
      BY <1>1, <2>2, <2>3, <2>6, <3>1 DEF Produce, TypeOK, NextReceiver
  <2>7. CASE ProduceThrows(r)
    BY <1>1, <2>2, <2>4, <2>7 DEF ProduceThrows, TypeOK, NextReceiver
  <2>8. CASE Flush(r)
    BY <1>1, <2>2, <2>8 DEF Flush, TypeOK, NextReceiver
  <2> QED
    BY <1>3, <2>5, <2>6, <2>7, <2>8 DEF SendStep
<1> QED
  BY <1>2, <1>3

\* Lemma: a session in Send stays in OnRead.
LEMMA NextSending ==
  ASSUME TypeOK, \A r \in Relays : Sending(r), NEW r \in Relays, RelayStep(r)
  PROVE  \A q \in Relays : Sending(q)'
<1>1. CASE Send(r) /\ UNCHANGED feedVars
  BY <1>1 DEF Send, feedVars, TypeOK, Sending, InSend
<1>2. CASE SendStep(r) /\ UNCHANGED feedVars
  <2>1. InSend(r) /\ pos[r] \in Nat /\ Udps \in Nat /\ Last \in Nat
    BY <1>2, RelayAssumption
    DEF SendStep, SendUdp, Produce, ProduceThrows, Flush, Sending, TypeOK, Last
  <2>2. CASE SendUdp(r) \/ ProduceThrows(r)
    <3>1. /\ ~flush[r]
          /\ flush' = flush /\ msg' = msg /\ busy' = busy
          /\ pos' = [pos EXCEPT ![r] = @ + 1]
      BY <1>2, <2>1, <2>2
      DEF SendUdp, ProduceThrows, NextReceiver, feedVars, Sending
    <3> QED
      BY <2>1, <3>1 DEF TypeOK, Sending, InSend
  <2>3. CASE Produce(r)
    BY <1>2, <2>1, <2>3
    DEF Produce, NextReceiver, feedVars, TypeOK, Sending, InSend
  <2>4. CASE Flush(r)
    BY <1>2, <2>1, <2>4
    DEF Flush, NextReceiver, feedVars, TypeOK, Sending, InSend
  <2> QED
    BY <1>2, <2>2, <2>3, <2>4 DEF SendStep
<1>3. CASE OnReadReturns(r)
  BY <1>3 DEF OnReadReturns, Feed!Finish, relayVars, TypeOK, Feed!FeedTypeOK,
              Sending, InSend
<1>4. CASE OnRead(r)
  BY <1>4 DEF OnRead, Feed!Deliver, relayVars, TypeOK, Feed!FeedTypeOK,
              Sending, InSend
<1>5. CASE Session(r)
  BY <1>5 DEF Session, Feed!Join, Feed!Subscribe, Feed!Lose, Feed!Halt,
              Feed!End, Feed!Die, relayVars, Sending, InSend
<1> QED
  BY <1>1, <1>2, <1>3, <1>4, <1>5
  DEF RelayStep, Send, SendStep, SendUdp, Produce, ProduceThrows, Flush

-----------------------------------------------------------------------------
(* What the receivers have been offered.                                    *)

Got(r, m, x)  == \E i \in DOMAIN sent[x] : sent[x][i] = <<r, m>>
Miss(r, m, x) == <<r, m>> \in missed[x]

\* A session in flush() is at a message that the producer has taken.
At(r, m, x) == flush[r] /\ m = msg[r] /\ x = pos[r]

\* A message was taken or refused, and not both, when it has been offered.
Fate(r, m, x) ==
  /\ Got(r, m, x) \/ Miss(r, m, x) <=> Offered(r, m, x) \/ At(r, m, x)
  /\ ~(Got(r, m, x) /\ Miss(r, m, x))
  /\ At(r, m, x) => Got(r, m, x)

Fates == \A r \in Relays, m \in 1..MaxMsg, x \in Receivers : Fate(r, m, x)

\* The invariant that makes EveryReceiverTried and InOrder inductive: a
\* receiver is in order because what it has of a session was offered before.
IInv == TypeOK /\ (\A r \in Relays : Sending(r)) /\ Fates /\ InOrder

LEMMA InitIInv == Init => IInv
<1> SUFFICES ASSUME Init PROVE IInv
  OBVIOUS
<1>1. TypeOK /\ \A r \in Relays : Sending(r)
  BY InitTypeOK
<1>2. ASSUME NEW r \in Relays, NEW m \in 1..MaxMsg, NEW x \in Receivers
      PROVE  Fate(r, m, x)
  <2>1. ~Got(r, m, x) /\ ~Miss(r, m, x) /\ ~At(r, m, x)
    BY DEF Init, Got, Miss, At
  <2>2. ~Offered(r, m, x)
    BY RelayAssumption DEF Init, Offered
  <2> QED
    BY <2>1, <2>2 DEF Fate
<1>3. InOrder
  BY DEF Init, InOrder
<1> QED
  BY <1>1, <1>2, <1>3 DEF IInv, Fates

\* Lemma: steps that neither offer a message nor move on.
LEMMA StillIInv ==
  ASSUME IInv, TypeOK', \A r \in Relays : Sending(r)',
         UNCHANGED <<msg, pos, flush, sent, missed>>
  PROVE  IInv'
<1>1. ASSUME NEW q \in Relays, NEW m \in 1..MaxMsg, NEW x \in Receivers
      PROVE  Fate(q, m, x)'
  <2>1. Fate(q, m, x)
    BY DEF IInv, Fates
  <2>2. (Got(q, m, x)' <=> Got(q, m, x)) /\ (Miss(q, m, x)' <=> Miss(q, m, x))
    BY DEF Got, Miss
  <2>3. (At(q, m, x)' <=> At(q, m, x)) /\ (Offered(q, m, x)' <=> Offered(q, m, x))
    BY DEF At, Offered
  <2> QED
    BY <2>1, <2>2, <2>3 DEF Fate
<1>2. InOrder'
  BY DEF IInv, InOrder
<1> QED
  BY <1>1, <1>2 DEF IInv, Fates

\* Lemma: Send begins with a message no receiver has been offered.
LEMMA SendIInv ==
  ASSUME IInv, TypeOK', \A r \in Relays : Sending(r)', NEW r \in Relays, Send(r)
  PROVE  IInv'
<1>1. /\ sent' = sent /\ missed' = missed /\ flush' = flush
      /\ msg' = [msg EXCEPT ![r] = @ + 1] /\ pos' = [pos EXCEPT ![r] = 1]
      /\ ~InSend(r) /\ ~flush[r]
  BY DEF IInv, Send, First, Sending
<1>2. ASSUME NEW q \in Relays, NEW m \in 1..MaxMsg, NEW x \in Receivers
      PROVE  Fate(q, m, x)'
  <2>1. /\ msg[q] \in Nat /\ pos[q] \in 1..(Last + 1) /\ Last \in Nat
        /\ msg'[q] = IF q = r THEN msg[q] + 1 ELSE msg[q]
        /\ pos'[q] = IF q = r THEN 1 ELSE pos[q]
        /\ pos[r] > Last
        /\ m \in Nat /\ x \in 1..Last
    BY <1>1, RelayAssumption DEF IInv, TypeOK, InSend, Last, Receivers
  <2>2. Offered(q, m, x)' <=> Offered(q, m, x)
    BY <2>1 DEF Offered
  <2>3. (Got(q, m, x)' <=> Got(q, m, x)) /\ (Miss(q, m, x)' <=> Miss(q, m, x))
    BY <1>1 DEF Got, Miss
  <2>4. At(q, m, x)' <=> At(q, m, x)
    BY <1>1, <2>1 DEF At
  <2>5. Fate(q, m, x)
    BY DEF IInv, Fates
  <2> QED
    BY <2>2, <2>3, <2>4, <2>5 DEF Fate
<1>3. InOrder'
  BY <1>1 DEF IInv, InOrder
<1> QED
  BY <1>2, <1>3 DEF IInv, Fates

\* Lemma: moving on to the next receiver offers the message to this one.
LEMMA NextOffers ==
  ASSUME TypeOK, NEW r \in Relays, InSend(r), NextReceiver(r), UNCHANGED msg,
         NEW q \in Relays, NEW m \in 1..MaxMsg, NEW x \in Receivers
  PROVE  Offered(q, m, x)' <=>
           Offered(q, m, x) \/ (q = r /\ m = msg[r] /\ x = pos[r])
<1>1. /\ pos[q] \in Nat /\ msg[q] \in Nat /\ m \in Nat /\ x \in Nat
      /\ pos'[q] = IF q = r THEN pos[q] + 1 ELSE pos[q]
      /\ msg' = msg
  BY RelayAssumption DEF TypeOK, NextReceiver, Last, Receivers
<1> QED
  BY <1>1 DEF Offered

\* Lemma: what Append does to the elements.
LEMMA Appended ==
  ASSUME NEW S, NEW s \in Seq(S), NEW e \in S
  PROVE  /\ Len(s) \in Nat /\ DOMAIN s = 1..Len(s)
         /\ DOMAIN Append(s, e) = 1..(Len(s) + 1)
         /\ \A i \in 1..Len(s) : Append(s, e)[i] = s[i] /\ s[i] \in S
         /\ Append(s, e)[Len(s) + 1] = e
OBVIOUS

\* Lemma: what a receiver takes is last in its order and added to what it got.
LEMMA TakeGot ==
  ASSUME IInv, NEW r \in Relays, InSend(r), ~flush[r], Take(r, pos[r])
  PROVE  /\ \A q \in Relays, m \in 1..MaxMsg, x \in Receivers :
              Got(q, m, x)' <=>
                Got(q, m, x) \/ (q = r /\ m = msg[r] /\ x = pos[r])
         /\ InOrder'
<1> DEFINE p == pos[r]
           s == sent[p]
<1>1. p \in Receivers /\ Message(r) = <<r, msg[r]>> /\ Message(r) \in Msgs
  BY AtReceiver, MessageType DEF IInv, Message
<1>2. s \in Seq(Msgs)
  BY <1>1 DEF IInv, TypeOK
<1>3. \A x \in Receivers : sent'[x] = IF x = p THEN Append(s, Message(r)) ELSE sent[x]
  BY <1>1 DEF IInv, TypeOK, Take
<1>4. /\ Len(s) \in Nat /\ DOMAIN s = 1..Len(s)
      /\ DOMAIN sent'[p] = 1..(Len(s) + 1)
      /\ \A i \in 1..Len(s) : sent'[p][i] = s[i] /\ s[i] \in Msgs
      /\ sent'[p][Len(s) + 1] = <<r, msg[r]>>
  <2>1. sent'[p] = Append(s, Message(r))
    BY <1>1, <1>3
  <2> HIDE DEF s, p
  <2> QED
    BY <1>1, <1>2, <2>1, Appended
<1>5. ASSUME NEW q \in Relays, NEW m \in 1..MaxMsg, NEW x \in Receivers
      PROVE  Got(q, m, x)' <=>
               Got(q, m, x) \/ (q = r /\ m = msg[r] /\ x = pos[r])
  <2>1. CASE x # p
    BY <1>3, <2>1 DEF Got
  <2>2. CASE x = p
    <3>1. Got(q, m, x)' <=> \E i \in 1..(Len(s) + 1) : sent'[p][i] = <<q, m>>
      BY <1>4, <2>2 DEF Got
    <3>2. Got(q, m, x) <=> \E i \in 1..Len(s) : s[i] = <<q, m>>
      BY <1>4, <2>2 DEF Got
    <3>3. \A i \in 1..(Len(s) + 1) : i \in 1..Len(s) \/ i = Len(s) + 1
      BY <1>4
    <3>4. 1..Len(s) \subseteq 1..(Len(s) + 1) /\ Len(s) + 1 \in 1..(Len(s) + 1)
      BY <1>4
    <3> HIDE DEF s, p
    <3> QED
      BY <1>4, <2>2, <3>1, <3>2, <3>3, <3>4 DEF p
  <2> QED
    BY <2>1, <2>2
<1>6. \A i \in 1..Len(s) : s[i][1] = r => s[i][2] \in Nat /\ s[i][2] < msg[r]
  <2> SUFFICES ASSUME NEW i \in 1..Len(s), s[i][1] = r
               PROVE  s[i][2] \in Nat /\ s[i][2] < msg[r]
    OBVIOUS
  <2>1. s[i][2] \in 1..MaxMsg /\ s[i] = <<r, s[i][2]>>
    BY <1>4 DEF Msgs
  <2>2. Got(r, s[i][2], p)
    BY <1>4, <2>1 DEF Got
  <2>3. Offered(r, s[i][2], p) \/ At(r, s[i][2], p)
    BY <1>1, <2>1, <2>2 DEF IInv, Fates, Fate
  <2>4. ~At(r, s[i][2], p) /\ ~(p < pos[r])
    BY RelayAssumption DEF At, IInv, TypeOK, Last
  <2> QED
    BY <2>1, <2>3, <2>4 DEF Offered
<1>7. ASSUME NEW x \in Receivers, NEW i \in DOMAIN sent'[x], NEW j \in DOMAIN sent'[x],
             i < j, sent'[x][i][1] = sent'[x][j][1]
      PROVE  sent'[x][i][2] < sent'[x][j][2]
  <2>1. CASE x # p
    BY <1>3, <1>7, <2>1 DEF IInv, InOrder
  <2>2. CASE x = p /\ j \in 1..Len(s)
    <3>1. i \in 1..Len(s)
      BY <1>4, <1>7, <2>2
    <3> QED
      BY <1>1, <1>4, <1>7, <2>2, <3>1 DEF IInv, InOrder
  <2>3. CASE x = p /\ j = Len(s) + 1
    <3>1. i \in 1..Len(s)
      BY <1>4, <1>7, <2>3
    <3> QED
      BY <1>4, <1>6, <1>7, <2>3, <3>1
  <2> QED
    BY <1>4, <2>1, <2>2, <2>3
<1> QED
  BY <1>5, <1>7 DEF InOrder

\* Lemma: each step inside the loops of Send keeps the invariant.
LEMMA SendStepIInv ==
  ASSUME IInv, TypeOK', \A r \in Relays : Sending(r)',
         NEW r \in Relays, SendStep(r)
  PROVE  IInv'
<1>1. InSend(r) /\ pos[r] \in Receivers
  <2>1. InSend(r)
    BY DEF SendStep, SendUdp, Produce, ProduceThrows, Flush, IInv, Sending
  <2> QED
    BY <2>1, AtReceiver DEF IInv
<1>2. ~Offered(r, msg[r], pos[r])
  BY RelayAssumption DEF Offered, IInv, TypeOK, Last
<1> DEFINE Here(q, m, x) == q = r /\ m = msg[r] /\ x = pos[r]
\* A producer with flush_flag_ has taken the message, and holds the session.
<1>3. CASE Take(r, pos[r]) /\ ~flush[r] /\ UNCHANGED <<msg, pos>>
           /\ flush' = [flush EXCEPT ![r] = TRUE]
  <2>1. InOrder'
    BY <1>1, <1>3, TakeGot
  <2>2. ASSUME NEW q \in Relays, NEW m \in 1..MaxMsg, NEW x \in Receivers
        PROVE  Fate(q, m, x)'
    <3>1. Fate(q, m, x)
      BY DEF IInv, Fates
    <3>2. Got(q, m, x)' <=> Got(q, m, x) \/ Here(q, m, x)
      BY <1>1, <1>3, TakeGot
    <3>3. /\ Miss(q, m, x)' <=> Miss(q, m, x)
          /\ Offered(q, m, x)' <=> Offered(q, m, x)
      BY <1>3 DEF Take, Miss, Offered
    <3>4. At(q, m, x)' <=> At(q, m, x) \/ Here(q, m, x)
      BY <1>3 DEF At, IInv, TypeOK
    <3>5. Here(q, m, x) => ~Offered(q, m, x) /\ ~At(q, m, x)
      BY <1>2, <1>3 DEF At
    <3> HIDE DEF Here
    <3> QED
      BY <3>1, <3>2, <3>3, <3>4, <3>5 DEF Fate
  <2> QED
    BY <2>1, <2>2 DEF IInv, Fates
\* A receiver has taken the message, and the session moves on.
<1>4. CASE Take(r, pos[r]) /\ ~flush[r] /\ NextReceiver(r)
           /\ UNCHANGED <<msg, flush>>
  <2>1. InOrder'
    BY <1>1, <1>4, TakeGot
  <2>2. ASSUME NEW q \in Relays, NEW m \in 1..MaxMsg, NEW x \in Receivers
        PROVE  Fate(q, m, x)'
    <3>1. Fate(q, m, x)
      BY DEF IInv, Fates
    <3>2. Got(q, m, x)' <=> Got(q, m, x) \/ Here(q, m, x)
      BY <1>1, <1>4, TakeGot
    <3>3. Miss(q, m, x)' <=> Miss(q, m, x)
      BY <1>4 DEF Take, Miss
    <3>4. At(q, m, x)' <=> At(q, m, x)
      BY <1>4 DEF NextReceiver, At, IInv, TypeOK
    <3>5. Offered(q, m, x)' <=> Offered(q, m, x) \/ Here(q, m, x)
      BY <1>1, <1>4, NextOffers DEF IInv
    <3>6. Here(q, m, x) => ~Offered(q, m, x) /\ ~At(q, m, x)
      BY <1>2, <1>4 DEF At
    <3> HIDE DEF Here
    <3> QED
      BY <3>1, <3>2, <3>3, <3>4, <3>5, <3>6 DEF Fate
  <2> QED
    BY <2>1, <2>2 DEF IInv, Fates
\* A receiver has refused the message.
<1>5. CASE Refuse(r, pos[r]) /\ ~flush[r] /\ NextReceiver(r)
           /\ UNCHANGED <<msg, flush>>
  <2>1. InOrder'
    BY <1>5 DEF Refuse, IInv, InOrder
  <2>2. ASSUME NEW q \in Relays, NEW m \in 1..MaxMsg, NEW x \in Receivers
        PROVE  Fate(q, m, x)'
    <3>1. Fate(q, m, x)
      BY DEF IInv, Fates
    <3>2. Got(q, m, x)' <=> Got(q, m, x)
      BY <1>5 DEF Refuse, Got
    <3>3. Miss(q, m, x)' <=> Miss(q, m, x) \/ Here(q, m, x)
      BY <1>1, <1>5 DEF Refuse, Miss, Message, IInv, TypeOK
    <3>4. At(q, m, x)' <=> At(q, m, x)
      BY <1>5 DEF NextReceiver, At, IInv, TypeOK
    <3>5. Offered(q, m, x)' <=> Offered(q, m, x) \/ Here(q, m, x)
      BY <1>1, <1>5, NextOffers DEF IInv
    <3>6. Here(q, m, x) => ~Offered(q, m, x) /\ ~At(q, m, x)
      BY <1>2, <1>5 DEF At
    <3> HIDE DEF Here
    <3> QED
      BY <3>1, <3>2, <3>3, <3>4, <3>5, <3>6 DEF Fate
  <2> QED
    BY <2>1, <2>2 DEF IInv, Fates
\* The end of flush(): the message counts as offered.
<1>6. CASE Flush(r)
  <2>1. InOrder'
    BY <1>6 DEF Flush, IInv, InOrder
  <2>2. ASSUME NEW q \in Relays, NEW m \in 1..MaxMsg, NEW x \in Receivers
        PROVE  Fate(q, m, x)'
    <3>1. Fate(q, m, x)
      BY DEF IInv, Fates
    <3>2. (Got(q, m, x)' <=> Got(q, m, x)) /\ (Miss(q, m, x)' <=> Miss(q, m, x))
      BY <1>6 DEF Flush, Got, Miss
    <3>3. Here(q, m, x) => At(q, m, x)
      BY <1>6 DEF Flush, At
    <3>4. At(q, m, x)' <=> At(q, m, x) /\ ~Here(q, m, x)
      BY <1>6 DEF Flush, NextReceiver, At, IInv, TypeOK
    <3>5. Offered(q, m, x)' <=> Offered(q, m, x) \/ Here(q, m, x)
      BY <1>1, <1>6, NextOffers DEF Flush, IInv
    <3> HIDE DEF Here
    <3> QED
      BY <3>1, <3>2, <3>3, <3>4, <3>5 DEF Fate
  <2> QED
    BY <2>1, <2>2 DEF IInv, Fates
<1>7. InSend(r) /\ pos[r] <= Udps => ~flush[r]
  BY RelayAssumption DEF IInv, Sending, TypeOK, Last
<1>8. CASE SendUdp(r)
  BY <1>4, <1>5, <1>7, <1>8 DEF SendUdp
<1>9. CASE Produce(r)
  BY <1>3, <1>4, <1>9 DEF Produce
<1>10. CASE ProduceThrows(r)
  BY <1>5, <1>10 DEF ProduceThrows
<1> QED
  BY <1>6, <1>8, <1>9, <1>10 DEF SendStep

\* Lemma: every step keeps the invariant.
LEMMA NextIInv == IInv /\ [Next]_vars => IInv'
<1> SUFFICES ASSUME IInv, [Next]_vars PROVE IInv'
  OBVIOUS
<1>0. TypeOK /\ \A r \in Relays : Sending(r)
  BY DEF IInv
<1>1. CASE UNCHANGED vars
  <2>1. TypeOK' /\ \A r \in Relays : Sending(r)'
    BY <1>0, <1>1 DEF vars, TypeOK, Feed!FeedTypeOK, Sending, InSend
  <2> QED
    BY <1>1, <2>1, StillIInv DEF vars
<1>2. CASE \E x \in Kafkas : Settle(x)
  <2>1. PICK x \in Kafkas : Settle(x)
    BY <1>2
  <2>2. TypeOK'
    <3>1. x \in Receivers /\ queued[x] - 1 \in 0..QueueLimit
      BY <1>0, <2>1, RelayAssumption DEF Kafkas, Receivers, Last, Settle, TypeOK
    <3>2. queued' \in [Receivers -> 0..QueueLimit]
      BY <1>0, <2>1, <3>1 DEF Settle, TypeOK
    <3> QED
      BY <1>0, <2>1, <3>2 DEF Settle, TypeOK, Feed!FeedTypeOK, feedVars
  <2>3. \A r \in Relays : Sending(r)'
    BY <1>0, <2>1 DEF Settle, feedVars, Sending, InSend
  <2> QED
    BY <2>1, <2>2, <2>3, StillIInv DEF Settle
<1>3. CASE \E r \in Relays : RelayStep(r)
  <2>1. PICK r \in Relays : RelayStep(r)
    BY <1>3
  <2>2. \A q \in Relays : Sending(q)'
    BY <1>0, <2>1, NextSending
  <2>3. CASE FeedStep(r) /\ UNCHANGED relayVars
    <3>1. TypeOK'
      BY <1>0, <2>3, FeedKeepsType DEF TypeOK, relayVars
    <3> QED
      BY <2>2, <2>3, <3>1, StillIInv DEF relayVars
  <2>4. CASE (Send(r) \/ SendStep(r)) /\ UNCHANGED feedVars
    <3>1. TypeOK'
      BY <1>0, <2>4, SendKeepsType
    <3> QED
      BY <2>2, <2>4, <3>1, SendIInv, SendStepIInv
  <2> QED
    BY <2>1, <2>3, <2>4, RelayOrFeed
<1> QED
  BY <1>1, <1>2, <1>3 DEF Next

LEMMA AlwaysIInv == Spec => []IInv
BY InitIInv, NextIInv, PTL DEF Spec

-----------------------------------------------------------------------------
\* Theorem: the sessions, what they send and what the receivers hold keep
\* their types.
THEOREM TypeCorrect == Spec => []TypeOK
<1>1. IInv => TypeOK
  BY DEF IInv
<1> QED
  BY <1>1, AlwaysIInv, PTL

\* Theorem: Send offers a message to every receiver, and to each once,
\* whichever of them fail.
THEOREM AllTried == Spec => []EveryReceiverTried
<1>1. IInv => EveryReceiverTried
  <2> SUFFICES ASSUME IInv, NEW r \in Relays, NEW x \in Receivers,
                      NEW m \in 1..msg[r], Offered(r, m, x)
               PROVE  Got(r, m, x) # Miss(r, m, x)
    BY DEF EveryReceiverTried, Got, Miss
  <2>1. m \in 1..MaxMsg
    BY RelayAssumption DEF IInv, TypeOK
  <2> QED
    BY <2>1 DEF IInv, Fates, Fate
<1> QED
  BY <1>1, AlwaysIInv, PTL

\* Theorem: every receiver gets the messages of a session in order, however
\* many threads run the sessions.
THEOREM KeepsOrder == Spec => []InOrder
<1>1. IInv => InOrder
  BY DEF IInv
<1> QED
  BY <1>1, AlwaysIInv, PTL

\* Theorem: a session that was stopped outside OnRead sends nothing more.
THEOREM StoppedSendsNothing == Spec => NoRelayAfterStop
<1>1. IInv /\ [Next]_vars =>
        [\A r \in Relays : halted[r] /\ ~busy[r] => SendsNothing(r)]_vars
  <2> SUFFICES ASSUME IInv, Next, NEW q \in Relays, halted[q], ~busy[q]
               PROVE  SendsNothing(q)
    OBVIOUS
  <2>1. CASE \E x \in Kafkas : Settle(x)
    BY <2>1 DEF Settle, feedVars, SendsNothing
  <2>2. CASE \E r \in Relays : RelayStep(r)
    <3>1. PICK r \in Relays : RelayStep(r)
      BY <2>2
    <3>2. CASE FeedStep(r) /\ UNCHANGED relayVars
      BY <3>2
      DEF FeedStep, relayVars, SendsNothing, IInv, TypeOK, Feed!FeedTypeOK,
          Feed!Become, Feed!Deliver, Feed!Finish, Feed!Join, Feed!Subscribe,
          Feed!Lose, Feed!Halt, Feed!End, Feed!Die
    <3>3. CASE (Send(r) \/ SendStep(r)) /\ UNCHANGED feedVars
      <4>1. busy[r]
        BY <3>3 DEF Send, SendStep, SendUdp, Produce, ProduceThrows, Flush,
                    IInv, Sending
      <4>2. msg'[q] = msg[q] /\ pos'[q] = pos[q]
        BY <3>3, <4>1 DEF Send, SendStep, SendUdp, Produce, ProduceThrows,
                          Flush, NextReceiver, IInv, TypeOK
      <4> QED
        BY <3>3, <4>2 DEF feedVars, SendsNothing
    <3> QED
      BY <3>1, <3>2, <3>3, RelayOrFeed
  <2> QED
    BY <2>1, <2>2 DEF Next
<1> QED
  BY <1>1, AlwaysIInv, PTL DEF Spec, NoRelayAfterStop

-----------------------------------------------------------------------------
(* Send comes to its end.                                                   *)

\* What is left of a Send: two steps for each receiver, of which a flush() that
\* has begun is the second.
SendLeft(r) == 2 * (Last + 1 - pos[r]) - (IF flush[r] THEN 1 ELSE 0)

\* Theorem: a step of the thread in Send uses up some of what is left, whether the
\* receiver takes the message, refuses it or lets flush() time out, and nothing but
\* such a step touches it: Send returns after at most 2 * Last of them.
SendUsesUp ==
  \A r \in Relays :
    InSend(r) =>
      /\ SendLeft(r) \in 1..(2 * Last)
      /\ SendLeft(r)' \in 0..(2 * Last)
      /\ SendStep(r) => SendLeft(r)' < SendLeft(r)
      /\ ~SendStep(r) => UNCHANGED <<pos[r], flush[r], msg[r]>>
      /\ SendLeft(r)' = 0 => ~InSend(r)'

THEOREM SendRunsOut == Spec => [][SendUsesUp]_vars
<1>1. ASSUME IInv, Next PROVE SendUsesUp
  <2> SUFFICES ASSUME NEW r \in Relays, InSend(r)
               PROVE  /\ SendLeft(r) \in 1..(2 * Last)
                      /\ SendLeft(r)' \in 0..(2 * Last)
                      /\ SendStep(r) => SendLeft(r)' < SendLeft(r)
                      /\ ~SendStep(r) => UNCHANGED <<pos[r], flush[r], msg[r]>>
                      /\ SendLeft(r)' = 0 => ~InSend(r)'
    BY DEF SendUsesUp
  <2>1. IInv' /\ Last \in Nat
    BY <1>1, NextIInv, RelayAssumption DEF Last
  <2>2. /\ pos[r] \in 1..Last /\ flush[r] \in BOOLEAN
        /\ pos'[r] \in 1..(Last + 1) /\ flush'[r] \in BOOLEAN
        /\ flush'[r] => InSend(r)'
    BY <1>1, <2>1 DEF IInv, TypeOK, Sending, InSend
  <2>3. SendLeft(r) \in 1..(2 * Last) /\ SendLeft(r)' \in 0..(2 * Last)
    <3>1. flush'[r] => pos'[r] <= Last
      BY <2>2 DEF InSend
    <3>2. pos'[r] >= pos[r]
      <4>1. ASSUME NEW q \in Relays, RelayStep(q) PROVE pos'[r] = pos[r] \/ pos'[r] = pos[r] + 1
        BY <1>1, <2>2, <4>1
        DEF RelayStep, OnRead, OnReadReturns, Session, relayVars, Send, SendStep, SendUdp,
            Produce, ProduceThrows, Flush, NextReceiver, IInv, TypeOK
      <4>2. ASSUME NEW x \in Kafkas, Settle(x) PROVE pos'[r] = pos[r]
        BY <4>2 DEF Settle
      <4> QED
        BY <1>1, <2>2, <4>1, <4>2 DEF Next
    <3> QED
      BY <2>1, <2>2, <3>1, <3>2 DEF SendLeft
  <2>4. SendStep(r) => SendLeft(r)' < SendLeft(r)
    <3> SUFFICES ASSUME SendStep(r) PROVE SendLeft(r)' < SendLeft(r)
      OBVIOUS
    <3>1. \/ pos'[r] = pos[r] + 1 /\ (flush'[r] = flush[r] \/ ~flush'[r])
          \/ pos'[r] = pos[r] /\ ~flush[r] /\ flush'[r]
      BY <1>1 DEF SendStep, SendUdp, Produce, ProduceThrows, Flush, NextReceiver, IInv, TypeOK
    <3> QED
      BY <2>1, <2>2, <3>1 DEF SendLeft
  <2>5. ~SendStep(r) => UNCHANGED <<pos[r], flush[r], msg[r]>>
    <3> SUFFICES ASSUME ~SendStep(r) PROVE UNCHANGED <<pos[r], flush[r], msg[r]>>
      OBVIOUS
    <3>1. ASSUME NEW q \in Relays, SendStep(q), q # r PROVE UNCHANGED <<pos[r], flush[r], msg[r]>>
      BY <1>1, <3>1 DEF SendStep, SendUdp, Produce, ProduceThrows, Flush, NextReceiver,
                        IInv, TypeOK
    <3>2. ASSUME NEW q \in Relays, Send(q) PROVE UNCHANGED <<pos[r], flush[r], msg[r]>>
      BY <1>1, <3>2 DEF Send, IInv, TypeOK
    <3>3. ASSUME NEW q \in Relays, OnRead(q) \/ OnReadReturns(q) \/ Session(q)
          PROVE  UNCHANGED <<pos[r], flush[r], msg[r]>>
      BY <3>3 DEF OnRead, OnReadReturns, Session, relayVars
    <3>4. ASSUME NEW x \in Kafkas, Settle(x) PROVE UNCHANGED <<pos[r], flush[r], msg[r]>>
      BY <3>4 DEF Settle
    <3> QED
      BY <1>1, <3>1, <3>2, <3>3, <3>4 DEF Next, RelayStep
  <2>6. SendLeft(r)' = 0 => ~InSend(r)'
    BY <2>1, <2>2 DEF SendLeft, InSend
  <2> QED
    BY <2>3, <2>4, <2>5, <2>6
<1>2. IInv /\ [Next]_vars => [SendUsesUp]_vars
  BY <1>1
<1> QED
  BY <1>2, AlwaysIInv, PTL DEF Spec

-----------------------------------------------------------------------------
(* One thread.                                                              *)

\* One session at a time is in OnRead, and the message it is sending is the
\* last that any receiver has.
Alone == \A q, r \in Relays : busy[q] /\ busy[r] => q = r

LastIfOpen ==
  \A r \in Relays, x \in Receivers : \A i, j \in DOMAIN sent[x] :
    InSend(r) /\ sent[x][i] = Message(r) => ~(i < j)

OneThreadInv == IInv /\ Alone /\ LastIfOpen /\ SameOrder

\* Lemma: a single thread is free when no session is in OnRead.
LEMMA NoneBusy ==
  ASSUME Threads = 1, Alone, ThreadFree
  PROVE  \A r \in Relays : ~busy[r]
<1> SUFFICES ASSUME NEW r \in Relays, busy[r] PROVE FALSE
  OBVIOUS
<1>1. {q \in Relays : busy[q]} = {r}
  BY DEF Alone
<1>2. Cardinality({r}) = 1
  BY FS_Singleton
<1> QED
  BY <1>1, <1>2 DEF ThreadFree

LEMMA NextAlone ==
  ASSUME Threads = 1, IInv, Alone, [Next]_vars
  PROVE  Alone'
<1>1. ASSUME NEW r \in Relays, OnRead(r) PROVE Alone'
  BY <1>1, NoneBusy DEF OnRead, Feed!Deliver, Alone, IInv, TypeOK, Feed!FeedTypeOK
<1>2. ASSUME NEW r \in Relays, OnReadReturns(r) PROVE Alone'
  BY <1>2 DEF OnReadReturns, Feed!Finish, Alone, IInv, TypeOK, Feed!FeedTypeOK
<1>3. ASSUME NEW r \in Relays, Send(r) \/ SendStep(r) \/ Session(r) PROVE busy' = busy
  BY <1>3 DEF Send, SendStep, SendUdp, Produce, ProduceThrows, Flush, Session, feedVars,
     Feed!Join, Feed!Subscribe, Feed!Lose, Feed!Halt, Feed!End, Feed!Die
<1>4. CASE (\E x \in Kafkas : Settle(x)) \/ UNCHANGED vars
  BY <1>4 DEF Settle, feedVars, vars, Alone
<1> QED
  BY <1>1, <1>2, <1>3, <1>4 DEF Next, RelayStep, Alone

\* Lemma: a message that a session is about to send is one no receiver has
\* from the place where it is on.
LEMMA NotYetSent ==
  ASSUME IInv, NEW r \in Relays, NEW x \in Receivers, NEW m \in 1..MaxMsg,
         ~Offered(r, m, x), ~At(r, m, x)
  PROVE  \A i \in DOMAIN sent[x] : sent[x][i] # <<r, m>>
BY DEF IInv, Fates, Fate, Got

\* Lemma: what leaves sent alone and sends no other message leaves the order.
LEMMA OrderStays ==
  ASSUME LastIfOpen, SameOrder, sent' = sent, msg' = msg,
         \A r \in Relays : InSend(r)' => InSend(r)
  PROVE  LastIfOpen' /\ SameOrder'
BY DEF LastIfOpen, SameOrder, Message

\* Lemma: a message that is new at a receiver is last there, and elsewhere.
LEMMA TakeInOrder ==
  ASSUME OneThreadInv, Alone', NEW r \in Relays, InSend(r), ~flush[r], Take(r, pos[r]),
         msg' = msg, \A q \in Relays : InSend(q)' => InSend(q)
  PROVE  LastIfOpen' /\ SameOrder'
<1> DEFINE p == pos[r]
           s == sent[p]
           M == <<r, msg[r]>>
<1>1. p \in Receivers /\ Message(r) = M /\ M \in Msgs /\ s \in Seq(Msgs) /\ msg[r] \in 1..MaxMsg
  BY AtReceiver, MessageType DEF OneThreadInv, IInv, Message, TypeOK, Msgs
<1>2. \A x \in Receivers : sent'[x] = IF x = p THEN Append(s, M) ELSE sent[x]
  BY <1>1 DEF OneThreadInv, IInv, TypeOK, Take
<1>3. /\ Len(s) \in Nat /\ DOMAIN s = 1..Len(s)
      /\ DOMAIN sent'[p] = 1..(Len(s) + 1)
      /\ \A i \in 1..Len(s) : sent'[p][i] = s[i] /\ s[i] \in Msgs
      /\ sent'[p][Len(s) + 1] = M
  <2>1. sent'[p] = Append(s, M)
    BY <1>1, <1>2
  <2> HIDE DEF s, p, M
  <2> QED
    BY <1>1, <2>1, Appended
<1>4. \A i \in DOMAIN s : s[i] # M
  <2>1. ~Offered(r, msg[r], p) /\ ~At(r, msg[r], p)
    BY RelayAssumption DEF Offered, At, OneThreadInv, IInv, TypeOK, Last
  <2> QED
    BY <1>1, <2>1, NotYetSent DEF OneThreadInv
<1>5. \A x \in Receivers \ {p} : sent'[x] = sent[x]
  BY <1>2
<1>6. \A x \in Receivers : DOMAIN sent'[x] \subseteq Nat
  <2>1. \A x \in Receivers : sent[x] \in Seq(Msgs)
    BY DEF OneThreadInv, IInv, TypeOK
  <2>2. \A x \in Receivers : DOMAIN sent[x] \subseteq Nat
    BY <2>1
  <2> QED
    BY <1>3, <1>5, <2>2
\* The message is the last wherever it is.
<1>7. ASSUME NEW x \in Receivers, NEW i \in DOMAIN sent'[x], NEW j \in DOMAIN sent'[x],
             i < j, sent'[x][i] = M
      PROVE  FALSE
  <2>1. CASE x = p
    <3>1. i \in DOMAIN s
      BY <1>3, <1>7, <2>1
    <3> QED
      BY <1>3, <1>4, <1>7, <2>1, <3>1
  <2>2. CASE x # p
    BY <1>1, <1>5, <1>7, <2>2 DEF OneThreadInv, LastIfOpen
  <2> QED
    BY <2>1, <2>2
<1>8. \A q \in Relays : InSend(q) => q = r
  BY DEF OneThreadInv, Alone, IInv, Sending
<1>9. LastIfOpen'
  BY <1>1, <1>7, <1>8 DEF LastIfOpen, Message
\* No message is twice at a receiver.
<1>10. ASSUME NEW x \in Receivers, NEW i \in DOMAIN sent'[x], NEW j \in DOMAIN sent'[x],
              i < j, sent'[x][i] = sent'[x][j]
       PROVE  FALSE
  <2>1. sent'[x][i][2] < sent'[x][j][2]
    BY <1>10, TakeGot DEF InOrder, OneThreadInv
  <2>2. sent'[x][i] \in Msgs
    <3>1. \A y \in Receivers : sent[y] \in Seq(Msgs)
      BY DEF OneThreadInv, IInv, TypeOK
    <3>2. CASE x # p
      BY <1>5, <3>1, <3>2
    <3>3. CASE x = p
      <4>1. i \in 1..Len(s) \/ i = Len(s) + 1
        BY <1>3, <1>10, <3>3
      <4> HIDE DEF s, p, M
      <4> QED
        BY <1>1, <1>3, <3>3, <4>1
    <3> QED
      BY <3>2, <3>3
  <2>3. sent'[x][i][2] \in Nat
    BY <2>2 DEF Msgs
  <2> QED
    BY <1>10, <2>1, <2>3
\* All but the message was there before.
<1>11. ASSUME NEW x \in Receivers, NEW n \in DOMAIN sent'[x], sent'[x][n] # M
       PROVE  n \in DOMAIN sent[x] /\ sent'[x][n] = sent[x][n]
  <2>1. CASE x # p
    BY <1>5, <1>11, <2>1
  <2>2. CASE x = p
    <3>1. n \in 1..Len(s) \/ n = Len(s) + 1
      BY <1>3, <1>11, <2>2
    <3> HIDE DEF s, M
    <3>2. n \in DOMAIN s /\ sent'[p][n] = s[n]
      BY <1>3, <1>11, <2>2, <3>1
    <3> QED
      BY <2>2, <3>2 DEF s
  <2> QED
    BY <2>1, <2>2
<1>12. ASSUME NEW x \in Receivers, NEW y \in Receivers,
              NEW i \in DOMAIN sent'[x], NEW j \in DOMAIN sent'[x],
              NEW k \in DOMAIN sent'[y], NEW l \in DOMAIN sent'[y],
              sent'[x][i] = sent'[y][k], sent'[x][j] = sent'[y][l], i < j
       PROVE  k < l
  <2>1. k \in Nat /\ l \in Nat /\ k # l
    BY <1>6, <1>10, <1>12
  <2>2. CASE sent'[x][j] = M
    <3>1. sent'[y][l] = M
      BY <1>12, <2>2
    <3>2. ~(l < k)
      BY <1>7, <3>1
    <3> QED
      BY <2>1, <3>2
  <2>3. CASE sent'[x][j] # M
    <3>1. sent'[x][i] # M
      BY <1>7, <1>12
    <3>2. /\ i \in DOMAIN sent[x] /\ sent'[x][i] = sent[x][i]
          /\ j \in DOMAIN sent[x] /\ sent'[x][j] = sent[x][j]
      BY <1>11, <2>3, <3>1
    <3>3. /\ k \in DOMAIN sent[y] /\ sent'[y][k] = sent[y][k]
          /\ l \in DOMAIN sent[y] /\ sent'[y][l] = sent[y][l]
      <4>1. sent'[y][k] # M /\ sent'[y][l] # M
        BY <1>12, <2>3, <3>1
      <4> QED
        BY <1>11, <4>1
    <3>4. sent[x][i] = sent[y][k] /\ sent[x][j] = sent[y][l]
      BY <1>12, <3>2, <3>3
    <3> QED
      BY <1>12, <3>2, <3>3, <3>4 DEF OneThreadInv, SameOrder
  <2> QED
    BY <2>2, <2>3
<1>13. SameOrder'
  BY <1>12 DEF SameOrder
<1> QED
  BY <1>9, <1>13

LEMMA NextOneThread ==
  ASSUME Threads = 1, OneThreadInv, [Next]_vars
  PROVE  OneThreadInv'
<1>1. IInv' /\ Alone'
  BY NextIInv, NextAlone DEF OneThreadInv
<1>2. CASE (\E x \in Kafkas : Settle(x)) \/ UNCHANGED vars
  BY <1>1, <1>2, OrderStays DEF Settle, vars, InSend, OneThreadInv
<1>3. ASSUME NEW r \in Relays, UNCHANGED relayVars PROVE OneThreadInv'
  BY <1>1, <1>3, OrderStays DEF relayVars, InSend, OneThreadInv
<1>4. ASSUME NEW r \in Relays, Send(r) PROVE OneThreadInv'
  <2>1. /\ sent' = sent /\ msg' = [msg EXCEPT ![r] = @ + 1] /\ busy' = busy
        /\ busy[r] /\ msg[r] + 1 \in 1..MaxMsg /\ msg \in [Relays -> 0..MaxMsg]
    BY <1>4, RelayAssumption DEF Send, feedVars, OneThreadInv, IInv, TypeOK
  <2>2. \A q \in Relays : InSend(q)' => q = r
    BY <1>1, <2>1 DEF Alone, IInv, Sending
  <2>3. ASSUME NEW x \in Receivers, NEW i \in DOMAIN sent[x] PROVE sent[x][i] # <<r, msg[r] + 1>>
    <3>1. ~Offered(r, msg[r] + 1, x) /\ ~At(r, msg[r] + 1, x)
      BY <2>1, RelayAssumption DEF Offered, At
    <3> QED
      BY <2>1, <3>1, NotYetSent DEF OneThreadInv
  <2>4. LastIfOpen'
    BY <2>1, <2>2, <2>3 DEF LastIfOpen, Message
  <2>5. SameOrder'
    BY <2>1 DEF SameOrder, OneThreadInv
  <2> QED
    BY <1>1, <2>4, <2>5 DEF OneThreadInv
<1>5. ASSUME NEW r \in Relays, SendStep(r) PROVE OneThreadInv'
  <2>1. /\ msg' = msg /\ InSend(r) /\ (pos[r] <= Udps => ~flush[r])
        /\ \A q \in Relays : InSend(q)' => InSend(q)
    <3>1. /\ pos \in [Relays -> 1..(Last + 1)] /\ Last \in Nat /\ Udps \in Nat
          /\ flush[r] => InSend(r) /\ pos[r] > Udps
      BY RelayAssumption DEF OneThreadInv, IInv, TypeOK, Sending, Last
    <3>2. msg' = msg /\ InSend(r)
      BY <1>5, <3>1 DEF SendStep, SendUdp, Produce, ProduceThrows, Flush
    <3>3. pos' = pos \/ pos' = [pos EXCEPT ![r] = @ + 1]
      BY <1>5 DEF SendStep, SendUdp, Produce, ProduceThrows, Flush, NextReceiver
    <3>4. \A q \in Relays : InSend(q)' => InSend(q)
      BY <3>1, <3>2, <3>3 DEF InSend
    <3> QED
      BY <3>1, <3>2, <3>4
  <2>2. \/ Take(r, pos[r]) /\ ~flush[r]
        \/ sent' = sent
    BY <1>5, <2>1 DEF SendStep, SendUdp, Produce, ProduceThrows, Flush, Refuse
  <2> QED
    BY <1>1, <2>1, <2>2, TakeInOrder, OrderStays DEF OneThreadInv
<1> QED
  BY <1>2, <1>3, <1>4, <1>5 DEF Next, RelayStep, OnRead, OnReadReturns, Session

\* Theorem: on one thread any two receivers agree on the order of the messages
\* of all relays.
THEOREM OneThreadOneOrder == ASSUME Threads = 1 PROVE Spec => []SameOrder
<1>1. Init => OneThreadInv
  <2> SUFFICES ASSUME Init PROVE OneThreadInv
    OBVIOUS
  <2>1. \A x \in Receivers : DOMAIN sent[x] = {}
    BY DEF Init
  <2>2. Alone
    BY DEF Init, Feed!Init, Alone
  <2> QED
    BY <2>1, <2>2, InitIInv DEF OneThreadInv, LastIfOpen, SameOrder
<1>2. OneThreadInv /\ [Next]_vars => OneThreadInv'
  BY NextOneThread
<1>3. OneThreadInv => SameOrder
  BY DEF OneThreadInv
<1> QED
  BY <1>1, <1>2, <1>3, PTL DEF Spec

-----------------------------------------------------------------------------
(***************************************************************************)
(* Proofs about the udp::Server behind the relays: it loses nothing, keeps *)
(* its buffer, and hands over the messages of each relay in order, for any *)
(* number of relays, receivers, threads, messages and size of its socket.  *)
(***************************************************************************)

(* Sequences.                                                               *)

\* Lemma: appending to the last of two sequences appends to both.
LEMMA AppendToLast ==
  ASSUME NEW S, NEW s \in Seq(S), NEW q \in Seq(S), NEW e \in S
  PROVE  s \o Append(q, e) = Append(s \o q, e)
<1>1. s \o q \in Seq(S) /\ Len(s \o q) = Len(s) + Len(q)
      /\ \A i \in 1..(Len(s) + Len(q)) : (s \o q)[i] = IF i <= Len(s) THEN s[i] ELSE q[i - Len(s)]
  BY ConcatProperties
<1>2. Append(q, e) \in Seq(S) /\ Len(Append(q, e)) = Len(q) + 1
      /\ (\A i \in 1..Len(q) : Append(q, e)[i] = q[i]) /\ Append(q, e)[Len(q) + 1] = e
  BY Appended
<1>3. s \o Append(q, e) \in Seq(S) /\ Len(s \o Append(q, e)) = Len(s) + Len(q) + 1
      /\ \A i \in 1..(Len(s) + Len(q) + 1) :
           (s \o Append(q, e))[i] = IF i <= Len(s) THEN s[i] ELSE Append(q, e)[i - Len(s)]
  BY <1>2, ConcatProperties, LenProperties
<1>4. Append(s \o q, e) \in Seq(S) /\ Len(Append(s \o q, e)) = Len(s) + Len(q) + 1
      /\ (\A i \in 1..(Len(s) + Len(q)) : Append(s \o q, e)[i] = (s \o q)[i])
      /\ Append(s \o q, e)[Len(s) + Len(q) + 1] = e
  BY <1>1, Appended
<1>5. ASSUME NEW i \in 1..(Len(s) + Len(q) + 1)
      PROVE  (s \o Append(q, e))[i] = Append(s \o q, e)[i]
  <2>1. Len(s) \in Nat /\ Len(q) \in Nat
    BY LenProperties
  <2>2. CASE i <= Len(s) + Len(q)
    BY <1>1, <1>2, <1>3, <1>4, <2>1, <2>2
  <2>3. CASE i = Len(s) + Len(q) + 1
    BY <1>2, <1>3, <1>4, <2>1, <2>3
  <2> QED
    BY <2>1, <2>2, <2>3
<1> QED
  BY <1>3, <1>4, <1>5, SeqEqual

\* Lemma: the head of a sequence, moved to the end of the one in front of it.
LEMMA HeadMoved ==
  ASSUME NEW S, NEW g \in Seq(S), NEW s \in Seq(S), s # <<>>
  PROVE  (g \o <<>>) \o s = (g \o <<Head(s)>>) \o Tail(s)
<1>1. Head(s) \in S /\ Tail(s) \in Seq(S) /\ s = <<Head(s)>> \o Tail(s)
  <2>1. Head(s) \in S /\ Tail(s) \in Seq(S)
    BY HeadTailProperties
  <2>2. Len(s) >= 1 /\ Len(s) \in Nat
    BY EmptySeq
  <2>3. SubSeq(s, 1, Len(s)) = <<s[1]>> \o SubSeq(s, 2, Len(s))
    BY <2>2, SubSeqRecursiveFirst
  <2>4. SubSeq(s, 1, Len(s)) = s /\ Tail(s) = SubSeq(s, 2, Len(s)) /\ Head(s) = s[1]
    BY SubSeqFull, TailIsSubSeq
  <2> QED
    BY <2>1, <2>3, <2>4
<1>2. <<Head(s)>> \in Seq(S)
  BY <1>1
<1>3. (g \o <<Head(s)>>) \o Tail(s) = g \o (<<Head(s)>> \o Tail(s))
  BY <1>1, <1>2, ConcatAssociative
<1>4. g \o <<>> = g
  BY ConcatEmptySeq
<1> QED
  BY <1>1, <1>3, <1>4

\* Lemma: Append adds a sequence of one.
LEMMA AddedAtEnd ==
  ASSUME NEW S, NEW g \in Seq(S), NEW e \in S
  PROVE  Append(g, e) \o <<>> = g \o <<e>>
<1>1. Append(g, e) \in Seq(S) /\ <<>> \in Seq(S) /\ <<e>> = Append(<<>>, e)
  BY Appended, EmptySeq
<1>2. g \o Append(<<>>, e) = Append(g \o <<>>, e)
  BY <1>1, AppendToLast
<1> QED
  BY <1>1, <1>2, ConcatEmptySeq

-----------------------------------------------------------------------------
(* The server.                                                              *)

\* A receive that is ready has put a datagram into the buffer.
Filled == receive = "ready" => buffer \in Msgs

ServerInv ==
  ServerTypeOK /\ Filled /\ BufferStable /\ NothingLost /\ NoUseAfterDestroy

LEMMA InitServer == Server!Init => ServerInv
<1> SUFFICES ASSUME Server!Init PROVE ServerInv
  OBVIOUS
<1>1. ServerTypeOK
  <2>1. <<>> \in Seq(Msgs) /\ Len(<<>>) = 0 /\ SocketLimit \in Nat
    BY EmptySeq, RelayUdpAssumption
  <2>2. Len(sock) <= SocketLimit
    BY <2>1 DEF Server!Init
  <2> QED
    BY <2>1, <2>2, Zenon DEF Server!Init, ServerTypeOK, Server!TypeOK, Server!NoDatagram
<1>2. Filled /\ BufferStable /\ NoUseAfterDestroy
  BY DEF Server!Init, Filled, BufferStable, Server!BufferStable, NoUseAfterDestroy, Server!NoUseAfterDestroy
<1>3. NothingLost
  <2>1. <<>> \in Seq(Msgs)
    BY EmptySeq
  <2>2. (<<>> \o <<>>) \o <<>> = <<>>
    BY <2>1, ConcatEmptySeq
  <2> QED
    BY <2>2 DEF Server!Init, NothingLost, Server!NothingLost, Server!InHand
<1> QED
  BY <1>1, <1>2, <1>3 DEF ServerInv

\* Lemma: a datagram that arrives is the last of those to be handled.
LEMMA ArriveServer == ASSUME ServerInv, NEW d \in Msgs, Server!Arrive(d) PROVE ServerInv'
<1> USE DEF Server!Arrive
<1>1. sock \in Seq(Msgs) /\ arrived \in Seq(Msgs) /\ given \in Seq(Msgs)
  BY DEF ServerInv, ServerTypeOK, Server!TypeOK
<1>2. sock' \in Seq(Msgs) /\ arrived' \in Seq(Msgs) /\ Len(sock') = Len(sock) + 1
  BY <1>1, Appended
<1>3. ServerTypeOK'
  BY <1>2, RelayUdpAssumption DEF ServerInv, ServerTypeOK, Server!TypeOK
<1>4. Filled' /\ BufferStable' /\ NoUseAfterDestroy'
  BY DEF ServerInv, Filled, BufferStable, Server!BufferStable, NoUseAfterDestroy, Server!NoUseAfterDestroy
<1>5. NothingLost'
  <2>1. Server!InHand \in Seq(Msgs) /\ Server!InHand' = Server!InHand
    BY EmptySeq DEF Server!InHand, ServerInv, Filled
  <2>2. given \o Server!InHand \in Seq(Msgs)
    BY <1>1, <2>1, ConcatProperties
  <2>3. (given \o Server!InHand) \o Append(sock, d) = Append((given \o Server!InHand) \o sock, d)
    BY <1>1, <2>2, AppendToLast
  <2> QED
    BY <2>1, <2>3 DEF ServerInv, NothingLost, Server!NothingLost
<1> QED
  BY <1>3, <1>4, <1>5 DEF ServerInv

\* Lemma: the loop moves datagrams from the socket to the buffer to func_.
LEMMA LoopServer == ASSUME ServerInv, Server!Loop PROVE ServerInv'
<1>1. /\ sock \in Seq(Msgs) /\ arrived \in Seq(Msgs) /\ given \in Seq(Msgs)
      /\ Len(sock) <= SocketLimit /\ buffer \in Msgs \cup {<<>>}
      /\ receive = "ready" => buffer \in Msgs
  BY DEF ServerInv, Filled, ServerTypeOK, Server!TypeOK, Server!NoDatagram
<1>2. CASE Server!Received
  <2>1. /\ receive = "armed" /\ receive' = "ready" /\ sock # <<>>
        /\ buffer' = Head(sock) /\ sock' = Tail(sock)
        /\ UNCHANGED <<serving, alive, broken, given, arrived>>
    BY <1>2 DEF Server!Received
  <2>2. /\ Head(sock) \in Msgs /\ Tail(sock) \in Seq(Msgs)
        /\ Len(Tail(sock)) = Len(sock) - 1 /\ Len(sock) \in Nat
    BY <1>1, <2>1, HeadTailProperties, LenProperties
  <2>3. ServerTypeOK'
    BY <1>1, <2>1, <2>2, RelayUdpAssumption DEF ServerInv, ServerTypeOK, Server!TypeOK
  <2>4. Filled' /\ BufferStable' /\ NoUseAfterDestroy'
    BY <1>2, <2>1, <2>2 DEF Server!Received, ServerInv, Filled, BufferStable,
       Server!BufferStable, NoUseAfterDestroy, Server!NoUseAfterDestroy
  <2>5. (given \o <<>>) \o sock = (given \o <<Head(sock)>>) \o Tail(sock)
    BY <1>1, <2>1, HeadMoved
  <2>6. NothingLost'
    BY <2>1, <2>5 DEF ServerInv, NothingLost, Server!NothingLost, Server!InHand
  <2> QED
    BY <2>3, <2>4, <2>6 DEF ServerInv
<1>3. CASE Server!Handle
  <2>1. /\ receive = "ready" /\ ~serving /\ receive' = "none" /\ serving'
        /\ given' = Append(given, buffer)
        /\ UNCHANGED <<sock, buffer, alive, broken, arrived>>
    BY <1>3 DEF Server!Handle
  <2>2. /\ given' \in Seq(Msgs) /\ Len(given') = Len(given) + 1 /\ Len(given) \in Nat
        /\ given'[Len(given) + 1] = buffer
    BY <1>1, <2>1, Appended
  <2>3. serving' \in BOOLEAN
    BY <1>3 DEF Server!Handle
  <2>4. ServerTypeOK'
    BY <1>1, <2>1, <2>2, <2>3 DEF ServerInv, ServerTypeOK, Server!TypeOK
  <2>5. Filled' /\ BufferStable'
    BY <2>1, <2>2 DEF Filled, BufferStable, Server!BufferStable
  <2>6. NoUseAfterDestroy'
    BY <2>1 DEF ServerInv, NoUseAfterDestroy, Server!NoUseAfterDestroy
  <2>7. Append(given, buffer) \o <<>> = given \o <<buffer>>
    BY <1>1, <2>1, AddedAtEnd
  <2>8. NothingLost'
    BY <2>1, <2>7 DEF ServerInv, NothingLost, Server!NothingLost, Server!InHand
  <2> QED
    BY <2>4, <2>5, <2>6, <2>8 DEF ServerInv
<1>4. CASE Server!HandleReturns
  BY <1>4 DEF Server!HandleReturns, Server!StartRecv, ServerInv, Filled, ServerTypeOK,
     Server!TypeOK, BufferStable, Server!BufferStable, NothingLost, Server!NothingLost,
     Server!InHand, NoUseAfterDestroy, Server!NoUseAfterDestroy
<1>5. CASE Server!HandleThrows
  BY <1>5 DEF Server!HandleThrows, ServerInv, Filled, ServerTypeOK,
     Server!TypeOK, BufferStable, Server!BufferStable, NothingLost, Server!NothingLost,
     Server!InHand, NoUseAfterDestroy, Server!NoUseAfterDestroy
<1>6. CASE Server!HandleError
  BY <1>6 DEF Server!HandleError, ServerInv, Filled, ServerTypeOK,
     Server!TypeOK, BufferStable, Server!BufferStable, NothingLost, Server!NothingLost,
     Server!InHand, NoUseAfterDestroy, Server!NoUseAfterDestroy
<1> QED
  BY <1>2, <1>3, <1>4, <1>5, <1>6 DEF Server!Loop

\* Lemma: an error and the destructor take nothing back.
LEMMA NextServer == ASSUME ServerInv, [Server!Next]_server PROVE ServerInv'
<1>1. ASSUME NEW d \in Msgs, Server!Arrive(d) PROVE ServerInv'
  BY <1>1, ArriveServer
<1>2. CASE Server!Fails
  BY <1>2 DEF Server!Fails, ServerInv, Filled, ServerTypeOK,
     Server!TypeOK, BufferStable, Server!BufferStable, NothingLost, Server!NothingLost,
     Server!InHand, NoUseAfterDestroy, Server!NoUseAfterDestroy
<1>3. CASE Server!Destroy
  <2>1. /\ ~serving /\ ~alive' /\ receive' \in {"none", "failed"} /\ sock' = <<>>
        /\ UNCHANGED <<buffer, serving, broken, given, arrived>>
    BY <1>3 DEF Server!Destroy
  <2>2. sock' \in Seq(Msgs) /\ Len(sock') = 0 /\ SocketLimit \in Nat
    BY <2>1, EmptySeq, RelayUdpAssumption
  <2>3. alive' \in BOOLEAN
    BY <1>3 DEF Server!Destroy
  <2>4. ServerTypeOK'
    BY <2>1, <2>2, <2>3 DEF ServerInv, ServerTypeOK, Server!TypeOK
  <2> QED
    BY <2>1, <2>4 DEF ServerInv, Filled, BufferStable, Server!BufferStable, NothingLost,
       Server!NothingLost, NoUseAfterDestroy, Server!NoUseAfterDestroy
<1>4. CASE UNCHANGED server
  BY <1>4 DEF server, ServerInv, Filled, ServerTypeOK,
     Server!TypeOK, BufferStable, Server!BufferStable, NothingLost, Server!NothingLost,
     Server!InHand, NoUseAfterDestroy, Server!NoUseAfterDestroy
<1> QED
  BY <1>1, <1>2, <1>3, <1>4, LoopServer DEF Server!Next

-----------------------------------------------------------------------------
(* The system.                                                              *)

\* The messages of a relay arrive in order, none twice.
ArrivedInOrder ==
  /\ \A i \in DOMAIN arrived : Offered(arrived[i][1], arrived[i][2], 1)
  /\ \A i, j \in DOMAIN arrived :
       i < j /\ arrived[i][1] = arrived[j][1] => arrived[i][2] < arrived[j][2]

\* What func_ was called with is what arrived first, also after the server is
\* gone.
FirstGiven ==
  Len(given) <= Len(arrived) /\ \A i \in DOMAIN given : given[i] = arrived[i]

SysInv == IInv /\ ServerInv /\ ArrivedInOrder /\ FirstGiven

\* Lemma: every step of the system is one of each part, or none.
LEMMA StepOfParts ==
  ASSUME IInv, [SystemNext]_allVars
  PROVE  [Next]_vars /\ [Server!Next]_server
<1>1. ASSUME NEW r \in Relays, SendDatagram(r) PROVE [Next]_vars /\ [Server!Next]_server
  <2>1. Next
    BY <1>1 DEF SendDatagram, SendStep, RelayStep, Next
  <2>2. Message(r) \in Msgs
    BY <1>1, MessageType DEF SendDatagram, SendUdp, IInv
  <2> QED
    BY <1>1, <2>1, <2>2 DEF SendDatagram, Carry, Server!Next
<1>2. ASSUME NEW r \in Relays, (Produce(r) \/ ProduceThrows(r) \/ Flush(r)) /\ UNCHANGED server
      PROVE  [Next]_vars /\ [Server!Next]_server
  BY <1>2 DEF SendStep, RelayStep, Next
<1>3. ASSUME NEW r \in Relays, Rest(r) PROVE [Next]_vars /\ [Server!Next]_server
  BY <1>3 DEF Rest, RelayStep, Next
<1>4. CASE Broker
  BY <1>4 DEF Broker, Next
<1>5. CASE ServerStep
  BY <1>5 DEF ServerStep, Server!Next
<1>6. CASE UNCHANGED allVars
  BY <1>6 DEF allVars
<1> QED
  BY <1>1, <1>2, <1>3, <1>4, <1>5, <1>6 DEF SystemNext, Send_

\* Lemma: what has been offered stays so.
LEMMA OfferedStays ==
  ASSUME IInv, [Next]_vars,
         NEW q \in Relays, NEW m \in 1..MaxMsg, NEW x \in Receivers, Offered(q, m, x)
  PROVE  Offered(q, m, x)'
<1>1. /\ pos \in [Relays -> Nat] /\ msg \in [Relays -> Nat] /\ m \in Nat /\ x \in Nat
  BY RelayAssumption DEF IInv, TypeOK, Last, Receivers
<1>2. ASSUME NEW r \in Relays, Send(r) PROVE Offered(q, m, x)'
  BY <1>1, <1>2 DEF Send, Offered
<1>3. ASSUME NEW r \in Relays, SendStep(r) PROVE Offered(q, m, x)'
  <2>1. UNCHANGED msg /\ (UNCHANGED pos \/ NextReceiver(r))
    BY <1>3 DEF SendStep, SendUdp, Produce, ProduceThrows, Flush
  <2> QED
    BY <1>1, <2>1 DEF Offered, NextReceiver
<1>4. ASSUME UNCHANGED <<msg, pos>> PROVE Offered(q, m, x)'
  BY <1>4 DEF Offered
<1>5. ASSUME NEW r \in Relays, OnRead(r) \/ OnReadReturns(r) \/ Session(r)
      PROVE  UNCHANGED <<msg, pos>>
  BY <1>5 DEF OnRead, OnReadReturns, Session, relayVars
<1>6. ASSUME NEW y \in Kafkas, Settle(y) PROVE UNCHANGED <<msg, pos>>
  BY <1>6 DEF Settle
<1>7. CASE UNCHANGED vars
  BY <1>4, <1>7 DEF vars
<1> QED
  BY <1>2, <1>3, <1>4, <1>5, <1>6, <1>7 DEF Next, RelayStep

\* Lemma: a datagram that arrives is newer than all that came of its relay.
LEMMA ArrivesInOrder ==
  ASSUME SysInv, NEW r \in Relays, SendDatagram(r), Server!Arrive(Message(r)), Goes(r)
  PROVE  ArrivedInOrder'
<1>1. /\ arrived \in Seq(Msgs) /\ arrived' = Append(arrived, Message(r))
      /\ Message(r) \in Msgs /\ Message(r) = <<r, msg[r]>> /\ msg[r] \in 1..MaxMsg
  <2>1. arrived \in Seq(Msgs) /\ arrived' = Append(arrived, Message(r))
    BY DEF SysInv, ServerInv, ServerTypeOK, Server!TypeOK, Server!Arrive
  <2>2. Message(r) \in Msgs /\ msg[r] \in 1..MaxMsg
    <3>1. TypeOK /\ Sending(r) /\ InSend(r)
      BY DEF SendDatagram, SendUdp, SysInv, IInv
    <3> QED
      BY <3>1, MessageType, RelayAssumption DEF TypeOK, Sending
  <2> QED
    BY <2>1, <2>2 DEF Message
<1>2. /\ Len(arrived) \in Nat /\ DOMAIN arrived = 1..Len(arrived)
      /\ DOMAIN arrived' = 1..(Len(arrived) + 1)
      /\ \A i \in 1..Len(arrived) : arrived'[i] = arrived[i] /\ arrived[i] \in Msgs
      /\ arrived'[Len(arrived) + 1] = <<r, msg[r]>>
  BY <1>1, Appended
<1>3. \A i \in 1..Len(arrived) :
        /\ arrived[i][1] \in Relays /\ arrived[i][2] \in 1..MaxMsg
        /\ Offered(arrived[i][1], arrived[i][2], 1)
  BY <1>2 DEF Msgs, SysInv, ArrivedInOrder
<1>4. msg' = msg /\ pos' = [pos EXCEPT ![r] = @ + 1] /\ pos[r] = 1 /\ pos \in [Relays -> Nat]
  BY RelayAssumption DEF SendDatagram, SendUdp, NextReceiver, Goes, SysInv, IInv, TypeOK, Last
<1>5. \A i \in 1..Len(arrived) : arrived[i][1] = r => arrived[i][2] < msg[r]
  BY <1>3, <1>4 DEF Offered
<1>6. ASSUME NEW i \in DOMAIN arrived' PROVE Offered(arrived[i][1], arrived[i][2], 1)'
  <2>1. CASE i \in 1..Len(arrived)
    <3>1. Offered(arrived[i][1], arrived[i][2], 1) /\ arrived[i][1] \in Relays
      BY <1>3, <2>1
    <3>2. arrived'[i] = arrived[i]
      BY <1>2, <2>1
    <3> QED
      BY <1>4, <3>1, <3>2 DEF Offered
  <2>2. CASE i = Len(arrived) + 1
    <3>1. arrived'[i][1] = r /\ arrived'[i][2] = msg[r]
      BY <1>2, <2>2
    <3> QED
      BY <1>4, <3>1 DEF Offered
  <2> QED
    BY <1>2, <2>1, <2>2
<1>7. ASSUME NEW i \in 1..(Len(arrived) + 1), NEW j \in 1..(Len(arrived) + 1), i < j,
             arrived'[i][1] = arrived'[j][1]
       PROVE  arrived'[i][2] < arrived'[j][2]
  <2>1. i \in 1..Len(arrived)
    BY <1>2, <1>7
  <2>2. CASE j \in 1..Len(arrived)
    BY <1>2, <1>7, <2>1, <2>2 DEF SysInv, ArrivedInOrder
  <2>3. CASE j = Len(arrived) + 1
    BY <1>2, <1>5, <1>7, <2>1, <2>3
  <2> QED
    BY <1>2, <2>2, <2>3
<1> QED
  BY <1>2, <1>6, <1>7 DEF ArrivedInOrder

\* Lemma: so the server keeps them in order, whoever takes the step.
LEMMA StaysInOrder ==
  ASSUME SysInv, [SystemNext]_allVars
  PROVE  ArrivedInOrder'
<1>1. [Next]_vars
  BY StepOfParts DEF SysInv
<1>2. 1 \in Receivers
  BY RelayAssumption, RelayUdpAssumption DEF Receivers, Last
<1>3. CASE UNCHANGED arrived
  <2>1. ASSUME NEW i \in DOMAIN arrived PROVE Offered(arrived[i][1], arrived[i][2], 1)'
    <3>1. arrived[i] \in Msgs /\ Offered(arrived[i][1], arrived[i][2], 1)
      BY DEF SysInv, ArrivedInOrder, ServerInv, ServerTypeOK, Server!TypeOK
    <3>2. arrived[i][1] \in Relays /\ arrived[i][2] \in 1..MaxMsg
      BY <3>1 DEF Msgs
    <3> DEFINE q == arrived[i][1]
               m == arrived[i][2]
    <3>3. q' = q /\ m' = m
      BY <1>3
    <3>4. q \in Relays /\ m \in 1..MaxMsg /\ Offered(q, m, 1)
      BY <3>1, <3>2
    <3> HIDE DEF q, m
    <3>5. m < msg'[q] \/ (m = msg'[q] /\ 1 < pos'[q])
      BY <1>1, <1>2, <3>4, OfferedStays DEF SysInv, Offered
    <3> QED
      BY <3>3, <3>5 DEF Offered, q, m
  <2> QED
    BY <1>3, <2>1 DEF SysInv, ArrivedInOrder
<1>4. CASE ~UNCHANGED arrived
  <2>1. PICK r \in Relays : SendDatagram(r) /\ ~UNCHANGED server
    BY <1>4 DEF SystemNext, Send_, Rest, Broker, ServerStep, server, allVars, Server!Loop,
       Server!Fails, Server!Destroy, Server!Received, Server!Handle, Server!HandleReturns,
       Server!HandleThrows, Server!HandleError
  <2> QED
    BY <2>1, ArrivesInOrder DEF SendDatagram, Carry
<1> QED
  BY <1>3, <1>4

\* Lemma: while the server is there, nothing lost means the first are given.
LEMMA GivenIsFront ==
  ASSUME ServerInv, alive
  PROVE  FirstGiven
<1>1. given \in Seq(Msgs) /\ sock \in Seq(Msgs) /\ Server!InHand \in Seq(Msgs)
  BY EmptySeq DEF ServerInv, Filled, ServerTypeOK, Server!TypeOK, Server!InHand
<1>2. (given \o Server!InHand) \o sock = given \o (Server!InHand \o sock)
      /\ Server!InHand \o sock \in Seq(Msgs)
  BY <1>1, ConcatAssociative, ConcatProperties
<1>3. arrived = given \o (Server!InHand \o sock)
  BY <1>2 DEF ServerInv, NothingLost, Server!NothingLost
<1> DEFINE rest == Server!InHand \o sock
<1>4. rest \in Seq(Msgs) /\ arrived = given \o rest
  BY <1>2, <1>3
<1> HIDE DEF rest
<1>5. /\ Len(arrived) = Len(given) + Len(rest) /\ Len(given) \in Nat /\ Len(rest) \in Nat
      /\ DOMAIN given = 1..Len(given)
      /\ \A i \in 1..(Len(given) + Len(rest)) :
           arrived[i] = IF i <= Len(given) THEN given[i] ELSE rest[i - Len(given)]
  BY <1>1, <1>4, ConcatProperties, LenProperties
<1> QED
  BY <1>5 DEF FirstGiven

LEMMA NextSysInv == ASSUME SysInv, [SystemNext]_allVars PROVE SysInv'
<1>1. [Next]_vars /\ [Server!Next]_server
  BY StepOfParts DEF SysInv
<1>2. IInv'
  BY <1>1, NextIInv DEF SysInv
<1>3. ServerInv'
  BY <1>1, NextServer DEF SysInv
<1>4. ArrivedInOrder'
  BY StaysInOrder
<1>5. FirstGiven'
  <2>1. CASE alive'
    <3>1. (ServerInv /\ alive => FirstGiven)'
      BY GivenIsFront, PTL
    <3> QED
      BY <1>3, <2>1, <3>1
  <2>2. CASE ~alive'
    <3>1. UNCHANGED <<given, arrived>>
      BY <1>1, <2>2 DEF Server!Next, Server!Arrive, Server!Loop, Server!Fails, Server!Destroy,
         Server!Received, Server!Handle, Server!HandleReturns, Server!HandleThrows,
         Server!HandleError, server, SysInv, ServerInv, NoUseAfterDestroy,
         Server!NoUseAfterDestroy
    <3> QED
      BY <3>1 DEF SysInv, FirstGiven
  <2> QED
    BY <2>1, <2>2
<1> QED
  BY <1>2, <1>3, <1>4, <1>5 DEF SysInv

LEMMA InitSysInv == SystemInit => SysInv
<1> SUFFICES ASSUME SystemInit PROVE SysInv
  OBVIOUS
<1>1. IInv /\ ServerInv
  BY InitIInv, InitServer DEF SystemInit
<1>2. given = <<>> /\ arrived = <<>>
  BY DEF SystemInit, Server!Init
<1> QED
  BY <1>1, <1>2 DEF SysInv, ArrivedInOrder, FirstGiven

LEMMA AlwaysSysInv == SystemSpec => []SysInv
<1>1. SysInv /\ [SystemNext]_allVars => SysInv'
  BY NextSysInv
<1> QED
  BY <1>1, InitSysInv, PTL DEF SystemSpec

-----------------------------------------------------------------------------
\* Theorem: the composed system is one of relays and one of a server, so that
\* what is proved of the relays alone holds here.
THEOREM PartsAsSpecified == SystemSpec => Spec /\ Server!Spec
<1>1. SystemInit => Init /\ Server!Init
  BY DEF SystemInit
<1>2. SysInv /\ [SystemNext]_allVars => [Next]_vars /\ [Server!Next]_server
  BY StepOfParts DEF SysInv
<1>3. SysInv /\ [SystemNext]_allVars => [Server!Next]_(Server!vars)
  BY <1>2 DEF server, Server!vars
<1> QED
  BY <1>1, <1>2, <1>3, AlwaysSysInv, PTL DEF SystemSpec, Spec, Server!Spec

\* Theorem: the server keeps its types, and the socket its limit.
THEOREM ServerTypeCorrect == SystemSpec => []ServerTypeOK
<1>1. SysInv => ServerTypeOK
  BY DEF SysInv, ServerInv
<1> QED
  BY <1>1, AlwaysSysInv, PTL

\* Theorem: no receive overwrites the buffer that func_ is looking at.
THEOREM BufferUntouched == SystemSpec => []BufferStable
<1>1. SysInv => BufferStable
  BY DEF SysInv, ServerInv
<1> QED
  BY <1>1, AlwaysSysInv, PTL

\* Theorem: what the socket has accepted is given to func_, in order and once, or
\* still waits, as long as the server is there.
THEOREM LosesNothing == SystemSpec => []NothingLost
<1>1. SysInv => NothingLost
  BY DEF SysInv, ServerInv
<1> QED
  BY <1>1, AlwaysSysInv, PTL

\* Theorem: a destroyed server calls nobody, though its receive is still aborted.
THEOREM QuietWhenDestroyed == SystemSpec => []NoUseAfterDestroy
<1>1. SysInv => NoUseAfterDestroy
  BY DEF SysInv, ServerInv
<1> QED
  BY <1>1, AlwaysSysInv, PTL

\* Theorem: func_ is called with the messages of each relay in the order in which
\* they were read, none twice, for any number of threads that relay.
ServedInOrder ==
  \A i, j \in DOMAIN given :
    i < j /\ given[i][1] = given[j][1] => given[i][2] < given[j][2]

THEOREM EndToEndOrder == SystemSpec => []ServedInOrder
<1>1. SysInv => ServedInOrder
  <2> SUFFICES ASSUME SysInv, NEW i \in DOMAIN given, NEW j \in DOMAIN given,
                      i < j, given[i][1] = given[j][1]
               PROVE  given[i][2] < given[j][2]
    BY DEF ServedInOrder
  <2>1. given \in Seq(Msgs) /\ arrived \in Seq(Msgs)
    BY DEF SysInv, ServerInv, ServerTypeOK, Server!TypeOK
  <2>2. i \in DOMAIN arrived /\ j \in DOMAIN arrived
    BY <2>1, LenProperties DEF SysInv, FirstGiven
  <2>3. given[i] = arrived[i] /\ given[j] = arrived[j]
    BY DEF SysInv, FirstGiven
  <2> QED
    BY <2>2, <2>3 DEF SysInv, ArrivedInOrder
<1> QED
  BY <1>1, AlwaysSysInv, PTL

-----------------------------------------------------------------------------
(* From the first receiver's sends to func_.                                *)

\* Lemma: a history stays part of another that gains a new message.
LEMMA PartOfLonger ==
  ASSUME NEW S, NEW s \in Seq(S), NEW t \in Seq(S), NEW e \in S, PartOf(s, t),
         \A k \in DOMAIN t : t[k] # e
  PROVE  PartOf(s, Append(t, e))
<1> DEFINE u == Append(t, e)
<1>1. /\ Len(t) \in Nat /\ DOMAIN t = 1..Len(t) /\ DOMAIN u = 1..(Len(t) + 1)
      /\ \A k \in 1..Len(t) : u[k] = t[k]
      /\ u[Len(t) + 1] = e
  BY Appended
<1>2. \A k \in DOMAIN u : k \in DOMAIN t \/ k = Len(t) + 1
  BY <1>1
<1>3. \A i \in DOMAIN s : \E k \in DOMAIN t : s[i] = t[k]
  BY DEF PartOf
<1> HIDE DEF u
<1>4. ASSUME NEW i \in DOMAIN s PROVE \E k \in DOMAIN u : s[i] = u[k]
  <2>1. PICK k \in DOMAIN t : s[i] = t[k]
    BY <1>3
  <2>2. k \in DOMAIN u /\ u[k] = t[k]
    BY <1>1, <2>1
  <2> QED
    BY <2>1, <2>2
<1>5. ASSUME NEW i \in DOMAIN s, NEW k \in DOMAIN u, s[i] = u[k]
      PROVE  k \in DOMAIN t /\ t[k] = s[i]
  <2>1. s[i] # e
    BY <1>3
  <2>2. k \in DOMAIN t
    BY <1>1, <1>2, <1>5, <2>1
  <2> QED
    BY <1>1, <1>5, <2>2
<1>6. Agree(s, u)
  <2> SUFFICES ASSUME NEW i \in DOMAIN s, NEW j \in DOMAIN s,
                      NEW k \in DOMAIN u, NEW l \in DOMAIN u,
                      s[i] = u[k], s[j] = u[l], i < j
               PROVE  k < l
    BY DEF Agree
  <2>1. k \in DOMAIN t /\ t[k] = s[i] /\ l \in DOMAIN t /\ t[l] = s[j]
    BY <1>5
  <2> QED
    BY <2>1 DEF PartOf, Agree
<1>7. PartOf(s, u)
  BY <1>4, <1>6 DEF PartOf
<1> QED
  BY <1>7 DEF u

\* Lemma: and when both gain it.
LEMMA BothLonger ==
  ASSUME NEW S, NEW s \in Seq(S), NEW t \in Seq(S), NEW e \in S, PartOf(s, t),
         \A k \in DOMAIN t : t[k] # e
  PROVE  PartOf(Append(s, e), Append(t, e))
<1> DEFINE v == Append(s, e)
           u == Append(t, e)
<1>1. /\ Len(t) \in Nat /\ DOMAIN t = 1..Len(t) /\ DOMAIN u = 1..(Len(t) + 1)
      /\ \A k \in 1..Len(t) : u[k] = t[k]
      /\ u[Len(t) + 1] = e
  BY Appended
<1>2. /\ Len(s) \in Nat /\ DOMAIN s = 1..Len(s) /\ DOMAIN v = 1..(Len(s) + 1)
      /\ \A k \in 1..Len(s) : v[k] = s[k]
      /\ v[Len(s) + 1] = e
  BY Appended
<1>3. \A i \in DOMAIN s : s[i] # e
  BY DEF PartOf
<1>4. PartOf(s, u)
  BY PartOfLonger
<1> HIDE DEF u, v
<1>5. \A i \in DOMAIN v : i \in DOMAIN s \/ i = Len(s) + 1
  BY <1>2
<1>6. \A k \in DOMAIN u : u[k] = e => k = Len(t) + 1
  BY <1>1
<1>7. ASSUME NEW i \in DOMAIN v PROVE \E k \in DOMAIN u : v[i] = u[k]
  <2>1. CASE i \in DOMAIN s
    BY <1>2, <1>4, <2>1 DEF PartOf
  <2>2. CASE i = Len(s) + 1
    <3>1. Len(t) + 1 \in DOMAIN u
      BY <1>1
    <3> QED
      BY <1>1, <1>2, <2>2, <3>1
  <2> QED
    BY <1>5, <2>1, <2>2
<1>8. Agree(v, u)
  <2> SUFFICES ASSUME NEW i \in DOMAIN v, NEW j \in DOMAIN v,
                      NEW k \in DOMAIN u, NEW l \in DOMAIN u,
                      v[i] = u[k], v[j] = u[l], i < j
               PROVE  k < l
    BY DEF Agree
  <2>1. i \in DOMAIN s /\ v[i] = s[i]
    BY <1>2
  <2>2. CASE j \in DOMAIN s
    <3>1. v[j] = s[j]
      BY <1>2, <2>2
    <3> QED
      BY <1>4, <2>1, <2>2, <3>1 DEF PartOf, Agree
  <2>3. CASE j = Len(s) + 1
    <3>1. l = Len(t) + 1
      BY <1>2, <1>6, <2>3
    <3>2. k # Len(t) + 1
      BY <1>1, <1>3, <2>1
    <3> QED
      BY <1>1, <3>1, <3>2
  <2> QED
    BY <1>5, <2>2, <2>3
<1>9. PartOf(v, u)
  BY <1>7, <1>8 DEF PartOf
<1> QED
  BY <1>9 DEF u, v

\* What has arrived is part of what the first receiver took: a datagram that the
\* network drops leaves a gap, and no more.
ArrivedAsSent == PartOf(arrived, sent[1])

\* Lemma: what a receiver takes is a message it did not have.
LEMMA TakesNew ==
  ASSUME IInv, [Next]_vars, NEW x \in Receivers
  PROVE  \/ sent'[x] = sent[x]
         \/ \E r \in Relays :
              /\ InSend(r) /\ pos[r] = x /\ Message(r) \in Msgs
              /\ sent'[x] = Append(sent[x], Message(r))
              /\ \A i \in DOMAIN sent[x] : sent[x][i] # Message(r)
<1>1. CASE UNCHANGED vars \/ \E y \in Kafkas : Settle(y)
  BY <1>1 DEF vars, Settle
<1>2. ASSUME NEW r \in Relays, OnRead(r) \/ OnReadReturns(r) \/ Send(r) \/ Session(r)
      PROVE  sent' = sent
  BY <1>2 DEF OnRead, OnReadReturns, Send, Session, relayVars
<1>3. ASSUME NEW r \in Relays, SendStep(r), sent'[x] # sent[x]
      PROVE  /\ InSend(r) /\ pos[r] = x /\ Message(r) \in Msgs
             /\ sent'[x] = Append(sent[x], Message(r))
             /\ \A i \in DOMAIN sent[x] : sent[x][i] # Message(r)
  <2>1. Take(r, pos[r]) /\ (pos[r] > Udps => ~flush[r])
    <3>1. SendUdp(r) \/ Produce(r)
      BY <1>3 DEF SendStep, ProduceThrows, Flush, Refuse
    <3>2. CASE SendUdp(r)
      <4>1. Take(r, pos[r]) /\ pos[r] <= Udps
        BY <1>3, <3>2 DEF SendUdp, Refuse
      <4>2. pos[r] \in Nat /\ Udps \in Nat
        BY RelayAssumption DEF IInv, TypeOK, Last
      <4> QED
        BY <4>1, <4>2
    <3>3. CASE Produce(r)
      BY <3>3 DEF Produce
    <3> QED
      BY <3>1, <3>2, <3>3
  <2>2. InSend(r)
    BY <1>3 DEF SendStep, SendUdp, Produce, ProduceThrows, Flush, IInv, Sending
  <2>3. pos[r] = x /\ sent'[x] = Append(sent[x], Message(r))
    BY <1>3, <2>1 DEF Take, IInv, TypeOK
  <2>4. ~flush[r]
    BY <2>1 DEF IInv, Sending
  <2>5. Message(r) = <<r, msg[r]>> /\ Message(r) \in Msgs /\ msg[r] \in 1..MaxMsg
    <3>1. TypeOK /\ Sending(r)
      BY DEF IInv
    <3>2. Message(r) \in Msgs
      BY <2>2, <3>1, MessageType
    <3>3. msg[r] \in 1..MaxMsg
      BY <2>2, <3>1, RelayAssumption DEF Sending, TypeOK
    <3> QED
      BY <3>2, <3>3 DEF Message
  <2>6. ~Offered(r, msg[r], x) /\ ~At(r, msg[r], x)
    BY <2>3, <2>4, RelayAssumption DEF Offered, At, IInv, TypeOK, Last
  <2> QED
    BY <2>2, <2>3, <2>5, <2>6, NotYetSent
<1> QED
  BY <1>1, <1>2, <1>3 DEF Next, RelayStep

LEMMA Grown ==
  ASSUME NEW s, NEW t, arrived' = s, sent'[1] = t, PartOf(s, t)
  PROVE  ArrivedAsSent'
BY DEF ArrivedAsSent, PartOf, Agree

\* Lemma: every step of the system keeps the arrived part of the sent.
LEMMA NextArrivedAsSent ==
  ASSUME SysInv, ArrivedAsSent, [SystemNext]_allVars
  PROVE  ArrivedAsSent'
<1>1. [Next]_vars /\ IInv /\ 1 \in Receivers
  BY StepOfParts, RelayAssumption, RelayUdpAssumption DEF SysInv, Receivers, Last
<1>2. arrived \in Seq(Msgs) /\ sent[1] \in Seq(Msgs)
  BY <1>1 DEF SysInv, IInv, TypeOK, ServerInv, ServerTypeOK, Server!TypeOK
<1>3. CASE UNCHANGED arrived
  <2>1. CASE sent'[1] = sent[1]
    BY <1>3, <2>1 DEF ArrivedAsSent, PartOf, Agree
  <2>2. CASE sent'[1] # sent[1]
    <3>1. PICK r \in Relays :
            /\ Message(r) \in Msgs /\ sent'[1] = Append(sent[1], Message(r))
            /\ \A i \in DOMAIN sent[1] : sent[1][i] # Message(r)
      BY <1>1, <2>2, TakesNew
    <3>2. PartOf(arrived, Append(sent[1], Message(r)))
      BY <1>2, <3>1, PartOfLonger DEF ArrivedAsSent
    <3> QED
      BY <1>3, <3>1, <3>2, Grown
  <2> QED
    BY <2>1, <2>2
<1>4. CASE ~UNCHANGED arrived
  <2>1. PICK r \in Relays : SendDatagram(r) /\ ~UNCHANGED server
    BY <1>4 DEF SystemNext, Send_, Rest, Broker, ServerStep, server, allVars, Server!Loop,
       Server!Fails, Server!Destroy, Server!Received, Server!Handle, Server!HandleReturns,
       Server!HandleThrows, Server!HandleError
  <2>2. Goes(r) /\ Server!Arrive(Message(r))
    BY <2>1 DEF SendDatagram, Carry
  <2>3. arrived' = Append(arrived, Message(r))
    BY <2>2 DEF Server!Arrive
  <2>4. /\ Message(r) \in Msgs /\ sent'[1] = Append(sent[1], Message(r))
        /\ \A i \in DOMAIN sent[1] : sent[1][i] # Message(r)
    <3>1. SendUdp(r) /\ pos[r] = 1 /\ sent'[1] # sent[1]
      BY <2>1, <2>2 DEF SendDatagram, Goes
    <3>2. Take(r, 1)
      BY <3>1 DEF SendUdp, Refuse
    <3>3. sent'[1] = Append(sent[1], Message(r))
      BY <1>1, <3>2 DEF Take, IInv, TypeOK
    <3>4. Message(r) = <<r, msg[r]>> /\ Message(r) \in Msgs /\ msg[r] \in 1..MaxMsg
      <4>1. TypeOK /\ Sending(r) /\ InSend(r)
        BY <1>1, <3>1 DEF SendUdp, IInv
      <4>2. Message(r) \in Msgs
        BY <4>1, MessageType
      <4>3. msg[r] \in 1..MaxMsg
        BY <4>1, RelayAssumption DEF Sending, TypeOK
      <4> QED
        BY <4>2, <4>3 DEF Message
    <3>5. ~Offered(r, msg[r], 1) /\ ~At(r, msg[r], 1)
      BY <1>1, <3>1, RelayAssumption, RelayUdpAssumption
      DEF Offered, At, IInv, Sending, TypeOK, Last
    <3> QED
      BY <1>1, <3>3, <3>4, <3>5, NotYetSent
  <2>5. PartOf(Append(arrived, Message(r)), Append(sent[1], Message(r)))
    BY <1>2, <2>4, BothLonger DEF ArrivedAsSent
  <2> QED
    BY <2>3, <2>4, <2>5, Grown
<1> QED
  BY <1>3, <1>4

LEMMA AlwaysArrivedAsSent == SystemSpec => [](SysInv /\ ArrivedAsSent)
<1>1. SystemInit => ArrivedAsSent
  BY DEF SystemInit, Server!Init, ArrivedAsSent, PartOf, Agree
<1>2. SysInv /\ ArrivedAsSent /\ [SystemNext]_allVars => ArrivedAsSent'
  BY NextArrivedAsSent
<1> QED
  BY <1>1, <1>2, AlwaysSysInv, PTL DEF SystemSpec

\* Lemma: what func_ was called with is the front of what arrived.
LEMMA GivenPart == ASSUME SysInv, ArrivedAsSent PROVE GivenAsSent
<1>1. /\ DOMAIN given \subseteq DOMAIN arrived
      /\ \A i \in DOMAIN given : given[i] = arrived[i]
  <2>1. given \in Seq(Msgs) /\ arrived \in Seq(Msgs)
    BY DEF SysInv, ServerInv, ServerTypeOK, Server!TypeOK
  <2> QED
    BY <2>1, LenProperties DEF SysInv, FirstGiven
<1> QED
  BY <1>1 DEF ArrivedAsSent, GivenAsSent, PartOf, Agree

\* Theorem: func_ of the other program is called with nothing but what the first
\* receiver has taken, and in the order in which it took it, whatever the number of
\* threads, sessions and receivers.
THEOREM GivenWasSent == SystemSpec => []GivenAsSent
<1>1. SysInv /\ ArrivedAsSent => GivenAsSent
  BY GivenPart
<1> QED
  BY <1>1, AlwaysArrivedAsSent, PTL

\* Theorem: end to end on one thread, all receivers and func_ agree on the order of
\* all messages of all relays.
THEOREM OneThreadEndToEnd == ASSUME Threads = 1 PROVE SystemSpec => []OneOrder
<1>1. ASSUME SysInv, SameOrder, GivenAsSent PROVE OneOrder
  <2>1. 1 \in Receivers
    BY RelayAssumption, RelayUdpAssumption DEF Receivers, Last
  <2>2. /\ DOMAIN given \subseteq Nat
        /\ \A x \in Receivers : DOMAIN sent[x] \subseteq Nat
    <3>1. given \in Seq(Msgs) /\ \A x \in Receivers : sent[x] \in Seq(Msgs)
      BY <1>1 DEF SysInv, IInv, TypeOK, ServerInv, ServerTypeOK, Server!TypeOK
    <3> QED
      BY <3>1
  <2>3. ASSUME NEW x \in Receivers, NEW y \in Receivers PROVE Agree(sent[x], sent[y])
    BY <1>1 DEF SameOrder, Agree
  \* Two calls of func_ stand in the first receiver's order, hence in any.
  <2>4. ASSUME NEW x \in Receivers PROVE Agree(given, sent[x])
    <3> SUFFICES ASSUME NEW i \in DOMAIN given, NEW j \in DOMAIN given,
                        NEW k \in DOMAIN sent[x], NEW l \in DOMAIN sent[x],
                        given[i] = sent[x][k], given[j] = sent[x][l], i < j
                 PROVE  k < l
      BY DEF Agree
    <3>1. PICK a \in DOMAIN sent[1] : given[i] = sent[1][a]
      BY <1>1 DEF GivenAsSent, PartOf
    <3>2. PICK b \in DOMAIN sent[1] : given[j] = sent[1][b]
      BY <1>1 DEF GivenAsSent, PartOf
    <3>3. a < b
      BY <1>1, <3>1, <3>2 DEF GivenAsSent, PartOf, Agree
    <3>4. Agree(sent[1], sent[x])
      BY <2>1, <2>3
    <3>5. sent[1][a] = sent[x][k] /\ sent[1][b] = sent[x][l]
      BY <3>1, <3>2
    <3> QED
      BY <3>3, <3>4, <3>5 DEF Agree
  \* Two messages the other way round at func_ would be so at the receiver.
  <2>5. ASSUME NEW x \in Receivers PROVE Agree(sent[x], given)
    <3> SUFFICES ASSUME NEW k \in DOMAIN sent[x], NEW l \in DOMAIN sent[x],
                        NEW i \in DOMAIN given, NEW j \in DOMAIN given,
                        sent[x][k] = given[i], sent[x][l] = given[j], k < l
                 PROVE  i < j
      BY DEF Agree
    <3>1. i \in Nat /\ j \in Nat /\ k \in Nat /\ l \in Nat
      BY <2>2
    <3>2. ~(j < i)
      BY <2>4, <3>1 DEF Agree
    <3>3. i # j
      <4>1. SUFFICES ASSUME i = j PROVE FALSE
        OBVIOUS
      <4>2. sent[x][k] = sent[x][l] /\ sent[x][l] = sent[x][k]
        BY <4>1
      <4> QED
        BY <2>3, <3>1, <4>2 DEF Agree
    <3> QED
      BY <3>1, <3>2, <3>3
  <2>6. Agree(given, given)
    <3> SUFFICES ASSUME NEW i \in DOMAIN given, NEW j \in DOMAIN given,
                        NEW k \in DOMAIN given, NEW l \in DOMAIN given,
                        given[i] = given[k], given[j] = given[l], i < j
                 PROVE  k < l
      BY DEF Agree
    <3>1. PICK a \in DOMAIN sent[1] : given[i] = sent[1][a]
      BY <1>1 DEF GivenAsSent, PartOf
    <3>2. PICK b \in DOMAIN sent[1] : given[j] = sent[1][b]
      BY <1>1 DEF GivenAsSent, PartOf
    <3>3. a < b
      BY <1>1, <3>1, <3>2 DEF GivenAsSent, PartOf, Agree
    <3>4. Agree(sent[1], given)
      BY <2>1, <2>5
    <3>5. sent[1][a] = given[k] /\ sent[1][b] = given[l]
      BY <3>1, <3>2
    <3> QED
      BY <3>3, <3>4, <3>5 DEF Agree
  <2> QED
    BY <2>3, <2>4, <2>5, <2>6 DEF OneOrder, Histories
<1>2. SysInv /\ ArrivedAsSent /\ SameOrder => OneOrder
  BY <1>1, GivenPart
<1> QED
  BY <1>2, PartsAsSpecified, OneThreadOneOrder, AlwaysArrivedAsSent, PTL
=============================================================================
