------------------------------ MODULE RelayUdp ------------------------------
(***************************************************************************)
(* The relays of module Relay and, behind their first receiver, the        *)
(* udp::Server of module UdpServer in another process of the same host:    *)
(* what a session reads comes to the func_ of another program.             *)
(*                                                                         *)
(* The network is that of one host: a datagram that send_to takes is in    *)
(* the server's socket at once, or is dropped.  It is neither reordered    *)
(* nor duplicated, which a wider network might do.                         *)
(***************************************************************************)
EXTENDS Relay

CONSTANT SocketLimit  \* datagrams the receive buffer of the socket holds

ASSUME RelayUdpAssumption == Udps > 0 /\ SocketLimit \in Nat

VARIABLES sock, receive, buffer, serving, alive, broken, given, arrived

server == <<sock, receive, buffer, serving, alive, broken, given, arrived>>
allVars == <<vars, server>>

Server == INSTANCE UdpServer WITH Datagrams <- Msgs, busy <- serving

SystemInit == Init /\ Server!Init

\* A datagram that the sending socket has taken arrives, or does not.
Carry(d) == Server!Arrive(d) \/ UNCHANGED server

Goes(r) == pos[r] = 1 /\ sent'[1] # sent[1]
SendDatagram(r) ==
  /\ SendUdp(r)
  /\ IF Goes(r) THEN Carry(Message(r)) ELSE UNCHANGED server

Send_(r) ==
  \/ SendDatagram(r)
  \/ (Produce(r) \/ ProduceThrows(r) \/ Flush(r)) /\ UNCHANGED server

Rest(r) ==
  /\ OnRead(r) \/ OnReadReturns(r) \/ Send(r) \/ Session(r)
  /\ UNCHANGED server

Broker == (\E x \in Kafkas : Settle(x)) /\ UNCHANGED server

ServerStep == (Server!Loop \/ Server!Fails \/ Server!Destroy) /\ UNCHANGED vars

SystemNext == (\E r \in Relays : Send_(r) \/ Rest(r)) \/ Broker \/ ServerStep

SystemSpec == SystemInit /\ [][SystemNext]_allVars

\* As in the two modules: a thread in Send goes on, and the server's io_context
\* is run.
SystemFairSpec ==
  /\ SystemSpec
  /\ \A r \in Relays : WF_allVars(Send_(r))
  /\ WF_allVars(Server!Loop /\ UNCHANGED vars)

-----------------------------------------------------------------------------
(* Properties. *)

\* What UdpServer promises holds of the server as it is used here.
ServerTypeOK == Server!TypeOK
BufferStable == Server!BufferStable
NothingLost == Server!NothingLost
NoUseAfterDestroy == Server!NoUseAfterDestroy
Served == Server!Served

\* End to end on one thread, what the receivers have taken and what func_ of
\* the other program was called with agree on the order of all messages of all
\* relays, whichever of them each has, and none has a message twice.
Histories == {sent[x] : x \in Receivers} \cup {given}
Agree(s, t) ==
  \A i, j \in DOMAIN s, k, l \in DOMAIN t :
    s[i] = t[k] /\ s[j] = t[l] /\ i < j => k < l
OneOrder == \A s, t \in Histories : Agree(s, t)

\* However many threads run the sessions, func_ is called with nothing but what
\* the first receiver has taken, and in the order in which it took it.
PartOf(s, t) == (\A i \in DOMAIN s : \E k \in DOMAIN t : s[i] = t[k]) /\ Agree(s, t)
GivenAsSent == PartOf(given, sent[1])
=============================================================================
