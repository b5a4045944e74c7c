----------------------------- MODULE UdpServer -----------------------------
(***************************************************************************)
(* udp::Server of kn/net/src/udp/server.h: a socket with one receive       *)
(* outstanding at a time, whose handler calls the application's func_ with *)
(* the one buffer there is, and then starts the next receive.              *)
(*                                                                         *)
(* The socket and the io_context are external: a receive that ends copies  *)
(* a datagram into buffer_ and queues its handler, which some thread of    *)
(* the io_context runs later.  Sizes and senders are left out.             *)
(***************************************************************************)
EXTENDS Naturals, Sequences

CONSTANTS
  Datagrams,   \* what may be received
  SocketLimit  \* datagrams the receive buffer of the socket holds

NoDatagram == <<>>

VARIABLES
  sock,     \* datagrams in the receive buffer of the socket
  receive,  \* the receive: armed, its handler ready or failed, or none
  buffer,   \* buffer_
  busy,     \* is func_ running?
  alive,    \* not destroyed
  broken,   \* has an error, or an exception of func_, ended the loop?
  given,    \* history: what func_ was called with
  arrived   \* history: what the socket has accepted

vars == <<sock, receive, buffer, busy, alive, broken, given, arrived>>

TypeOK ==
  /\ sock \in Seq(Datagrams) /\ Len(sock) <= SocketLimit
  /\ receive \in {"none", "armed", "ready", "failed"}
  /\ buffer \in Datagrams \cup {NoDatagram}
  /\ busy \in BOOLEAN /\ alive \in BOOLEAN /\ broken \in BOOLEAN
  /\ given \in Seq(Datagrams) /\ arrived \in Seq(Datagrams)

\* The constructor opens the socket and starts the first receive.
Init ==
  /\ sock = <<>> /\ receive = "armed" /\ buffer = NoDatagram
  /\ busy = FALSE /\ alive = TRUE /\ broken = FALSE
  /\ given = <<>> /\ arrived = <<>>

\* A datagram comes in; the socket drops it when its buffer is full, or closed.
Arrive(d) ==
  /\ alive /\ Len(sock) < SocketLimit
  /\ sock' = Append(sock, d)
  /\ arrived' = Append(arrived, d)
  /\ UNCHANGED <<receive, buffer, busy, alive, broken, given>>

\* The receive ends with a datagram, or with an error.
Received ==
  /\ receive = "armed" /\ alive /\ sock # <<>>
  /\ receive' = "ready"
  /\ buffer' = Head(sock)
  /\ sock' = Tail(sock)
  /\ UNCHANGED <<busy, alive, broken, given, arrived>>

Fails ==
  /\ receive = "armed" /\ alive
  /\ receive' = "failed"
  /\ UNCHANGED <<sock, buffer, busy, alive, broken, given, arrived>>

-----------------------------------------------------------------------------
(* HandleRecv *)

\* func_ is called; StartRecv is what follows it.
HandleArmingFirst ==
  /\ receive = "ready" /\ ~busy
  /\ receive' = "armed"
  /\ busy' = TRUE
  /\ given' = Append(given, buffer)
  /\ UNCHANGED <<sock, buffer, alive, broken, arrived>>
HandleIgnoringError ==
  /\ receive \in {"ready", "failed"} /\ ~busy
  /\ receive' = "none"
  /\ busy' = TRUE
  /\ given' = Append(given, buffer)
  /\ UNCHANGED <<sock, buffer, alive, broken, arrived>>
Handle ==
  /\ receive = "ready" /\ ~busy
  /\ receive' = "none"
  /\ busy' = TRUE
  /\ given' = Append(given, buffer)
  /\ UNCHANGED <<sock, buffer, alive, broken, arrived>>

NoRestart == UNCHANGED receive
StartRecv == receive' = "armed"

HandleReturns ==
  /\ busy
  /\ busy' = FALSE
  /\ StartRecv
  /\ UNCHANGED <<sock, buffer, alive, broken, given, arrived>>

\* func_ throws: the exception leaves the io_context, and there is no StartRecv.
HandleThrows ==
  /\ busy
  /\ busy' = FALSE
  /\ broken' = TRUE
  /\ UNCHANGED <<sock, receive, buffer, alive, given, arrived>>

\* An error is logged, nothing else: neither a receive nor the object is used.
HandleError ==
  /\ receive = "failed"
  /\ receive' = "none"
  /\ broken' = TRUE
  /\ UNCHANGED <<sock, buffer, busy, alive, given, arrived>>

\* The destructor: the buffer goes, then the socket, whose receive is aborted.
\* Its handler runs later, when the object is gone.  The owner has to see to it
\* that no handler is ready or running, and that no other thread of the
\* io_context receives between the two; then all of it is one step.
Destroy ==
  /\ alive /\ ~busy /\ receive \in {"none", "armed"}
  /\ alive' = FALSE
  /\ receive' = IF receive = "armed" THEN "failed" ELSE "none"
  /\ sock' = <<>>
  /\ UNCHANGED <<buffer, busy, broken, given, arrived>>

Loop == Received \/ Handle \/ HandleReturns \/ HandleThrows \/ HandleError

Next == (\E d \in Datagrams : Arrive(d)) \/ Loop \/ Fails \/ Destroy

Spec == Init /\ [][Next]_vars

\* The io_context is run, and func_ ends.
FairSpec == Spec /\ WF_vars(Loop)

-----------------------------------------------------------------------------
(* Properties. *)

\* While func_ runs, buffer_ holds the datagram it was called with, and no
\* receive that could overwrite it is under way: with one buffer for all
\* datagrams this rests on StartRecv coming after func_, also on an io_context
\* with several threads.
BufferStable ==
  busy => receive = "none" /\ Len(given) > 0 /\ buffer = given[Len(given)]

\* Every datagram the socket has accepted is given to func_ once, in the order
\* of arrival, or still waits, in the buffer or in the socket: the loop itself
\* loses nothing, whatever fails.
InHand == IF receive = "ready" THEN <<buffer>> ELSE <<>>
NothingLost == alive => given \o InHand \o sock = arrived

\* A destroyed server receives nothing, and calls nobody: the handler of the
\* aborted receive, which runs after the object is gone, does not use it.
NoUseAfterDestroy == ~alive => ~busy /\ receive \in {"none", "failed"}

\* Whatever the socket accepts is given to func_, unless the loop ends: at the
\* first error, and at the first exception of func_, it does so for good.
Has(history, d) == \E i \in DOMAIN history : history[i] = d
Served ==
  \A d \in Datagrams : Has(arrived, d) ~> Has(given, d) \/ broken \/ ~alive
=============================================================================
