------------------------------- MODULE WsFeed -------------------------------
(***************************************************************************)
(* What a session promises the application that derives from it, of        *)
(* kn/net/src/ws (WsConn implements this) as of kn/net/src/kafka           *)
(* (KafkaConsumer does): messages come one at a time, only from a stream   *)
(* that is fully subscribed, and none begins once the session is stopped;  *)
(* a lost stream is replaced by one that is subscribed again; the session  *)
(* returns only when it is stopped, or dies with an exception.             *)
(***************************************************************************)
CONSTANT Conns  \* the sessions

VARIABLES
  phase,   \* off, joining, live; over or dead in the end
  busy,    \* is the application in OnRead?
  halted   \* has Stop been called?

feedVars == <<phase, busy, halted>>

Phases == {"off", "joining", "live", "over", "dead"}

FeedTypeOK ==
  /\ phase \in [Conns -> Phases]
  /\ busy \in [Conns -> BOOLEAN]
  /\ halted \in [Conns -> BOOLEAN]

Init ==
  /\ phase = [c \in Conns |-> "off"]
  /\ busy = [c \in Conns |-> FALSE]
  /\ halted = [c \in Conns |-> FALSE]

Become(c, p) == phase' = [phase EXCEPT ![c] = p]

\* A stream opens; it is live at once when there is nothing to subscribe to.
Join(c) ==
  /\ phase[c] = "off" /\ ~busy[c]
  /\ Become(c, "joining") \/ Become(c, "live")
  /\ UNCHANGED <<busy, halted>>

\* The last subscription has been written.
Subscribe(c) ==
  /\ phase[c] = "joining"
  /\ Become(c, "live")
  /\ UNCHANGED <<busy, halted>>

\* The stream is lost or closed.
Lose(c) ==
  /\ phase[c] \in {"joining", "live"}
  /\ Become(c, "off")
  /\ UNCHANGED <<busy, halted>>

\* A message is handed to the application ...
DeliverAfterHalt(c) ==
  /\ phase[c] = "live" /\ ~busy[c]
  /\ busy' = [busy EXCEPT ![c] = TRUE]
  /\ UNCHANGED <<phase, halted>>
Deliver(c) ==
  /\ phase[c] = "live" /\ ~busy[c] /\ ~halted[c]
  /\ busy' = [busy EXCEPT ![c] = TRUE]
  /\ UNCHANGED <<phase, halted>>

\* ... which is done with it, and may have lost or given up the stream.
Finish(c) ==
  /\ busy[c]
  /\ busy' = [busy EXCEPT ![c] = FALSE]
  /\ Become(c, phase[c]) \/ Become(c, "off") \/ Become(c, "dead")
  /\ UNCHANGED halted

Halt(c) ==
  /\ ~halted[c]
  /\ halted' = [halted EXCEPT ![c] = TRUE]
  /\ UNCHANGED <<phase, busy>>

\* The session returns, and gives up the stream if it still has one.
End(c) ==
  /\ phase[c] \in {"off", "live"} /\ ~busy[c] /\ halted[c]
  /\ Become(c, "over")
  /\ UNCHANGED <<busy, halted>>

\* The session ends by an exception while it connects a new stream.
Die(c) ==
  /\ phase[c] = "off" /\ ~busy[c]
  /\ Become(c, "dead")
  /\ UNCHANGED <<busy, halted>>

Next ==
  \E c \in Conns :
    \/ Join(c) \/ Subscribe(c) \/ Lose(c) \/ Deliver(c) \/ Finish(c)
    \/ Halt(c) \/ End(c) \/ Die(c)

Spec == Init /\ [][Next]_feedVars
=============================================================================
