--------------------------- MODULE KafkaConsumer ---------------------------
(***************************************************************************)
(* The Kafka consumer sessions of kn/net/src/kafka: Conn::DoSession with   *)
(* StreamEntry::Init and Sub (conn.h), and the BaseConfig all the sessions *)
(* of a process share (base_config.h).                                     *)
(*                                                                         *)
(* A session never suspends its coroutine: consumer_->poll() blocks.  So   *)
(* each session that runs occupies a thread of the io_context, and when    *)
(* there are several threads, sessions interleave.  Nothing locks the      *)
(* configuration, so one step here touches it once: what Init and Sub read *)
(* there may have changed when they use it.  The consumer and the broker   *)
(* are external; of a consumer we keep what it was made with, and where    *)
(* its consumption of each topic starts.  The one partition used is left   *)
(* out.                                                                    *)
(***************************************************************************)
EXTENDS Naturals, FiniteSets

CONSTANTS
  Sessions,  \* the connections
  Topics,    \* the topics
  Threads    \* threads that run the io_context

ASSUME KafkaConsumerAssumption == Threads \in Nat

\* Offsets: 0 and -2, which the code treats alike; -1; and any above 0.
Offsets == {"beginning", "end", "positive"}
NoTopic == "absent"

VARIABLES
  tpo,         \* BaseConfig: tpo_info_
  autoCommit,  \* BaseConfig: auto_commit_
  manual,      \* BaseConfig: do_manual_commit_
  reset,       \* BaseConfig: auto.offset.reset of config
  pc,          \* where the session is
  policy,      \* auto.offset.reset of its consumer
  partitions,  \* what Sub has copied from tpo_info_, until it returns
  mode,        \* how its consumer got its topics
  start,       \* where its consumption of a topic starts
  stop,        \* stop_
  wanted       \* history: the offsets it found or left in the configuration,
               \* but for those that the Init of another changed before the copy

config  == <<tpo, autoCommit, manual, reset>>
session == <<pc, policy, partitions, mode, start, stop>>
vars    == <<tpo, autoCommit, manual, reset,
             pc, policy, partitions, mode, start, stop, wanted>>

Resets == {"default", "smallest", "largest"}
Starts == {"begin", "end", "offset", "group"}
Labels == {"idle", "init", "create", "offsets", "smallest", "largest", "make",
           "sub", "copy", "choose", "subscribe",
           "loop", "poll", "onread", "done", "threw"}
OffsetMaps == [Topics -> Offsets \cup {NoTopic}]

TypeOK ==
  /\ tpo \in OffsetMaps
  /\ autoCommit \in BOOLEAN /\ manual \in BOOLEAN
  /\ reset \in Resets
  /\ pc \in [Sessions -> Labels]
  /\ policy \in [Sessions -> Resets]
  /\ partitions \in [Sessions -> OffsetMaps]
  /\ mode \in [Sessions -> {"none", "assign", "subscribe"}]
  /\ start \in [Sessions -> [Topics -> Starts \cup {NoTopic}]]
  /\ stop \in [Sessions -> BOOLEAN]
  /\ wanted \in [Sessions -> OffsetMaps]

NoTopics == [t \in Topics |-> NoTopic]

Init ==
  /\ tpo = NoTopics
  /\ autoCommit \in BOOLEAN /\ manual \in BOOLEAN
  /\ reset = "default"
  /\ pc = [s \in Sessions |-> "idle"]
  /\ policy = [s \in Sessions |-> "default"]
  /\ partitions = [s \in Sessions |-> NoTopics]
  /\ mode = [s \in Sessions |-> "none"]
  /\ start = [s \in Sessions |-> NoTopics]
  /\ stop = [s \in Sessions |-> FALSE]
  /\ wanted = [s \in Sessions |-> NoTopics]

-----------------------------------------------------------------------------
(* BaseConfig: the topic map, as its operations leave it.                   *)

Tracked(m) == {t \in Topics : m[t] # NoTopic}

\* ResetSubscribeTopics, both overloads: o gives the topics and their offsets.
ResetSubscribeTopics(o) == tpo' = o

\* ExtendTopicsWithDefaultOffset: only what is not tracked yet gets the default.
ExtendTopics(ts) ==
  tpo' = [t \in Topics |-> IF tpo[t] = NoTopic /\ t \in ts THEN "end" ELSE tpo[t]]

UniversalUpdateOffset(o) ==
  tpo' = [t \in Topics |-> IF tpo[t] = NoTopic THEN NoTopic ELSE o]

\* UpdateOffsets: a topic that is not tracked is added if `add' says so.
UpdateOffsets(o, add) ==
  tpo' = [t \in Topics |->
            IF o[t] = NoTopic \/ (tpo[t] = NoTopic /\ ~add) THEN tpo[t] ELSE o[t]]

SetAutoCommit(am) == autoCommit' = am
EnableManualCommit == manual' = TRUE

-----------------------------------------------------------------------------
(* The session.                                                             *)

Goto(s, label) == pc' = [pc EXCEPT ![s] = label]

Ended(s) == pc[s] \in {"done", "threw"}
Running == {s \in Sessions : pc[s] # "idle" /\ ~Ended(s)}

\* spawn, and a free thread takes the coroutine up.
ThreadFree == Cardinality(Running) < Threads

Spawn(s) ==
  /\ pc[s] = "idle" /\ ThreadFree
  /\ Goto(s, "init")
  /\ UNCHANGED <<config, policy, partitions, mode, start, stop, wanted>>

\* The virtual Init of the application changes what it likes in BaseConfig.
AppTopics ==
  \/ \E o \in OffsetMaps :
       ResetSubscribeTopics(o) \/ \E add \in BOOLEAN : UpdateOffsets(o, add)
  \/ \E o \in Offsets : UniversalUpdateOffset(o)
AppCommits ==
  \/ \E am \in BOOLEAN : SetAutoCommit(am) /\ UNCHANGED manual
  \/ EnableManualCommit /\ UNCHANGED autoCommit

\* Until it copies the map, a session depends on what the others do to it.
BeforeCopy == {"create", "offsets", "smallest", "largest", "make", "sub", "copy"}
Overrule(s) ==
  wanted' = [r \in Sessions |->
    IF r = s THEN tpo'
    ELSE IF pc[r] \in BeforeCopy
         THEN [t \in Topics |-> IF tpo'[t] = tpo[t] THEN wanted[r][t] ELSE NoTopic]
         ELSE wanted[r]]

AppInit(s) ==
  /\ pc[s] = "init"
  /\ \/ AppTopics /\ UNCHANGED <<autoCommit, manual>>
     \/ AppCommits /\ UNCHANGED tpo
  /\ Overrule(s)
  /\ Goto(s, "create")
  /\ UNCHANGED <<reset, policy, partitions, mode, start, stop>>

\* StreamEntry::Init.  Without automatic commits the policy is set if the
\* offsets are all of one kind; it is set in the configuration all share.
CheckAutoCommit(s) ==
  /\ pc[s] = "create"
  /\ Goto(s, IF autoCommit THEN "make" ELSE "offsets")
  /\ UNCHANGED <<config, policy, partitions, mode, start, stop, wanted>>

AllIn(offset) == \A t \in Tracked(tpo) : tpo[t] = offset

CompareOffsets(s) ==
  /\ pc[s] = "offsets"
  /\ \/ AllIn("beginning") /\ Goto(s, "smallest")
     \/ AllIn("end") /\ ~AllIn("beginning") /\ Goto(s, "largest")
     \/ ~AllIn("end") /\ ~AllIn("beginning") /\ Goto(s, "make")
  /\ UNCHANGED <<config, policy, partitions, mode, start, stop, wanted>>

SetReset(s) ==
  /\ pc[s] \in {"smallest", "largest"}
  /\ reset' = pc[s]
  /\ Goto(s, "make")
  /\ UNCHANGED <<tpo, autoCommit, manual, policy, partitions, mode, start, stop, wanted>>

\* The consumer copies the configuration, with the policy that is in it now.
CreateConsumer(s) ==
  /\ pc[s] = "make"
  /\ \/ Goto(s, "sub") /\ policy' = [policy EXCEPT ![s] = reset]
     \/ Goto(s, "threw") /\ UNCHANGED policy
  /\ UNCHANGED <<config, partitions, mode, start, stop, wanted>>

\* Sub without subs_ does nothing.
SubNothing(s) ==
  /\ pc[s] = "sub"
  /\ Goto(s, "loop")
  /\ UNCHANGED <<config, policy, partitions, mode, start, stop, wanted>>

\* Sub asks the broker for the topics that match subs_, and adds them.
ExtendConfig(s) ==
  /\ pc[s] = "sub"
  /\ \E matching \in SUBSET Topics :
       /\ ExtendTopics(matching)
       /\ wanted' = [wanted EXCEPT ![s] =
            [t \in Topics |-> IF @[t] = NoTopic /\ t \in matching THEN tpo'[t] ELSE @[t]]]
  /\ Goto(s, "copy")
  /\ UNCHANGED <<autoCommit, manual, reset, policy, partitions, mode, start, stop>>

CopyPartitions(s) ==
  /\ pc[s] = "copy"
  /\ partitions' = [partitions EXCEPT ![s] = tpo]
  /\ Goto(s, "choose")
  /\ UNCHANGED <<config, policy, mode, start, stop, wanted>>

\* An assigned topic is consumed from its offset.
AssignedStart(o) ==
  CASE o = NoTopic -> NoTopic
    [] o = "beginning" -> "begin"
    [] o = "end" -> "end"
    [] o = "positive" -> "offset"

MustAssign(s) == (\E t \in Topics : partitions[s][t] = "positive") /\ ~manual

\* Sub returns, or get_assignment throws.
SubEnds(s) ==
  /\ Goto(s, "loop") \/ Goto(s, "threw")
  /\ partitions' = [partitions EXCEPT ![s] = NoTopics]

ReadAgain(s) == tpo
ToAssign(s) == partitions[s]

Assign(s) ==
  /\ pc[s] = "choose" /\ MustAssign(s)
  /\ mode' = [mode EXCEPT ![s] = "assign"]
  /\ start' = [start EXCEPT ![s] = [t \in Topics |-> AssignedStart(ToAssign(s)[t])]]
  /\ SubEnds(s)
  /\ UNCHANGED <<config, policy, stop, wanted>>

ChooseSubscribe(s) ==
  /\ pc[s] = "choose" /\ ~MustAssign(s)
  /\ Goto(s, "subscribe")
  /\ UNCHANGED <<config, policy, partitions, mode, start, stop, wanted>>

\* The topics are read from the configuration again.  Each is consumed from
\* the offset that the group has committed, or by the policy if it has none.
Subscribe(s) ==
  /\ pc[s] = "subscribe"
  /\ mode' = [mode EXCEPT ![s] = "subscribe"]
  /\ start' = [start EXCEPT ![s] =
       [t \in Topics |-> IF t \in Tracked(tpo) THEN "group" ELSE NoTopic]]
  /\ SubEnds(s)
  /\ UNCHANGED <<config, policy, stop, wanted>>

\* The broker cannot be asked for the topics, or assign or subscribe throws:
\* the exception leaves DoSession.
SubThrows(s) ==
  /\ pc[s] \in {"sub", "subscribe"} \/ (pc[s] = "choose" /\ MustAssign(s))
  /\ Goto(s, "threw")
  /\ partitions' = [partitions EXCEPT ![s] = NoTopics]
  /\ UNCHANGED <<config, policy, mode, start, stop, wanted>>

\* while (!stop_) { Read ... }  Close only writes to the log.
GoOnAnyway(s) == TRUE
GoesOn(s) == ~stop[s]

Loop(s) ==
  /\ pc[s] = "loop"
  /\ Goto(s, IF GoesOn(s) THEN "poll" ELSE "done")
  /\ UNCHANGED <<config, policy, partitions, mode, start, stop, wanted>>

Consumed(s) == {t \in Topics : start[s][t] # NoTopic}

\* poll returns nothing, an end of partition or an error.
PollNothing(s) ==
  /\ pc[s] = "poll"
  /\ Goto(s, IF GoesOn(s) THEN "loop" ELSE "done")
  /\ UNCHANGED <<config, policy, partitions, mode, start, stop, wanted>>

\* poll returns a message: it is dropped when the session was stopped.
PollMessage(s) ==
  /\ pc[s] = "poll" /\ Consumed(s) # {}
  /\ Goto(s, IF GoesOn(s) THEN "onread" ELSE "done")
  /\ UNCHANGED <<config, policy, partitions, mode, start, stop, wanted>>

OnRead(s) ==
  /\ pc[s] = "onread"
  /\ Goto(s, "loop")
  /\ UNCHANGED <<config, policy, partitions, mode, start, stop, wanted>>

\* Stop() only sets the flag; it may be called before a thread takes the session up.
Stop(s) ==
  /\ stop' = [stop EXCEPT ![s] = TRUE]
  /\ UNCHANGED <<config, pc, policy, partitions, mode, start, wanted>>

SubStep(s) ==
  \/ SubNothing(s) \/ ExtendConfig(s) \/ CopyPartitions(s) \/ Assign(s)
  \/ ChooseSubscribe(s) \/ Subscribe(s) \/ SubThrows(s)

SessionStep(s) ==
  \/ AppInit(s) \/ CheckAutoCommit(s) \/ CompareOffsets(s) \/ SetReset(s)
  \/ CreateConsumer(s) \/ SubStep(s)
  \/ Loop(s) \/ PollNothing(s) \/ PollMessage(s) \/ OnRead(s)

Next == \E s \in Sessions : Spawn(s) \/ SessionStep(s) \/ Stop(s)

Spec == Init /\ [][Next]_vars

-----------------------------------------------------------------------------
(* Properties.                                                              *)

\* Unless commits are manual, a session that has an offset above 0 for a topic
\* consumes that topic, and every other one it knows of, from the offset that was
\* there when its Init returned, or when it found the topic.  Only the Init of
\* another session can change that, and only before Sub copies the map: what the
\* others add to it and the policies they set meanwhile make no difference, and
\* what is decided by the copy is also done by the copy.
Wants(s) == Tracked(wanted[s])
OffsetsHonoured ==
  \A s \in Sessions :
    mode[s] # "none" /\ ~manual /\ (\E t \in Topics : wanted[s][t] = "positive")
      => \A t \in Wants(s) : start[s][t] = AssignedStart(wanted[s][t])

\* OnRead is not called for a message that poll returned after Stop.
NoReadAfterStop ==
  [][\A s \in Sessions : stop[s] /\ pc[s] # "onread" => pc'[s] # "onread"]_vars

\* A session implements WsFeed, so that the relay, which is stated over WsFeed,
\* covers sessions of both kinds: OnRead is called only between Sub and the
\* return of the session, and not for a message that poll returns after Stop.
FeedPhase(s) ==
  CASE pc[s] = "done" -> "over"
    [] pc[s] = "threw" -> "dead"
    [] pc[s] \in {"loop", "poll", "onread"} -> "live"
    [] OTHER -> "off"

Feed == INSTANCE WsFeed WITH
  Conns <- Sessions,
  phase <- [s \in Sessions |-> FeedPhase(s)],
  busy <- [s \in Sessions |-> pc[s] = "onread"],
  halted <- stop
ImplementsFeed == Feed!Spec

\* The steps that a stopped session still takes, at most.
StepsLeft(s) ==
  [idle |-> 11, init |-> 10, create |-> 9, offsets |-> 8, smallest |-> 7, largest |-> 7,
   make |-> 6, sub |-> 5, copy |-> 4, choose |-> 3, subscribe |-> 2, onread |-> 2,
   loop |-> 1, poll |-> 1, done |-> 0, threw |-> 0][pc[s]]

\* Every step of a stopped session brings it nearer to its end.  A session that
\* is stopped before a thread takes it up still makes a consumer and subscribes,
\* but it polls no more; all others end after one poll at most.
RunsOut(s) ==
  stop[s] =>
    /\ StepsLeft(s)' <= StepsLeft(s)
    /\ Spawn(s) \/ SessionStep(s) => StepsLeft(s)' < StepsLeft(s)
StopRunsOut == [][\A s \in Sessions : RunsOut(s)]_vars

\* "strict condition: only offsets of all topics are those special values, we
\* admit" (comment of StreamEntry::Init): topics that are read from the
\* smallest offset by policy are configured to be read from there.
SmallestIsStrict ==
  \A s \in Sessions :
    mode[s] = "subscribe" /\ policy[s] = "smallest"
      => \A t \in Wants(s) : wanted[s][t] = "beginning"
=============================================================================
