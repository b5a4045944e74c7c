---------------------------- MODULE Kafka_proof ----------------------------
(***************************************************************************)
(* Proofs about the Kafka sessions, for any number of sessions, topics and *)
(* threads, and about the Parasitifer that owns them, for any number of    *)
(* Runs, any limit and whatever is resolved.                               *)
(***************************************************************************)
EXTENDS KafkaParasitifer, SequenceTheorems, TLAPS

-----------------------------------------------------------------------------
(* The sessions.                                                            *)

Honoured(s) ==
  mode[s] # "none" /\ ~manual /\ (\E t \in Topics : wanted[s][t] = "positive")
    => \A t \in Wants(s) : start[s][t] = AssignedStart(wanted[s][t])

\* What a session wants is what is in the configuration, then what it has copied
\* from there, then what it has assigned; and it subscribes only when nothing it
\* has copied is above 0, or when commits are manual, as they will be for ever.
Choosing == {"choose", "subscribe"}
Early == {"idle", "init"} \cup BeforeCopy \cup Choosing

Wanting(s) ==
  /\ pc[s] \in Early => mode[s] = "none"
  /\ pc[s] \in BeforeCopy => \A t \in Wants(s) : wanted[s][t] = tpo[t]
  /\ pc[s] \in Choosing => \A t \in Wants(s) : wanted[s][t] = partitions[s][t]
  /\ pc[s] = "subscribe" => manual \/ \A t \in Topics : partitions[s][t] # "positive"
  /\ Honoured(s)

IInv == TypeOK /\ \A s \in Sessions : Wanting(s)

LEMMA InitIInv == Init => IInv
<1> SUFFICES ASSUME Init PROVE IInv
  OBVIOUS
<1>1. autoCommit \in BOOLEAN /\ manual \in BOOLEAN
  BY DEF Init
<1>2. TypeOK
  BY <1>1 DEF Init, TypeOK, OffsetMaps, NoTopics, NoTopic, Offsets, Starts, Labels, Resets
<1>3. \A s \in Sessions : Wanting(s)
  BY DEF Init, Wanting, Honoured, BeforeCopy, Choosing
<1> QED
  BY <1>2, <1>3 DEF IInv

-----------------------------------------------------------------------------
(* The steps keep their types.                                              *)

LEMMA AssignedType ==
  ASSUME NEW o \in Offsets \cup {NoTopic}
  PROVE  AssignedStart(o) \in Starts \cup {NoTopic}
<1>1. CASE o = NoTopic
  BY <1>1, Zenon DEF AssignedStart, Starts, Offsets, NoTopic
<1>2. CASE o = "beginning"
  BY <1>2, Zenon DEF AssignedStart, Starts, Offsets, NoTopic
<1>3. CASE o = "end"
  BY <1>3, Zenon DEF AssignedStart, Starts, Offsets, NoTopic
<1>4. CASE o = "positive"
  BY <1>4, Zenon DEF AssignedStart, Starts, Offsets, NoTopic
<1> QED
  BY <1>1, <1>2, <1>3, <1>4 DEF Offsets

\* What Init of the application does to the configuration.
LEMMA AppInitType ==
  ASSUME TypeOK, NEW s \in Sessions, AppInit(s)
  PROVE  TypeOK' /\ (manual => manual')
<1>1. tpo' \in OffsetMaps /\ autoCommit' \in BOOLEAN /\ manual' \in BOOLEAN /\ (manual => manual')
  <2>1. CASE AppTopics /\ UNCHANGED <<autoCommit, manual>>
    BY <2>1 DEF AppTopics, ResetSubscribeTopics, UpdateOffsets, UniversalUpdateOffset,
       OffsetMaps, TypeOK
  <2>2. CASE AppCommits /\ UNCHANGED tpo
    BY <2>2 DEF AppCommits, SetAutoCommit, EnableManualCommit, TypeOK
  <2> QED
    BY <2>1, <2>2 DEF AppInit
<1>2. wanted' \in [Sessions -> OffsetMaps]
  BY <1>1 DEF AppInit, Overrule, OffsetMaps, TypeOK
<1>3. pc' \in [Sessions -> Labels]
  BY DEF AppInit, Goto, Labels, TypeOK
<1> QED
  BY <1>1, <1>2, <1>3 DEF AppInit, TypeOK

LEMMA ExtendType ==
  ASSUME TypeOK, NEW s \in Sessions, ExtendConfig(s)
  PROVE  TypeOK'
<1>1. PICK matching \in SUBSET Topics :
        /\ ExtendTopics(matching)
        /\ wanted' = [wanted EXCEPT ![s] =
             [t \in Topics |-> IF @[t] = NoTopic /\ t \in matching THEN tpo'[t] ELSE @[t]]]
  BY DEF ExtendConfig
<1>2. tpo' \in OffsetMaps
  BY <1>1 DEF ExtendTopics, OffsetMaps, Offsets, TypeOK
<1>3. wanted' \in [Sessions -> OffsetMaps]
  BY <1>1, <1>2 DEF OffsetMaps, TypeOK
<1>4. pc' \in [Sessions -> Labels]
  BY DEF ExtendConfig, Goto, Labels, TypeOK
<1> QED
  BY <1>2, <1>3, <1>4 DEF ExtendConfig, TypeOK

\* The steps that assign or subscribe.
LEMMA EndsType ==
  ASSUME TypeOK, NEW s \in Sessions, Assign(s) \/ Subscribe(s)
  PROVE  TypeOK'
<1>1. partitions' \in [Sessions -> OffsetMaps] /\ pc' \in [Sessions -> Labels]
  <2>1. SubEnds(s)
    BY DEF Assign, Subscribe
  <2>2. partitions' \in [Sessions -> OffsetMaps]
    BY <2>1 DEF SubEnds, OffsetMaps, NoTopics, TypeOK
  <2>3. pc' \in [Sessions -> Labels]
    BY <2>1 DEF SubEnds, Goto, Labels, TypeOK
  <2> QED
    BY <2>2, <2>3
<1>2. mode' \in [Sessions -> {"none", "assign", "subscribe"}]
  <2>1. CASE Assign(s)
    BY <2>1 DEF Assign, TypeOK
  <2>2. CASE Subscribe(s)
    BY <2>2 DEF Subscribe, TypeOK
  <2> QED
    BY <2>1, <2>2
<1>3. start' \in [Sessions -> [Topics -> Starts \cup {NoTopic}]]
  <2>1. CASE Assign(s)
    <3> DEFINE assigned == [t \in Topics |-> AssignedStart(partitions[s][t])]
    <3>1. partitions[s] \in [Topics -> Offsets \cup {NoTopic}]
      BY DEF TypeOK, OffsetMaps
    <3>2. assigned \in [Topics -> Starts \cup {NoTopic}]
      BY <3>1, AssignedType
    <3>3. start' = [start EXCEPT ![s] = assigned]
      BY <2>1 DEF Assign, ToAssign
    <3> QED
      BY <3>2, <3>3 DEF TypeOK
  <2>2. CASE Subscribe(s)
    BY <2>2 DEF Subscribe, Starts, TypeOK
  <2> QED
    BY <2>1, <2>2
<1> QED
  BY <1>1, <1>2, <1>3 DEF Assign, Subscribe, TypeOK, config

\* The steps that only go on, and Stop.
Plain(s) ==
  \/ Spawn(s) \/ CheckAutoCommit(s) \/ CompareOffsets(s) \/ SubNothing(s)
  \/ ChooseSubscribe(s) \/ Loop(s) \/ PollNothing(s) \/ PollMessage(s) \/ OnRead(s)

LEMMA PlainMoves ==
  ASSUME TypeOK, NEW s \in Sessions, Plain(s)
  PROVE  /\ UNCHANGED <<config, policy, partitions, mode, start, stop, wanted>>
         /\ \E to \in Labels : Goto(s, to)
BY DEF Plain, Spawn, CheckAutoCommit, CompareOffsets, SubNothing, ChooseSubscribe, Loop,
   PollNothing, PollMessage, OnRead, Goto, Labels

LEMMA PlainType ==
  ASSUME TypeOK, NEW s \in Sessions, Plain(s) \/ Stop(s)
  PROVE  TypeOK'
<1>1. CASE Plain(s)
  BY <1>1, PlainMoves DEF TypeOK, config, Goto
<1>2. CASE Stop(s)
  BY <1>2 DEF Stop, TypeOK, config
<1> QED
  BY <1>1, <1>2

LEMMA OtherType ==
  ASSUME TypeOK, NEW s \in Sessions,
         SetReset(s) \/ CreateConsumer(s) \/ CopyPartitions(s) \/ SubThrows(s)
  PROVE  TypeOK'
<1>1. CASE SetReset(s)
  BY <1>1 DEF SetReset, Goto, Labels, Resets, TypeOK
<1>2. CASE CreateConsumer(s)
  BY <1>2 DEF CreateConsumer, Goto, Labels, TypeOK, config
<1>3. CASE CopyPartitions(s)
  BY <1>3 DEF CopyPartitions, Goto, Labels, TypeOK, config
<1>4. CASE SubThrows(s)
  BY <1>4 DEF SubThrows, Goto, Labels, OffsetMaps, NoTopics, TypeOK, config
<1> QED
  BY <1>1, <1>2, <1>3, <1>4

-----------------------------------------------------------------------------
(* What a session wants, and what it gets.                                  *)

\* Lemma: the Init of a session may overrule another one before that has copied
\* the map, and cannot harm it afterwards.
LEMMA AppInitWanting ==
  ASSUME IInv, NEW s \in Sessions, AppInit(s), NEW r \in Sessions
  PROVE  Wanting(r)'
<1> USE DEF IInv, TypeOK
<1>1. /\ UNCHANGED <<partitions, mode, start>> /\ (manual => manual')
      /\ pc' = [pc EXCEPT ![s] = "create"] /\ pc[s] = "init"
      /\ wanted'[s] = tpo'
  BY AppInitType DEF AppInit, Overrule, Goto
<1>2. CASE r = s
  BY <1>1, <1>2 DEF Wanting, Honoured, Early, BeforeCopy, Choosing
<1>3. CASE r # s /\ pc[r] \in BeforeCopy
  <2>1. /\ pc'[r] = pc[r] /\ mode[r] = "none"
        /\ wanted'[r] = [t \in Topics |-> IF tpo'[t] = tpo[t] THEN wanted[r][t] ELSE NoTopic]
    BY <1>1, <1>3 DEF AppInit, Overrule, Wanting, Early
  <2>2. \A t \in Topics : wanted'[r][t] # NoTopic => wanted'[r][t] = tpo'[t]
    BY <1>3, <2>1 DEF Wanting, Wants, Tracked
  <2> QED
    BY <1>1, <1>3, <2>1, <2>2
       DEF Wanting, Honoured, Wants, Tracked, Early, BeforeCopy, Choosing
<1>4. CASE r # s /\ pc[r] \notin BeforeCopy
  <2>1. pc'[r] = pc[r] /\ wanted'[r] = wanted[r]
    BY <1>1, <1>4 DEF AppInit, Overrule
  <2>2. partitions'[r] = partitions[r] /\ mode'[r] = mode[r] /\ start'[r] = start[r]
    BY <1>1
  <2>3. Wants(r)' = Wants(r)
    BY <2>1 DEF Wants, Tracked
  <2>4. Honoured(r) => Honoured(r)'
    BY <1>1, <2>1, <2>2, <2>3 DEF Honoured
  <2> QED
    BY <1>1, <1>4, <2>1, <2>2, <2>3, <2>4 DEF Wanting
<1> QED
  BY <1>2, <1>3, <1>4

\* Lemma: what another session adds to the map harms none.
LEMMA ExtendWanting ==
  ASSUME IInv, NEW s \in Sessions, ExtendConfig(s), NEW r \in Sessions
  PROVE  Wanting(r)'
<1> USE DEF IInv, TypeOK, OffsetMaps
<1>1. PICK matching \in SUBSET Topics :
        /\ ExtendTopics(matching)
        /\ wanted' = [wanted EXCEPT ![s] =
             [t \in Topics |-> IF @[t] = NoTopic /\ t \in matching THEN tpo'[t] ELSE @[t]]]
  BY DEF ExtendConfig
<1>2. /\ UNCHANGED <<partitions, mode, start, manual>>
      /\ pc' = [pc EXCEPT ![s] = "copy"] /\ pc[s] = "sub"
  BY DEF ExtendConfig, Goto
<1>3. \A t \in Topics : tpo[t] # NoTopic => tpo'[t] = tpo[t]
  BY <1>1 DEF ExtendTopics
<1>4. CASE r # s
  <2>1. pc'[r] = pc[r] /\ wanted'[r] = wanted[r]
    BY <1>1, <1>2, <1>4
  <2>2. /\ partitions'[r] = partitions[r] /\ mode'[r] = mode[r] /\ start'[r] = start[r]
        /\ manual' = manual
    BY <1>2
  <2>3. Wants(r)' = Wants(r) /\ (Honoured(r) => Honoured(r)')
    BY <2>1, <2>2 DEF Honoured, Wants, Tracked
  <2>4. \A t \in Wants(r) : wanted[r][t] = tpo[t] => wanted[r][t] = tpo'[t]
    BY <1>3 DEF Wants, Tracked
  <2> QED
    BY <2>1, <2>2, <2>3, <2>4 DEF Wanting
<1>5. CASE r = s
  <2>1. \A t \in Topics : wanted'[s][t] # NoTopic => wanted'[s][t] = tpo'[t]
    BY <1>1, <1>2, <1>3 DEF Wanting, Wants, Tracked, BeforeCopy
  <2>2. mode[s] = "none"
    BY <1>2 DEF Wanting, Early, BeforeCopy
  <2> QED
    BY <1>2, <1>5, <2>1, <2>2 DEF Wanting, Honoured, Wants, Tracked, Early, BeforeCopy, Choosing
<1> QED
  BY <1>4, <1>5

\* Lemma: a step that touches nothing of another session leaves it as it was.
LEMMA OthersWanting ==
  ASSUME IInv, NEW s \in Sessions, NEW r \in Sessions, r # s,
         UNCHANGED <<tpo, manual, wanted>>,
         partitions'[r] = partitions[r], mode'[r] = mode[r], start'[r] = start[r], pc'[r] = pc[r]
  PROVE  Wanting(r)'
BY DEF IInv, Wanting, Honoured, Wants, Tracked

LEMMA CopyWanting ==
  ASSUME IInv, NEW s \in Sessions, CopyPartitions(s)
  PROVE  Wanting(s)'
<1>1. /\ UNCHANGED <<mode, start, manual, wanted>>
      /\ pc[s] = "copy" /\ pc'[s] = "choose" /\ partitions'[s] = tpo
  BY DEF CopyPartitions, Goto, config, IInv, TypeOK
<1>2. mode[s] = "none" /\ \A t \in Wants(s) : wanted[s][t] = tpo[t]
  BY <1>1 DEF IInv, Wanting, Early, BeforeCopy
<1> QED
  BY <1>1, <1>2 DEF Wanting, Honoured, Wants, Tracked, Early, BeforeCopy, Choosing

\* Lemma: what the copy decides, the copy does.
LEMMA AssignWanting ==
  ASSUME IInv, NEW s \in Sessions, Assign(s)
  PROVE  Wanting(s)'
<1>1. /\ UNCHANGED <<manual, wanted>> /\ pc[s] = "choose" /\ pc'[s] \in {"loop", "threw"}
      /\ \A t \in Topics : start'[s][t] = AssignedStart(partitions[s][t])
  BY DEF Assign, SubEnds, ToAssign, Goto, config, IInv, TypeOK
<1>2. \A t \in Wants(s) : wanted[s][t] = partitions[s][t]
  BY <1>1 DEF IInv, Wanting, Choosing
<1>3. Honoured(s)'
  BY <1>1, <1>2 DEF Honoured, Wants, Tracked
<1> QED
  BY <1>1, <1>3 DEF Wanting, Early, BeforeCopy, Choosing

\* Lemma: a session that subscribes wants nothing from above 0.
LEMMA SubscribeWanting ==
  ASSUME IInv, NEW s \in Sessions, Subscribe(s)
  PROVE  Wanting(s)'
<1>1. UNCHANGED <<manual, wanted>> /\ pc[s] = "subscribe" /\ pc'[s] \in {"loop", "threw"}
  BY DEF Subscribe, SubEnds, Goto, config, IInv, TypeOK
<1>2. manual \/ \A t \in Topics : wanted[s][t] # "positive"
  BY <1>1 DEF IInv, Wanting, Choosing, Wants, Tracked, NoTopic
<1>3. Honoured(s)'
  BY <1>1, <1>2 DEF Honoured
<1> QED
  BY <1>1, <1>3 DEF Wanting, Early, BeforeCopy, Choosing

\* How the other steps move a session.
LEMMA PlainWanting ==
  ASSUME IInv, NEW s \in Sessions,
         Plain(s) \/ SetReset(s) \/ CreateConsumer(s) \/ SubThrows(s)
  PROVE  Wanting(s)'
<1>1. UNCHANGED <<tpo, manual, mode, start, wanted>>
  BY PlainMoves DEF SetReset, CreateConsumer, SubThrows, config, IInv
<1>2. CASE pc'[s] \notin Early
  BY <1>1, <1>2 DEF IInv, Wanting, Honoured, Wants, Tracked, Early, Choosing
<1>3. CASE pc'[s] = "subscribe"
  <2>1. ChooseSubscribe(s)
    BY <1>3 DEF Plain, Spawn, CheckAutoCommit, CompareOffsets, SubNothing, Loop, PollNothing,
       PollMessage, OnRead, SetReset, CreateConsumer, SubThrows, Goto, IInv, TypeOK
  <2>2. pc[s] = "choose" /\ ~MustAssign(s) /\ partitions' = partitions
    BY <2>1 DEF ChooseSubscribe
  <2> QED
    BY <1>1, <1>3, <2>2 DEF IInv, Wanting, Honoured, Wants, Tracked, MustAssign, Early,
       BeforeCopy, Choosing
<1>4. CASE pc'[s] \in {"idle", "init"}
  <2>1. pc[s] = "idle"
    BY <1>4 DEF Plain, Spawn, CheckAutoCommit, CompareOffsets, SubNothing, ChooseSubscribe, Loop,
       PollNothing, PollMessage, OnRead, SetReset, CreateConsumer, SubThrows, Goto, IInv, TypeOK
  <2> QED
    BY <1>1, <1>4, <2>1 DEF IInv, Wanting, Honoured, Wants, Tracked, Early, BeforeCopy, Choosing
<1>5. CASE pc'[s] \in BeforeCopy \cup {"choose"}
  <2>1. pc[s] \in BeforeCopy /\ pc'[s] # "choose"
    BY <1>5 DEF Plain, Spawn, CheckAutoCommit, CompareOffsets, SubNothing, ChooseSubscribe, Loop,
       PollNothing, PollMessage, OnRead, SetReset, CreateConsumer, SubThrows, Goto, BeforeCopy,
       IInv, TypeOK
  <2> QED
    BY <1>1, <1>5, <2>1 DEF IInv, Wanting, Honoured, Wants, Tracked, Early, BeforeCopy, Choosing
<1> QED
  BY <1>2, <1>3, <1>4, <1>5 DEF Early, Choosing

LEMMA NextIInv == IInv /\ [Next]_vars => IInv'
<1> SUFFICES ASSUME IInv, [Next]_vars PROVE IInv'
  OBVIOUS
<1>1. ASSUME NEW s \in Sessions, AppInit(s) \/ ExtendConfig(s) PROVE IInv'
  BY <1>1, AppInitType, ExtendType, AppInitWanting, ExtendWanting DEF IInv
<1>2. ASSUME NEW s \in Sessions,
             \/ Plain(s) \/ SetReset(s) \/ CreateConsumer(s) \/ SubThrows(s)
             \/ CopyPartitions(s) \/ Assign(s) \/ Subscribe(s)
      PROVE  IInv'
  <2>1. TypeOK'
    BY <1>2, PlainType, OtherType, EndsType DEF IInv
  <2>2. UNCHANGED <<tpo, manual, wanted>>
    BY <1>2, PlainMoves DEF SetReset, CreateConsumer, SubThrows, CopyPartitions, Assign,
       Subscribe, config, IInv
  <2>3. ASSUME NEW r \in Sessions, r # s
        PROVE  /\ partitions'[r] = partitions[r] /\ mode'[r] = mode[r]
               /\ start'[r] = start[r] /\ pc'[r] = pc[r]
    <3>1. CASE Plain(s)
      BY <2>3, <3>1, PlainMoves DEF Goto, IInv, TypeOK
    <3> QED
      BY <1>2, <2>3, <3>1 DEF SetReset, CreateConsumer, SubThrows, CopyPartitions, Assign,
         Subscribe, SubEnds, Goto, IInv, TypeOK
  <2>4. \A r \in Sessions \ {s} : Wanting(r)'
    BY <2>2, <2>3, OthersWanting
  <2>5. Wanting(s)'
    BY <1>2, PlainWanting, CopyWanting, AssignWanting, SubscribeWanting
  <2> QED
    BY <2>1, <2>4, <2>5 DEF IInv
<1>3. ASSUME NEW s \in Sessions, Stop(s) PROVE IInv'
  <2>1. TypeOK'
    BY <1>3, PlainType DEF IInv
  <2> QED
    BY <1>3, <2>1 DEF Stop, config, IInv, Wanting, Honoured, Wants, Tracked
<1>4. CASE UNCHANGED vars
  BY <1>4 DEF vars, IInv, TypeOK, Wanting, Honoured, Wants, Tracked
<1> QED
  BY <1>1, <1>2, <1>3, <1>4 DEF Next, SessionStep, SubStep, Plain

\* Theorem: the configuration and the sessions keep their types.
THEOREM TypeCorrect == Spec => []TypeOK
<1>1. IInv => TypeOK
  BY DEF IInv
<1> QED
  BY <1>1, InitIInv, NextIInv, PTL DEF Spec

\* Theorem: a session with an offset above 0 consumes its topics from the offsets
\* that were in the configuration for it, unless commits are manual, and unless
\* the Init of another session changed them before Sub made its copy: what others
\* do between the copy and the assignment, and all else they do before, is harmless.
THEOREM StartsWhereAsked == Spec => []OffsetsHonoured
<1>1. IInv => OffsetsHonoured
  BY DEF IInv, Wanting, Honoured, OffsetsHonoured
<1> QED
  BY <1>1, InitIInv, NextIInv, PTL DEF Spec

\* Theorem: what poll returns after Stop is not handed to OnRead.
NoRead == \A s \in Sessions : stop[s] /\ pc[s] # "onread" => pc'[s] # "onread"

THEOREM StoppedReadsNothing == Spec => NoReadAfterStop
<1>1. ASSUME IInv, [Next]_vars PROVE [NoRead]_vars
  <2> SUFFICES ASSUME NEW s \in Sessions, stop[s], pc[s] # "onread", Next
               PROVE  pc'[s] # "onread"
    BY <1>1 DEF NoRead
  <2> PICK r \in Sessions : Spawn(r) \/ SessionStep(r) \/ Stop(r)
    BY DEF Next
  <2>1. CASE PollMessage(r)
    BY <1>1, <2>1 DEF PollMessage, GoesOn, Goto, IInv, TypeOK
  <2>2. CASE ~PollMessage(r)
    BY <1>1, <2>2 DEF SessionStep, SubStep, Spawn, AppInit, CheckAutoCommit, CompareOffsets,
         SetReset, CreateConsumer, SubNothing, ExtendConfig, CopyPartitions, Assign,
         ChooseSubscribe, Subscribe, SubThrows, SubEnds, Loop, PollNothing, OnRead, Stop,
         Goto, IInv, TypeOK
  <2> QED
    BY <2>1, <2>2
<1>2. Spec => [][NoRead]_vars
  BY <1>1, InitIInv, NextIInv, PTL DEF Spec
<1> QED
  BY <1>2 DEF NoReadAfterStop, NoRead
-----------------------------------------------------------------------------
(* A session implements the abstract feed.                                  *)

Stream == {"loop", "poll"}

\* How a step of session s other than Stop moves it.
Prepares(s, to) == pc[s] \in Early /\ to \in Early
Opens(s, to)    == pc[s] \in Early /\ to = "loop"
Throws(s, to)   == pc[s] \in Early /\ to = "threw"
Polls(s, to)    == pc[s] \in Stream /\ to \in Stream
Delivers(s, to) == pc[s] = "poll" /\ to = "onread" /\ ~stop[s]
Finishes(s, to) == pc[s] = "onread" /\ to = "loop"
Returns(s, to)  == pc[s] \in Stream /\ to = "done" /\ stop[s]

Moves(s, to) ==
  \/ Prepares(s, to) \/ Opens(s, to) \/ Throws(s, to) \/ Polls(s, to)
  \/ Delivers(s, to) \/ Finishes(s, to) \/ Returns(s, to)

LEMMA SessionMoves ==
  ASSUME TypeOK, NEW s \in Sessions, Spawn(s) \/ SessionStep(s)
  PROVE  UNCHANGED stop /\ \E to \in Labels : Moves(s, to) /\ Goto(s, to)
<1> USE DEF Moves, Prepares, Opens, Throws, Polls, Delivers, Finishes, Returns, Early,
            BeforeCopy, Choosing, Stream, Labels, TypeOK
<1>1. CASE Spawn(s)
  BY <1>1 DEF Spawn
<1>2. CASE AppInit(s)
  BY <1>2 DEF AppInit
<1>3. CASE CheckAutoCommit(s) \/ CompareOffsets(s) \/ SetReset(s)
  BY <1>3 DEF CheckAutoCommit, CompareOffsets, SetReset
<1>4. CASE CreateConsumer(s)
  BY <1>4 DEF CreateConsumer
<1>5. CASE SubNothing(s) \/ ExtendConfig(s) \/ CopyPartitions(s) \/ ChooseSubscribe(s)
  BY <1>5 DEF SubNothing, ExtendConfig, CopyPartitions, ChooseSubscribe
<1>6. CASE Assign(s) \/ Subscribe(s) \/ SubThrows(s)
  BY <1>6 DEF Assign, Subscribe, SubThrows, SubEnds
<1>7. CASE Loop(s)
  BY <1>7 DEF Loop, GoesOn
<1>8. CASE PollNothing(s)
  BY <1>8 DEF PollNothing, GoesOn
<1>9. CASE PollMessage(s)
  BY <1>9 DEF PollMessage, GoesOn
<1>10. CASE OnRead(s)
  BY <1>10 DEF OnRead
<1> QED
  BY <1>1, <1>2, <1>3, <1>4, <1>5, <1>6, <1>7, <1>8, <1>9, <1>10 DEF SessionStep, SubStep

\* The variables of the feed, and how a step of session s changes them.
PhaseOf == [s \in Sessions |-> FeedPhase(s)]
BusyOf  == [s \in Sessions |-> pc[s] = "onread"]

PhaseAt(label) ==
  CASE label = "done" -> "over"
    [] label = "threw" -> "dead"
    [] label \in {"loop", "poll", "onread"} -> "live"
    [] OTHER -> "off"

LEMMA PhaseAtLabel ==
  /\ PhaseAt("done") = "over" /\ PhaseAt("threw") = "dead" /\ PhaseAt("onread") = "live"
  /\ \A label \in Early : PhaseAt(label) = "off"
  /\ \A label \in Stream : PhaseAt(label) = "live"
BY DEF PhaseAt, Early, BeforeCopy, Choosing, Stream

LEMMA FeedVariables ==
  ASSUME TypeOK, NEW s \in Sessions, NEW to \in Labels, Goto(s, to)
  PROVE  /\ PhaseOf' = [PhaseOf EXCEPT ![s] = PhaseAt(to)]
         /\ BusyOf' = [BusyOf EXCEPT ![s] = (to = "onread")]
         /\ PhaseOf[s] = PhaseAt(pc[s])
         /\ BusyOf[s] = (pc[s] = "onread")
<1>1. \A r \in Sessions : FeedPhase(r) = PhaseAt(pc[r]) /\ FeedPhase(r)' = PhaseAt(pc'[r])
  BY DEF FeedPhase, PhaseAt
<1>2. \A r \in Sessions : pc'[r] = IF r = s THEN to ELSE pc[r]
  BY DEF Goto, TypeOK
<1> QED
  BY <1>1, <1>2 DEF PhaseOf, BusyOf

\* Lemma: a step of a session is one of the feed, or leaves it unchanged.
LEMMA FeedSimulates ==
  ASSUME TypeOK, NEW s \in Sessions, NEW to \in Labels, Goto(s, to), Moves(s, to),
         UNCHANGED stop
  PROVE  Feed!Next \/ UNCHANGED Feed!feedVars
<1>1. /\ PhaseOf' = [PhaseOf EXCEPT ![s] = PhaseAt(to)]
      /\ BusyOf' = [BusyOf EXCEPT ![s] = (to = "onread")]
      /\ PhaseOf[s] = PhaseAt(pc[s]) /\ BusyOf[s] = (pc[s] = "onread")
      /\ stop' = stop
  BY FeedVariables
<1>2. CASE Prepares(s, to) \/ Polls(s, to)
  <2>1. PhaseAt(to) = PhaseAt(pc[s]) /\ to # "onread" /\ pc[s] # "onread"
    BY <1>2, PhaseAtLabel DEF Prepares, Polls, Early, Stream
  <2>2. PhaseOf' = PhaseOf /\ BusyOf' = BusyOf
    BY <1>1, <2>1 DEF PhaseOf, BusyOf
  <2> QED
    BY <1>1, <2>2 DEF Feed!feedVars, PhaseOf, BusyOf
<1>3. CASE Opens(s, to)
  <2>1. PhaseOf[s] = "off" /\ PhaseAt(to) = "live" /\ to # "onread" /\ ~BusyOf[s]
    BY <1>1, <1>3, PhaseAtLabel DEF Opens, Early, Stream
  <2>2. BusyOf' = BusyOf
    BY <1>1, <2>1 DEF BusyOf
  <2>3. Feed!Join(s)
    BY <1>1, <2>1, <2>2 DEF Feed!Join, Feed!Become, PhaseOf, BusyOf
  <2> QED
    BY <2>3 DEF Feed!Next
<1>4. CASE Throws(s, to)
  <2>1. PhaseOf[s] = "off" /\ PhaseAt(to) = "dead" /\ to # "onread" /\ ~BusyOf[s]
    BY <1>1, <1>4, PhaseAtLabel DEF Throws, Early
  <2>2. BusyOf' = BusyOf
    BY <1>1, <2>1 DEF BusyOf
  <2>3. Feed!Die(s)
    BY <1>1, <2>1, <2>2 DEF Feed!Die, Feed!Become, PhaseOf, BusyOf
  <2> QED
    BY <2>3 DEF Feed!Next
<1>5. CASE Delivers(s, to)
  <2>1. PhaseOf[s] = "live" /\ PhaseAt(to) = "live" /\ ~BusyOf[s] /\ ~stop[s]
    BY <1>1, <1>5, PhaseAtLabel DEF Delivers, Stream
  <2>2. PhaseOf' = PhaseOf
    BY <1>1, <2>1 DEF PhaseOf
  <2>3. BusyOf' = [BusyOf EXCEPT ![s] = TRUE]
    BY <1>1, <1>5 DEF Delivers
  <2>4. Feed!Deliver(s)
    BY <1>1, <2>1, <2>2, <2>3 DEF Feed!Deliver, PhaseOf, BusyOf
  <2> QED
    BY <2>4 DEF Feed!Next
<1>6. CASE Finishes(s, to)
  <2>1. PhaseOf[s] = "live" /\ PhaseAt(to) = "live" /\ BusyOf[s] /\ to # "onread"
    BY <1>1, <1>6, PhaseAtLabel DEF Finishes, Stream
  <2>2. BusyOf' = [BusyOf EXCEPT ![s] = FALSE]
    BY <1>1, <2>1
  <2>3. Feed!Finish(s)
    BY <1>1, <2>1, <2>2 DEF Feed!Finish, Feed!Become, PhaseOf, BusyOf
  <2> QED
    BY <2>3 DEF Feed!Next
<1>7. CASE Returns(s, to)
  <2>1. PhaseOf[s] = "live" /\ PhaseAt(to) = "over" /\ ~BusyOf[s] /\ to # "onread" /\ stop[s]
    BY <1>1, <1>7, PhaseAtLabel DEF Returns, Stream
  <2>2. BusyOf' = BusyOf
    BY <1>1, <2>1 DEF BusyOf
  <2>3. Feed!End(s)
    BY <1>1, <2>1, <2>2 DEF Feed!End, Feed!Become, PhaseOf, BusyOf
  <2> QED
    BY <2>3 DEF Feed!Next
<1> QED
  BY <1>2, <1>3, <1>4, <1>5, <1>6, <1>7 DEF Moves

\* Lemma: Stop halts the feed, once.
LEMMA StopHalts ==
  ASSUME TypeOK, NEW s \in Sessions, Stop(s)
  PROVE  Feed!Next \/ UNCHANGED Feed!feedVars
<1>1. pc' = pc /\ stop' = [stop EXCEPT ![s] = TRUE]
  BY DEF Stop
<1>2. PhaseOf' = PhaseOf /\ BusyOf' = BusyOf
  BY <1>1 DEF PhaseOf, BusyOf, FeedPhase
<1>3. CASE stop[s]
  <2>1. stop' = stop
    BY <1>1, <1>3 DEF TypeOK
  <2> QED
    BY <1>2, <2>1 DEF Feed!feedVars, PhaseOf, BusyOf
<1>4. CASE ~stop[s]
  <2>1. Feed!Halt(s)
    BY <1>1, <1>2, <1>4 DEF Feed!Halt, PhaseOf, BusyOf
  <2> QED
    BY <2>1 DEF Feed!Next
<1> QED
  BY <1>3, <1>4

\* Theorem: a Kafka session behaves as WsFeed promises, as a websocket session
\* does: OnRead is called with one message at a time, from a consumer that has
\* its topics, never for a message that came after Stop; and the session
\* returns only when it is stopped.
THEOREM Refinement == Spec => ImplementsFeed
<1>1. Init => Feed!Init
  <2> SUFFICES ASSUME Init PROVE Feed!Init
    OBVIOUS
  <2>1. \A s \in Sessions : FeedPhase(s) = "off" /\ pc[s] # "onread"
    BY DEF Init, FeedPhase
  <2> QED
    BY <2>1 DEF Init, Feed!Init
<1>2. ASSUME IInv, Next PROVE Feed!Next \/ UNCHANGED Feed!feedVars
  <2>1. TypeOK
    BY <1>2 DEF IInv
  <2>2. PICK s \in Sessions : Spawn(s) \/ SessionStep(s) \/ Stop(s)
    BY <1>2 DEF Next
  <2>3. CASE Spawn(s) \/ SessionStep(s)
    BY <2>1, <2>3, SessionMoves, FeedSimulates
  <2>4. CASE Stop(s)
    BY <2>1, <2>4, StopHalts
  <2> QED
    BY <2>2, <2>3, <2>4
<1>3. ASSUME UNCHANGED vars PROVE UNCHANGED Feed!feedVars
  BY <1>3 DEF vars, Feed!feedVars, FeedPhase
<1>4. IInv /\ [Next]_vars => [Feed!Next]_Feed!feedVars
  BY <1>2, <1>3
<1> QED
  BY <1>1, <1>4, InitIInv, NextIInv, PTL DEF Spec, ImplementsFeed, Feed!Spec

-----------------------------------------------------------------------------
(* A stopped session runs out of steps.                                     *)

LEMMA StepsLeftType ==
  ASSUME NEW s \in Sessions, pc[s] \in Labels PROVE StepsLeft(s) \in 0..11
BY DEF StepsLeft, Labels

LEMMA StoppedStep ==
  ASSUME TypeOK, NEW s \in Sessions, stop[s], Spawn(s) \/ SessionStep(s)
  PROVE  StepsLeft(s)' < StepsLeft(s)
<1> USE DEF StepsLeft, Goto, TypeOK, Labels
<1>1. CASE Spawn(s)
  BY <1>1 DEF Spawn
<1>2. CASE AppInit(s)
  BY <1>2 DEF AppInit
<1>3. CASE CheckAutoCommit(s) \/ CompareOffsets(s) \/ SetReset(s)
  BY <1>3 DEF CheckAutoCommit, CompareOffsets, SetReset
<1>4. CASE CreateConsumer(s)
  BY <1>4 DEF CreateConsumer
<1>5. CASE SubNothing(s) \/ ExtendConfig(s) \/ CopyPartitions(s) \/ ChooseSubscribe(s)
  BY <1>5 DEF SubNothing, ExtendConfig, CopyPartitions, ChooseSubscribe
<1>6. CASE Assign(s) \/ Subscribe(s) \/ SubThrows(s)
  BY <1>6 DEF Assign, Subscribe, SubThrows, SubEnds
<1>7. CASE Loop(s)
  BY <1>7 DEF Loop, GoesOn
<1>8. CASE PollNothing(s)
  BY <1>8 DEF PollNothing, GoesOn
<1>9. CASE PollMessage(s)
  BY <1>9 DEF PollMessage, GoesOn
<1>10. CASE OnRead(s)
  BY <1>10 DEF OnRead
<1> QED
  BY <1>1, <1>2, <1>3, <1>4, <1>5, <1>6, <1>7, <1>8, <1>9, <1>10 DEF SessionStep, SubStep

\* Theorem: every step of a stopped session brings it nearer to its end,
\* whatever the broker, the application and the other sessions do.
RunOut == \A s \in Sessions : RunsOut(s)

THEOREM StoppedRunsOut == Spec => StopRunsOut
<1>1. ASSUME IInv, Next PROVE RunOut
  <2> SUFFICES ASSUME NEW s \in Sessions, stop[s] PROVE RunsOut(s)
    BY DEF RunOut, RunsOut
  <2>1. PICK r \in Sessions : Spawn(r) \/ SessionStep(r) \/ Stop(r)
    BY <1>1 DEF Next
  <2>2. TypeOK /\ StepsLeft(s) \in Nat
    <3>1. TypeOK
      BY <1>1 DEF IInv
    <3>2. pc[s] \in Labels
      BY <3>1 DEF TypeOK
    <3>3. StepsLeft(s) \in 0..11
      BY <3>2, StepsLeftType
    <3> QED
      BY <3>1, <3>3
  <2>3. CASE Spawn(s) \/ SessionStep(s)
    <3>1. StepsLeft(s)' < StepsLeft(s)
      BY <2>2, <2>3, StoppedStep
    <3>2. StepsLeft(s)' \in Int
      BY <1>1, NextIInv DEF IInv, TypeOK, StepsLeft, Labels
    <3> QED
      BY <2>2, <3>1, <3>2 DEF RunsOut
  <2>4. CASE ~(Spawn(s) \/ SessionStep(s))
    <3>1. pc'[s] = pc[s]
      <4>1. CASE Stop(r)
        BY <4>1 DEF Stop
      <4>2. CASE ~Stop(r)
        <5>1. r # s /\ \E to \in Labels : Goto(r, to)
          BY <2>1, <2>2, <2>4, <4>2, SessionMoves
        <5> QED
          BY <2>2, <5>1 DEF Goto, TypeOK
      <4> QED
        BY <4>1, <4>2
    <3>2. StepsLeft(s)' = StepsLeft(s)
      BY <3>1 DEF StepsLeft
    <3> QED
      BY <2>2, <2>4, <3>2 DEF RunsOut
  <2> QED
    BY <2>3, <2>4
<1>2. IInv /\ [Next]_vars => [RunOut]_vars
  BY <1>1
<1> QED
  BY <1>2, InitIInv, NextIInv, PTL DEF Spec, StopRunsOut, RunOut

-----------------------------------------------------------------------------
(* The Parasitifer.                                                         *)

\* The thread that runs and closes does one thing at a time; what an iterator
\* has passed is done; and only the latest Run makes a session of its number.
Owner ==
  /\ OwnsItsSessions
  /\ \A i \in DOMAIN conns : madeBy[conns[i]] <= runs
  /\ run # "returned" => runs > 0 /\ \A i \in DOMAIN conns : madeBy[conns[i]] < runs

Connecting ==
  run = "connect" =>
    /\ ConnLimit # 0 => at <= ConnLimit + 1
    /\ \A i \in DOMAIN results : i < at => ~(results[i] = "v4" /\ WithinLimit(i))

Closing ==
  closeCall = "stopping" =>
    run = "returned" /\ \A i \in DOMAIN conns : i < closeAt => stop[conns[i]]

PInv == ParasitiferTypeOK /\ Owner /\ Connecting /\ Closing /\ ConnectsIfItCan

LEMMA InitPInv == ParasitiferInit => PInv
<1> SUFFICES ASSUME ParasitiferInit PROVE PInv
  OBVIOUS
<1>1. TypeOK
  BY InitIInv DEF ParasitiferInit, IInv
<1>2. ParasitiferTypeOK
  BY <1>1 DEF ParasitiferInit, ParasitiferTypeOK
<1>3. Owner
  BY DEF ParasitiferInit, Init, Owner, OwnsItsSessions
<1>4. Connecting /\ Closing /\ ConnectsIfItCan
  BY DEF ParasitiferInit, Connecting, Closing, ConnectsIfItCan
<1> QED
  BY <1>2, <1>3, <1>4 DEF PInv

\* What a new element does to a sequence.
LEMMA Appended ==
  ASSUME NEW S, NEW q \in Seq(S), NEW x \in S
  PROVE  /\ Append(q, x) \in Seq(S)
         /\ DOMAIN Append(q, x) = DOMAIN q \cup {Len(q) + 1}
         /\ Len(q) + 1 \notin DOMAIN q /\ Len(q) \in Nat /\ DOMAIN q = 1..Len(q)
         /\ \A i \in DOMAIN q : Append(q, x)[i] = q[i] /\ i < Len(q) + 1
         /\ Append(q, x)[Len(q) + 1] = x
OBVIOUS

\* Lemma: Run keeps the invariant.
LEMMA RunPInv ==
  ASSUME PInv, RunCalled \/ MustResolve \/ ConnectReturns \/ SkipEntry
  PROVE  PInv'
<1> USE KafkaParasitiferAssumption
<1>1. TypeOK'
  BY DEF PInv, ParasitiferTypeOK, RunCalled, MustResolve, ConnectReturns, SkipEntry, vars, TypeOK
<1>2. CASE RunCalled
  <2>1. ParasitiferTypeOK'
    BY <1>1, <1>2 DEF RunCalled, closeVars, PInv, ParasitiferTypeOK
  <2>2. Owner'
    BY <1>2 DEF RunCalled, vars, PInv, ParasitiferTypeOK, Owner, OwnsItsSessions, Delivered
  <2> QED
    BY <1>2, <2>1, <2>2 DEF RunCalled, vars, closeVars, PInv, Connecting, Closing, ConnectsIfItCan
<1>3. CASE MustResolve
  <2>1. ParasitiferTypeOK'
    BY <1>1, <1>3 DEF MustResolve, closeVars, PInv, ParasitiferTypeOK
  <2>2. Owner'
    BY <1>3 DEF MustResolve, vars, PInv, ParasitiferTypeOK, Owner, OwnsItsSessions, Delivered
  <2>3. Connecting'
    BY <1>3, <2>1 DEF MustResolve, Connecting, ParasitiferTypeOK
  <2> QED
    BY <1>3, <2>1, <2>2, <2>3 DEF MustResolve, vars, closeVars, PInv, Closing, ConnectsIfItCan
<1>4. CASE ConnectReturns
  <2>1. ParasitiferTypeOK'
    BY <1>1, <1>4 DEF ConnectReturns, closeVars, PInv, ParasitiferTypeOK
  <2>2. Owner'
    BY <1>4 DEF ConnectReturns, vars, PInv, ParasitiferTypeOK, Owner, OwnsItsSessions, Delivered
  <2>3. \A i \in DOMAIN results : ~(results[i] = "v4" /\ WithinLimit(i))
    BY <1>4 DEF ConnectReturns, NoMore, PInv, Connecting, ParasitiferTypeOK, WithinLimit
  <2>4. \A s \in Delivered : madeBy[s] # runs
    BY <1>4 DEF ConnectReturns, PInv, Owner, Delivered, ParasitiferTypeOK
  <2>5. ConnectsIfItCan'
    BY <1>4, <2>3, <2>4 DEF ConnectReturns, ConnectsIfItCan, Delivered, WithinLimit
  <2> QED
    BY <1>4, <2>1, <2>2, <2>5 DEF ConnectReturns, vars, closeVars, PInv, Closing, Connecting
<1>5. CASE SkipEntry
  <2>1. ParasitiferTypeOK'
    BY <1>1, <1>5 DEF SkipEntry, closeVars, PInv, ParasitiferTypeOK
  <2>2. Owner'
    BY <1>5 DEF SkipEntry, vars, PInv, ParasitiferTypeOK, Owner, OwnsItsSessions, Delivered
  <2>3. Connecting'
    BY <1>5 DEF SkipEntry, NoMore, PInv, Connecting, ParasitiferTypeOK, WithinLimit
  <2> QED
    BY <1>5, <2>1, <2>2, <2>3 DEF SkipEntry, vars, closeVars, PInv, Closing, ConnectsIfItCan
<1> QED
  BY <1>2, <1>3, <1>4, <1>5

\* Lemma: so does a new session, which ends its Run.
LEMMA ConnectPInv ==
  ASSUME PInv, NEW s \in Sessions, ConnectEntry(s)
  PROVE  PInv'
<1> USE KafkaParasitiferAssumption
<1>1. /\ conns \in Seq(Sessions) /\ madeBy \in [Sessions -> Nat] /\ runs \in Nat
      /\ conns' = Append(conns, s) /\ madeBy' = [madeBy EXCEPT ![s] = runs]
      /\ run = "connect" /\ run' = "returned" /\ runs' = runs
      /\ s \notin Delivered
  BY DEF ConnectEntry, AfterConnect, PInv, ParasitiferTypeOK
<1>2. /\ conns' \in Seq(Sessions)
      /\ DOMAIN conns' = DOMAIN conns \cup {Len(conns) + 1}
      /\ conns'[Len(conns) + 1] = s /\ Len(conns') = Len(conns) + 1
      /\ \A i \in DOMAIN conns : conns'[i] = conns[i] /\ i < Len(conns) + 1
  BY <1>1, Appended
<1>3. \A i \in DOMAIN conns : madeBy'[conns[i]] = madeBy[conns[i]] /\ madeBy[conns[i]] < runs
  BY <1>1 DEF Delivered, PInv, Owner
<1>4. ParasitiferTypeOK'
  <2>1. madeBy' \in [Sessions -> Nat]
    BY <1>1
  <2>2. TypeOK'
    BY DEF ConnectEntry, vars, PInv, ParasitiferTypeOK, TypeOK
  <2>3. closeAt' \in 1..(Len(conns') + 1)
    BY <1>1, <1>2 DEF ConnectEntry, closeVars, PInv, ParasitiferTypeOK
  <2> QED
    BY <1>1, <1>2, <2>1, <2>2, <2>3
       DEF ConnectEntry, AfterConnect, closeVars, PInv, ParasitiferTypeOK
<1>5. Owner'
  <2>1. ASSUME NEW r \in Sessions, pc'[r] # "idle" PROVE r \in Delivered'
    BY <1>2, <2>1 DEF ConnectEntry, vars, PInv, Owner, OwnsItsSessions, Delivered
  <2>2. ASSUME NEW i \in DOMAIN conns', NEW j \in DOMAIN conns', i < j
        PROVE  madeBy'[conns'[i]] < madeBy'[conns'[j]]
    <3>1. i \in DOMAIN conns
      BY <1>2, <1>1, <2>2
    <3>2. CASE j \in DOMAIN conns
      BY <1>2, <1>3, <2>2, <3>1, <3>2 DEF PInv, Owner, OwnsItsSessions
    <3>3. CASE j = Len(conns) + 1
      BY <1>1, <1>2, <1>3, <3>1, <3>3
    <3> QED
      BY <1>2, <3>2, <3>3
  <2>3. ASSUME NEW i \in DOMAIN conns' PROVE madeBy'[conns'[i]] <= runs'
    BY <1>1, <1>2, <1>3
  <2> QED
    BY <1>1, <2>1, <2>2, <2>3 DEF Owner, OwnsItsSessions
<1>6. ConnectsIfItCan'
  <2>1. s \in Delivered' /\ madeBy'[s] = runs'
    BY <1>1, <1>2 DEF Delivered
  <2>2. at \in DOMAIN results /\ results[at] = "v4" /\ WithinLimit(at)
    BY DEF ConnectEntry, NoMore, PInv, Connecting, ParasitiferTypeOK, WithinLimit
  <2> QED
    BY <2>1, <2>2 DEF ConnectEntry, ConnectsIfItCan, WithinLimit
<1> QED
  BY <1>1, <1>4, <1>5, <1>6 DEF ConnectEntry, closeVars, PInv, Connecting, Closing

\* Lemma: Close keeps the invariant.
LEMMA ClosePInv ==
  ASSUME PInv, CloseStarts \/ CloseStops \/ CloseReturns
  PROVE  PInv'
<1>1. CASE CloseStarts
  <2>1. ParasitiferTypeOK'
    BY <1>1 DEF CloseStarts, vars, owned, PInv, ParasitiferTypeOK, TypeOK
  <2> QED
    BY <1>1, <2>1 DEF CloseStarts, vars, owned, PInv, Owner, OwnsItsSessions,
       Delivered, Connecting, Closing, ConnectsIfItCan, ParasitiferTypeOK
<1>2. CASE CloseStops
  <2>1. closeAt \in DOMAIN conns /\ conns[closeAt] \in Sessions /\ Len(conns) \in Nat
    BY <1>2 DEF CloseStops, PInv, ParasitiferTypeOK
  <2>2. TypeOK'
    BY <1>2, <2>1, PlainType DEF CloseStops, PInv, ParasitiferTypeOK
  <2>3. ParasitiferTypeOK'
    BY <1>2, <2>1, <2>2 DEF CloseStops, owned, PInv, ParasitiferTypeOK
  <2>4. Owner' /\ Connecting' /\ ConnectsIfItCan'
    BY <1>2 DEF CloseStops, Stop, owned, PInv, Owner, OwnsItsSessions, Delivered,
       Connecting, ConnectsIfItCan
  <2>5. stop' = [stop EXCEPT ![conns[closeAt]] = TRUE]
    BY <1>2 DEF CloseStops, Stop
  <2>6. ASSUME NEW i \in DOMAIN conns, i < closeAt + 1 PROVE stop'[conns[i]]
    BY <1>2, <2>1, <2>5, <2>6 DEF CloseStops, PInv, Closing, ParasitiferTypeOK, TypeOK
  <2>7. Closing'
    BY <1>2, <2>6 DEF CloseStops, owned, PInv, Closing
  <2> QED
    BY <2>3, <2>4, <2>7 DEF PInv
<1>3. CASE CloseReturns
  <2>1. ParasitiferTypeOK'
    BY <1>3 DEF CloseReturns, vars, owned, PInv, ParasitiferTypeOK, TypeOK
  <2> QED
    BY <1>3, <2>1 DEF CloseReturns, vars, owned, PInv, Owner, OwnsItsSessions,
       Delivered, Connecting, Closing, ConnectsIfItCan
<1> QED
  BY <1>1, <1>2, <1>3

\* What the sessions do leaves the owner alone, but for the stop flags, which
\* are never cleared.
LEMMA SessionsOnly ==
  ASSUME PInv, NEW s \in Sessions, TakenUp(s) \/ Session(s) \/ StopsItself(s)
  PROVE  /\ [Next]_vars /\ UNCHANGED <<owned, closeVars>>
         /\ \A r \in Sessions : stop[r] => stop'[r]
         /\ \A r \in Sessions : pc[r] = "idle" /\ pc'[r] # "idle" => r \in Delivered
<1> USE DEF PInv, ParasitiferTypeOK, TypeOK
<1>1. CASE TakenUp(s)
  BY <1>1 DEF TakenUp, Spawn, Goto, Next, config
<1>2. CASE StopsItself(s)
  BY <1>2 DEF StopsItself, Stop, Next, config
<1>3. CASE Session(s)
  <2>1. SessionStep(s) /\ UNCHANGED <<owned, closeVars>>
    BY <1>3 DEF Session
  <2>2. UNCHANGED stop
    BY <2>1, SessionMoves DEF PInv, ParasitiferTypeOK
  <2>3. pc[s] # "idle" /\ \E label \in Labels : Goto(s, label)
    <3>1. pc[s] # "idle"
      BY <2>1 DEF SessionStep, SubStep, AppInit, CheckAutoCommit, CompareOffsets, SetReset,
         CreateConsumer, SubNothing, ExtendConfig, CopyPartitions, Assign, ChooseSubscribe,
         Subscribe, SubThrows, Loop, PollNothing, PollMessage, OnRead
    <3> QED
      BY <2>1, <3>1, SessionMoves
  <2>4. \A r \in Sessions : pc[r] = "idle" => pc'[r] = "idle"
    BY <2>3 DEF Goto
  <2> QED
    BY <2>1, <2>2, <2>4 DEF Next
<1> QED
  BY <1>1, <1>2, <1>3

\* Lemma: every step is one of KafkaConsumer, or changes nothing there.
LEMMA StepRefines == ASSUME PInv, [ParasitiferNext]_allVars PROVE [Next]_vars
<1>1. CASE RunCalled \/ ConnectStep \/ CloseStarts \/ CloseReturns
  BY <1>1 DEF RunCalled, ConnectStep, MustResolve, ConnectReturns, SkipEntry, ConnectEntry,
     CloseStarts, CloseReturns
<1>2. CASE CloseStops
  <2>1. conns[closeAt] \in Sessions
    BY <1>2 DEF CloseStops, PInv, ParasitiferTypeOK
  <2> QED
    BY <1>2, <2>1 DEF CloseStops, Next
<1>3. CASE \E s \in Sessions : TakenUp(s) \/ Session(s) \/ StopsItself(s)
  BY <1>3, SessionsOnly
<1>4. CASE UNCHANGED allVars
  BY <1>4 DEF allVars
<1> QED
  BY <1>1, <1>2, <1>3, <1>4 DEF ParasitiferNext, CloseStep

LEMMA NextPInv ==
  ASSUME PInv, TypeOK', [ParasitiferNext]_allVars
  PROVE  PInv'
<1>1. ASSUME NEW s \in Sessions, TakenUp(s) \/ Session(s) \/ StopsItself(s) PROVE PInv'
  <2>1. /\ UNCHANGED <<owned, closeVars>>
        /\ \A r \in Sessions : stop[r] => stop'[r]
        /\ \A r \in Sessions : pc[r] = "idle" /\ pc'[r] # "idle" => r \in Delivered
    BY <1>1, SessionsOnly
  <2>2. ParasitiferTypeOK'
    BY <2>1 DEF owned, closeVars, PInv, ParasitiferTypeOK
  <2>3. Owner' /\ Connecting' /\ ConnectsIfItCan'
    BY <2>1 DEF owned, closeVars, PInv, Owner, OwnsItsSessions, Delivered, Connecting,
       ConnectsIfItCan
  <2>4. \A i \in DOMAIN conns : conns[i] \in Sessions
    BY DEF PInv, ParasitiferTypeOK
  <2>5. Closing'
    BY <2>1, <2>4 DEF owned, closeVars, PInv, Closing
  <2> QED
    BY <2>2, <2>3, <2>5 DEF PInv
<1>2. CASE UNCHANGED allVars
  BY <1>2 DEF allVars, vars, owned, closeVars, PInv, ParasitiferTypeOK, TypeOK, Owner,
     OwnsItsSessions, Delivered, Connecting, Closing, ConnectsIfItCan
<1> QED
  BY <1>1, <1>2, RunPInv, ConnectPInv, ClosePInv DEF ParasitiferNext, ConnectStep, CloseStep

LEMMA PInvAlways == ParasitiferSpec => [](PInv /\ IInv)
<1>1. ParasitiferInit => PInv /\ IInv
  BY InitPInv, InitIInv DEF ParasitiferInit
<1>2. PInv /\ IInv /\ [ParasitiferNext]_allVars => (PInv /\ IInv)'
  <2> SUFFICES ASSUME PInv, IInv, [ParasitiferNext]_allVars PROVE PInv' /\ IInv'
    OBVIOUS
  <2>1. IInv'
    BY StepRefines, NextIInv
  <2> QED
    BY <2>1, NextPInv DEF IInv
<1> QED
  BY <1>1, <1>2, PTL DEF ParasitiferSpec

\* Theorem: with their Parasitifer, the sessions behave as KafkaConsumer says,
\* so that all that is proved of them there holds here.
THEOREM SessionsAsSpecified == ParasitiferSpec => Spec
<1>1. ParasitiferInit => Init
  BY DEF ParasitiferInit
<1>2. PInv /\ [ParasitiferNext]_allVars => [Next]_vars
  BY StepRefines
<1> QED
  BY <1>1, <1>2, PInvAlways, PTL DEF ParasitiferSpec, Spec

\* Theorem: so the sessions a Parasitifer owns implement the feed, which is
\* what the relay assumes of them.
THEOREM OwnedSessionsFeed == ParasitiferSpec => ImplementsFeed
BY SessionsAsSpecified, Refinement, PTL

\* Theorem: the Parasitifer keeps its types.
THEOREM OwnerTypeCorrect == ParasitiferSpec => []ParasitiferTypeOK
<1>1. PInv => ParasitiferTypeOK
  BY DEF PInv
<1> QED
  BY <1>1, PInvAlways, PTL

\* Theorem: all that runs is in conns_, once, and each Run has made one at most.
THEOREM OneSessionPerRun == ParasitiferSpec => []OwnsItsSessions
<1>1. PInv => OwnsItsSessions
  BY DEF PInv, Owner
<1> QED
  BY <1>1, PInvAlways, PTL

\* Theorem: a Run makes a session exactly if the limit lets it see an address it
\* can use.
THEOREM RunConnects == ParasitiferSpec => []ConnectsIfItCan
<1>1. PInv => ConnectsIfItCan
  BY DEF PInv
<1> QED
  BY <1>1, PInvAlways, PTL

\* Theorem: a Close that returns has stopped every session.
Stopping ==
  closeCall = "stopping" /\ closeCall' = "returned" => \A s \in Delivered : stop[s]

THEOREM CloseReachesAll == ParasitiferSpec => CloseStopsAll
<1>1. PInv /\ [ParasitiferNext]_allVars => [Stopping]_allVars
  <2> SUFFICES ASSUME PInv, ParasitiferNext, closeCall = "stopping", closeCall' = "returned"
               PROVE  \A s \in Delivered : stop[s]
    BY DEF Stopping
  <2>1. CloseReturns
    BY DEF ParasitiferNext, ConnectStep, CloseStep, RunCalled, MustResolve, ConnectReturns,
       SkipEntry, ConnectEntry, CloseStarts, CloseStops, TakenUp, Session, StopsItself, closeVars
  <2> QED
    BY <2>1 DEF CloseReturns, AllStopped, PInv, Closing, Delivered, ParasitiferTypeOK
<1>2. ParasitiferSpec => [][Stopping]_allVars
  BY <1>1, PInvAlways, PTL DEF ParasitiferSpec
<1> QED
  BY <1>2 DEF CloseStopsAll, Stopping
=============================================================================
