# kn: specifications, model checking and proofs

`kn` is a header-only C++ library for market-data services: clients that hold
websocket feeds or consume Kafka topics and relay what they receive. This
directory holds TLA+ modules translated from its headers, TLC configurations
that check them on small instances, and proofs checked by TLAPS.

## 1. The system

Sources are below `src/kn`. Everything runs on `boost::asio::io_context`s that
the application drives; each session is a stackful coroutine
(`boost::asio::spawn`).

| Component | State | Operations | Hard behaviour |
|---|---|---|---|
| ws session, `net/src/ws/conn.h` | `stream_`, `buffer_`, `subs_`, `stop_` | `DoSession` (reconnect loop, read loop), `Stop` | every `yield[ec]` is a point where `Stop` or the peer overtakes it; errors are logged and gone past |
| ws back-off, `ReConnectRate` in `conn.h` | `last_reconnect_ts_`, `connect_fail_count_` | called before every attempt | a 20 s window, delays of up to 11 minutes, a system clock that is set |
| ws Parasitifer, `ws/parasitifer.h` | `results_`, `conns_` | `Run` (resolve, start the sessions), `Close`, destructor | `Close` calls a `Stop` that may throw; sessions refer to `results_` |
| Kafka session, `kafka/conn.h` | `consumer_`, `subs_`, `stop_` | `DoSession`, `Init`, `Sub`, `Stop` | `poll` blocks the thread of the io_context |
| Kafka `BaseConfig`, `kafka/base_config.h` | `tpo_info_`, `config`, commit flags | setters, topic map | one object shared by all the sessions, unlocked |
| relay, `ws/relay_conn.h`, `kafka/relay_conn.h`, with `kafka::Producer` and `udp::Conn` | `receivers_`, `kafka_receivers_`, the producers' queues | the `Send`s of `UdpReceivers` | several sessions share the receivers; errors are swallowed or overwritten; a flush waits for the broker |
| Kafka Parasitifer, `kafka/parasitifer.h` | `results_`, `conns_` | `Run` (one session each), `Close` | sessions wait for a thread that others hold; `Close` may come before they start |
| udp Server, `udp/server.h` | `socket_`, one `buffer_` | receive loop, destructor | one buffer for all datagrams; the loop ends at any error; a handler outlives the object |
| quic server, `quic/srv.h`, `handler.h` | `handlers_` | `make`, destructor, callbacks | several event-base threads push to one vector; the destructor hands each deletion to another thread |
| tool `Thread`, `PrometheusGateway` | `th_`, `stop_`, `gateway_` | `Start`, `Stop`, `Join` | plain flags between threads; the destructor does not join |
| tool conversions (`datetime.h`, `str_to_number.h`, `validater.h`) | none | pure functions | width of integers, malformed input |
| `log`, `def`, aws, nice | none | output, macros, system calls | none |

The Parasitifer owns the sessions and starts them; a session calls the
application's `Init` and `OnRead`; the relay connections are sessions whose
`OnRead` sends each message to UDP and Kafka receivers; a `udp::Server` in another
process is what listens behind the former. Nothing is persisted,
so there is no crash recovery to speak of; what takes its place is
reconnection.

What makes the components correct:

- *session*: messages come only from a connection that is completely
  subscribed; a message is handed over whole; a lost connection is replaced;
  once stopped the session neither delivers nor reconnects, comes to an end and
  leaves no socket open;
- *back-off*: the rate of attempts is bounded;
- *Parasitifer*: `conns_` lists exactly the running sessions, within the limit,
  and `Close` reaches all of them;
- *Kafka session*: consumption starts where the configuration that `Sub` copies says,
  whatever other sessions do to the shared object afterwards; a stopped session ends;
- *relay*: every receiver is served, in order, whatever happens to the others; no
  relay hangs on a receiver; a stopped one begins nothing;
- *lifetimes*: which calls of the application may lead to the use of something
  deleted, and that no other does;
- *udp Server*: what the socket accepts is handed over once and in order, from a
  buffer nobody else writes;
- *quic server*: a handler outlives its transport, and is deleted once, on its own
  thread;
- *conversions*: a timestamp is read in the unit it was written in, or refused;
- *worker*: no thread outlives the handle that can join it, a `Stop` is never lost,
  and `Join` returns.

## 2. Modules

| Module | Models |
|---|---|
| `WsConn` | the websocket session with `Stop` (detailed specification) |
| `WsFeed` | what a session of either kind promises its application (abstract specification) |
| `WsParasitifer`, `MCWsParasitifer` | the owner, composed with the sessions of `WsConn` |
| `WsLifetime` | who deletes and who uses streams, entries and connections, over the session of `WsConn` |
| `ReConnectRate`, `MCReConnectRate` | the back-off alone, with time |
| `KafkaConsumer`, `MCKafkaConsumer` | Kafka sessions sharing a `BaseConfig` and threads |
| `KafkaParasitifer`, `MCKafkaParasitifer` | their owner, composed with them |
| `Relay` | the relays, over the sessions as `WsFeed` promises them, with UDP receivers and producers |
| `UdpServer` | the receive loop of `udp::Server` |
| `RelayUdp` | `Relay` and, behind its first receiver, `UdpServer` |
| `QuicServer` | `SrvTransportFactory` with its handlers, on several threads |
| `Worker` | `Thread`, and `PrometheusGateway` as one |
| `Timestamp` | conversions of Unix timestamps, as operators |
| `WsConn_proof`, `WsParasitifer_proof`, `WsLifetime_proof`, `ReConnectRate_proof`, `Kafka_proof`, `Relay_proof` (with `RelayUdp`), `QuicServer_proof`, `Tool_proof` (`Worker`, `Timestamp`) | the theorems about the others |

### WsConn

`pc[c]` is the point of `DoSession` where the coroutine is suspended, blocked,
or about to read `stop_`: `start` is the loop at the label START, `closeRe`,
`rate`, `connect`, `tls`, `handshake`, `sub` are the stages of `ReConnect`
(`ret` tells which of the two loops it returns to), `loop` and `read` are the
read loop, `onread` the call of the application, `closeCtrl` and `closeEnd` the
two other closes, `done` and `threw` the ends. An action is all that happens
from one such point to the next. `stop` is `stop_`; `stopCall` follows the body
of `Stop()`, whose two statements are two actions (`StopCall`, `StopClose`), so
that every step of the session can come between them.

The Beast stream is external. `ws` is its status (`failed` after an error,
`closed` when new or closed), `tcp` says whether the socket under it is open.
What is relied on: an operation succeeds only on an open stream; an operation on
a closed or failed one completes with `operation_aborted`; `is_open()` is the
status `open`; `close` without an error code argument reports by throwing.
`buf` counts the bytes of `buffer_`, `size` those of the message in hand; a
subscription is a number, a message a number of bytes. An error code is chosen
among those the code tells apart, so that each branch on it is a disjunct:
`stream_truncated`, which is cleared and taken for a success, is
`HandShakeTruncated`. `Conn<true>` and `Conn<false>` are one model with
`EnableSSL`; the TLS variant adds `TlsStep` (its blocking handshake, and the
`Ctrl` values that `Conn<false>` ignores).

### WsFeed

A feed is off, joining, live, over or dead. It delivers only when live and not
halted, and only one message at a time; losing it and joining again, in any
order, is all that may come between. `WsConn!ImplementsFeed` is the refinement:
`phase` is read off `pc`, `ws` and `Subscribed`, `busy` is `pc = "onread"`,
`halted` is `stop_`. `KafkaConsumer!ImplementsFeed` is that of the consumer session,
which is off until `Sub` has returned and live from then to its end, so that what
`Relay` assumes of its sessions holds for the relays of both kinds.

### WsParasitifer

Extends `WsConn`. A session is named by the position of its address in
`results_`, so `conns_` is a sequence of such positions. `Connect` is one action
per iteration (`ConnectEntry`, `SkipEntry`), `Close` one per `Stop` begun and
ended. `Close` may be called again, as often as one likes; not before `Run` has
returned.

### WsLifetime

Extends `WsConn` with the objects that it takes for granted. `object` is the stream
`stream_` points to, `held` the one a `Stop` has read from it: `Close` evaluates
`stream()` and then closes, which are two actions here (`StopReads`,
`StopEndsClose`), and `delete stream_` in `ReConnect` may come between. A session's
step uses its stream, and its entry where it logs the address: at the end of every
operation, at a read that failed (`UsesEntry`), after OnRead if that left an error code
(`MayUseEntry`); a control frame that arrives during a read logs it as well
(`ControlCallBack`), and so does a `Stop` whose close succeeded (`Logs`).
The application may call a second `Run` and either destructor at any time, while
sessions run and while a `Stop` is blocked in its close. `misused` says what it did at a
wrong time: a `Stop` during the close or back-off of `ReConnect`, or by a `Close` that has
outlived its Parasitifer; a `Run` or a destructor before the sessions concerned are at
rest (`AtRest`), which means that they have ended *and* that no `Stop` of theirs is still
closing. `faults` is what went wrong, and the properties relate the two. After a fault
nothing is modelled: what the program does then is undefined. Nor is a call of `Run`, a
new session or a second destruction on a Parasitifer that is gone already (`up`).

### ReConnectRate

`since` is the distance of the system clock to `last_reconnect_ts_`, `count` is
`connect_fail_count_`. A stopwatch of the model (`attempts`, `elapsed`) is
started at any attempt, by choice; it is what the rate is measured with.
Differences of timestamps are taken modulo `Modulus`, as the unsigned code does.

### KafkaConsumer

`tpo`, `autoCommit`, `manual` and `reset` are the `BaseConfig`, the rest is per
session. Nothing locks the `BaseConfig`, so every access to it is a step of its own,
and sessions on other threads come between any two of them: `Init` reads the commit
mode (`CheckAutoCommit`), then the offsets (`CompareOffsets`), sets the policy
(`SetReset`) and makes the consumer (`CreateConsumer`); `Sub` adds the topics the broker
has (`ExtendConfig`), copies the map (`CopyPartitions`, into `partitions`), decides by the
copy and the mode (`MustAssign`), and then assigns the copy (`Assign`) or reads the map
again and subscribes to what is in it by then (`ChooseSubscribe`, `Subscribe`).
Offsets are the three kinds the code tells apart: 0 or -2, -1, and above 0. A consumer
is external: `policy` is the `auto.offset.reset` it was made with, `start` where each of
its topics is consumed from; a topic that was subscribed to starts where the `group`
has got to. `wanted` is a history variable, nothing of the code: the offsets that were in
the configuration when the session's own `Init` returned or its `Sub` added them, but
for those the `Init` of another session has changed before the copy. A running session
holds a thread (`ThreadFree`), since `poll` blocks and nothing else suspends the
coroutine. `AppInit` is the virtual `Init` of the application, which may call any
operation on the topic map, or change the commit modes.

### KafkaParasitifer

Extends `KafkaConsumer`, all of whose variables it leaves to the sessions. Unlike the
ws one, `Connect` stops after the first session (`AfterConnect`), so that several
sessions need several `Run`s (`MaxRuns` bounds them); `madeBy` records which Run made
a session. `ConnectEntry` spawns a session, `TakenUp` is a thread that begins to
run it.

### Relay

The sessions are an instance of `WsFeed`, so that what is checked here holds for
every session that keeps that promise; those of `WsConn` and of `KafkaConsumer` do, also
under their Parasitifers. What an application's OnRead
does is any number of calls of `Send` (`MaxMsg` bounds them). The two loops of
`UdpReceivers::Send` are one sequence of receivers, `pos` the one a session is at;
one call to one receiver is one action, and `ProduceThrows`, `Flush` and the
failing half of `SendUdp` are the paths on which the error is logged and gone past.
`Send` never suspends the coroutine: sessions interleave only as there are threads
(`ThreadFree`). The producers' client library is external: `queued` is its queue,
which `Settle` empties.

### UdpServer and RelayUdp

`receive` is the one receive there is: armed, ended and waiting for its handler
(`ready`, `failed`), or none. `Handle` calls `func_`, `HandleReturns` is what follows,
`StartRecv` included; an error and an exception leave the loop. `Destroy` requires
that no handler is ready or running, which the code leaves to its owner; what it
does not exclude is a receive outstanding, whose handler runs when the object is gone.
`RelayUdp` puts the socket behind the first receiver of `Relay`: a datagram that
`send_to` takes arrives at once or is lost (`Carry`), which is UDP within a host.

### QuicServer

`make` is two steps besides the construction, because `push_back` reads the end of
the vector and writes it later, on as many threads as there are workers. Where two of
them overlap, `raced` is set and the model loses an element as the code might; the
properties say what holds without that race. mvfst is external: it calls `make` and a
connection's callbacks on its worker, closes a worker's connections when the worker
is shut down, and destroys the factory after the last. `Drain` and `Pop` are the two
halves of `runImmediatelyOrRunInEventBaseThreadAndWait`.

### Timestamp

No state: `StrUnixTsToTP`, `UnixTsToTP`, `NowTS` and `StrToNum` as operators, with the
unsigned-to-signed conversion and the rounding of `duration_cast`. A string is what
`from_chars` makes of it and its length.

### Worker

`work` is where each thread is in `Thread::Run`. `Start` and the destructor are two
steps each, because the new thread runs before the old handle is dropped and the
gateway is deleted before the handle is: `Terminate` is the destructor of a
`std::thread` that can still be joined. What `DoWork` returns is any of the three
cases the loop tells apart; `PrometheusGateway` is the case that sleeps.

## 3. Runs

| Run | Question | Bounds | Distinct states |
|---|---|---|---|
| `ws` | what the application sees of a session; refinement; how many steps a `Stop` leaves it; does it end, is a lost stream replaced? | 1 session (TLS), 2 subscriptions, 2 bytes per read | 620 |
| `ws_parasitifer` | which sessions run (plain TCP); what `Close` reaches; do all end after a `Close` that returned? | see `MCWsParasitifer`: 3 addresses of both families, limit 2, 1 subscription | 89115 |
| `ws_lifetime` | which calls lead to a use of something deleted? | 1 session (TLS), 1 subscription | 12914 |
| `backoff` | how many attempts in 20 s? | 3 draws, attempts of 0, 16 and 30 s, lives around the window, 52 failures | 27029 |
| `kafka` | where consumption starts; refinement of `WsFeed`, `Stop` included | 2 sessions, 2 topics, 2 threads, symmetry of both | 777833 |
| `kafka_parasitifer` | which sessions the Runs start; what `Close` reaches; do stopped sessions end, do waiting ones get a thread? | see `MCKafkaParasitifer`: 2 sessions, 1 topic, 1 thread, 2 Runs, limit 2, 3 addresses | 747536 |
| `relay` | who gets what, in which order; `Stop`; does `Send` return without a broker? | 2 relays on 2 threads, 1 UDP receiver, 1 flushing producer with a queue of 1, 2 messages | 787123 |
| `relay_udp` | on one thread: do the receivers and the application behind the server agree; what does the server hand over? | 2 relays, 1 UDP receiver, 1 producer, 1 message each, a socket of 1 datagram | 191178 |
| `worker` | which threads may run; what `Stop` leaves them to do; does `Join` return? | 3 starts | 510 |
| `quic` | who owns and deletes a handler; does the destructor come nearer to its end with each step, and end? | 2 workers, 4 connections | 197358 |
| `backoff_reset`, `kafka_strict` | comments that the code does not keep (section 6) | | |

Why these bounds: sessions share nothing, so one session of `WsConn` shows all
that several do (the proofs cover any number, and `Conn<false>`, which the
Parasitifer's run uses, as well); two subscriptions let one fail and
the other succeed; two bytes let a message be cut in the middle. Of a Close, two
sessions are needed for one to be behind another. The back-off has five regimes,
which change at 2, 5, 10 and 50 failures: 52 reaches them all. Two sessions are
enough for one to change what the other has read of the shared configuration.
One more session than threads is enough for one
to wait; the limit and the break need addresses in front of, at and behind the limit.
Two relays overtake each other between receivers as soon as there are two; two
messages each let order within a relay go wrong, and a queue of one is full after
the first; a socket of one is full at the second datagram. A handler needs one in front
of it and one behind on the same thread, and another thread's between: four connections
give all such orders. A third start is the first whose predecessor was itself a second one.
`Modulus` is smaller than 2^64 only because TLC counts in 32 bits; no distance
comes near it but by a clock set back, which is the case it is there for.

Deadlock is not checked: a session that ended, a pool without free threads, a
`Parasitifer` that has been closed, a server that was destroyed and a process that was
terminated do stop.

### Properties

- `FeedReady`: OnRead runs, and an open stream is read, only when `Init` and all
  subscriptions have gone through on it. It holds although a failed write is only
  logged, because a failed write also fails the stream.
- `MessageWhole`: `buffer_` outlives the stream; bytes of a broken read never
  precede the next message.
- `EndedClean`: a session returns only when stopped, and leaves a dead stream and
  a closed socket, whatever the concurrent close of `Stop` did.
- `StopRunsOut` (ws): every step of a stopped session brings it nearer to its end
  (`StepsLeft`), whatever the peer answers and however far `Stop` itself has come: no
  loop of `DoSession`, no reconnection and no `Sub` is gone through twice.
- `StopEnds`, `Recovers`: liveness, below.
- `ImplementsFeed` (ws, kafka): in particular, no message is delivered after `Stop`,
  nor one that `poll` returns after it.
- `OwnsItsSessions` (ws): `conns_` holds the running sessions, each once, all of
  IPv4, within the limit (the code counts addresses, not sessions).
- `CloseStopsAll`, `TailOutOfReach`: `Close` that returns has stopped all. But
  `Stop` throws at a stream that is dead, and `Close` does not go on: once a
  session in front has ended, later calls never reach those behind it. The
  second property states this behaviour of the code as it is; nothing in the
  repository says otherwise, so it is no finding of section 6.
- `CloseEnds` (ws): after a `Close` that returned all sessions end.
- `StreamAlive`: a deleted stream is used only if `Stop` came while `ReConnect` was
  closing or backing off, or a destructor ran before the session had ended and every
  `Stop` of it had returned. The second half counts: a session ends without waiting for
  the `Stop` that is blocked in `close` (conn.h:126) on the same stream, so an owner that
  only waits for its sessions may delete the stream under that close. Otherwise
  calling `Stop` on another thread is safe at all times: `stop_` is set before
  `stream_` is read, and no later attempt deletes the stream.
- `EntryAlive`: a replaced entry is used, by a session, a control frame or a `Stop` that
  logs its success, only if `Run` is called again before all sessions have ended and all
  `Stop`s have returned.
- `DeletedOnce`, `NeverBoth`: if sessions and `Stop`s end, then the Parasitifer goes, and
  the connections are never deleted, each stream is deleted once. There is no right time
  to delete a connection: `~StreamEntry` and `~ParasitiferBase` both delete its
  stream, and the latter does not clear `stream_`. The properties state the code as
  it is; nothing in the repository promises otherwise.
- `RateLimit`: at most 12 attempts in less than 20 s in which the clock is not
  set: the delays before the third to the thirteenth add up to more. The 20 s may begin
  right after a clock set back has cleared the count; of the attempts on both sides of a
  setting it says nothing.
- `NeverForgets`: the counter is at least the number of attempts in such 20 s.
- `OffsetsHonoured`: a session with an offset above 0 and no manual commit assigns, and
  consumes every topic from the offset that its own `Init` left in the configuration, or
  its `Sub` found or added there. The one thing that can come between is the `Init` of another
  session before `Sub` makes its copy; what other sessions do between the copy and the
  assignment is harmless, because the decision and the assignment both use the copy. A
  session that read the map again, as it does to subscribe, would violate it.
- `OwnsItsSessions`, `ConnectsIfItCan`, `CloseStopsAll` (kafka): one session per Run
  at most, and one exactly if a usable address is within the first `conn_count_`;
  `Close` reaches all of them in whatever state, since its `Stop` cannot throw.
- `TurnComes`: a waiting session starts when the others are stopped. `CloseEnds`
  (kafka): if all are stopped, those that had not started included, all end.
- `EveryReceiverTried`: each receiver has taken or refused each message, exactly
  one of the two, by the time `Send` returns; so a failing receiver costs the
  others nothing. In the run the receiver that fails in front of another is the UDP one;
  that a producer which throws leaves those behind it their message is what the theorem
  `AllTried` adds.
- `InOrder`: a receiver gets the messages of one relay in order and once, for any
  number of threads. `OneOrder`: on one thread, and only there, the
  receivers, and `func_` of the server behind the first of them, agree on the order of
  different relays' messages too, and `func_` gets none twice.
- `BufferStable`: while `func_` runs, `buffer_` holds its datagram and no receive is
  under way. `NothingLost`: what the socket accepted has been given to `func_`, once
  and in order, or waits. `NoUseAfterDestroy`,
  which is proved and no run's property: the handler of the aborted receive does nothing. `Served`: what is accepted is handed over, unless the loop has ended.
- `NoRelayAfterStop`: a relay stopped during OnRead may finish it, and all its
  `Send`s; one stopped otherwise sends nothing more.
- `SendReturns`: the flush inside `Send` ends even if the broker never answers.
- `NoOrphan`: a thread that runs is the one `th_` holds unjoined, or was started
  just now; so none runs in an object that was joined or destroyed, unless the
  process is about to be terminated for it. It does not keep `DoWork` from using a
  gateway that was deleted: nothing in the code does, but for an owner that joins first.
- `CallbackAlive`: no handler is deleted that a transport may still call. `OwnedOnce`:
  without a race, `handlers_` holds each handler once from `make` to its deletion: the
  race of two `push_back`s is the only way to lose one, and what it does besides is not
  bounded by any property.
  `FreedOnOwnThread`: the destructor deletes each on its own event-base thread.
  `DrainShrinks`: whatever happens while it does so brings it nearer to its end
  (`DrainLeft`); `DrainEnds`: it gets there.
- `StopRunsOut` (worker): once `stop_` is set a thread calls `DoWork` at most once
  more and sleeps at most once; one that is only started then calls nothing. `JoinReturns`: after a `Stop`, `Join` returns.

### Fairness

`WsConn!FairSpec` is weakly fair to `Advance(c)`: connecting has a timeout of
16 or 30 s, the websocket handshake and closing one of 32 s, the back-off is a
timer, an operation on a dead stream is aborted at once, and OnRead is the
application's and taken to return. It is not fair to a read on an open stream
(with keep-alive pings an idle feed may be silent for ever), nor to the TLS
handshake: it blocks and no timer can end it, so `StopEnds` and `CloseEnds` have
the return of handshakes (`TlsReturns`) as a premise. `StopClose` is fair: it
assumes that the peer answers the close or the connection drops, and that `Stop`
is not called on the thread that has to run the session. `KafkaParasitifer` is
fair to the sessions, because `poll` has a timeout and OnRead is taken to return; to
`TakenUp`, a free thread of the io_context, which the application runs again when a
session threw; and to `CloseStep`, the loop of `Close`. It is not fair to `MustResolve`:
a name may never be resolved. `Relay!FairSpec` is fair to the steps inside `Send`
only: `produce` and `send_to` do not wait, and `flush()` is called without a timeout
of its own, which for cppkafka means the producer's, after which it throws. Neither
`Settle` (the broker) nor OnRead is fair. `UdpServer` and `RelayUdp` are fair to the
receive loop (the io_context is run, `func_` returns or throws), not to arrivals, errors or
the destructor. `QuicServer` is fair to the destructor's thread and to the event bases
running what is posted, which mvfst keeps up until the factory is gone. `Worker!FairSpec` is fair to the loop of
`Run`, not to `DoWork`: `PrometheusGateway` waits there for an answer without a
timeout, so that `JoinReturns` has the return of `DoWork` as a premise. No strong
fairness is assumed.

## 4. Proofs

All assumptions are the named ones on constants in `WsConn`, `WsParasitifer`,
`ReConnectRate`, `KafkaConsumer`, `KafkaParasitifer`, `Relay`, `RelayUdp`, `QuicServer` and `Worker`; the
theorems hold for any set of sessions, number of subscriptions, size of messages, draw,
duration and clock setting, and for any number of topics, Runs, receivers, producers,
threads, messages, event bases, connections and starts.

| Theorem | Says |
|---|---|
| `WsConn_proof!TypeCorrect`, `FeedIsReady`, `MessagesAreWhole`, `EndsClean` | `[]` of `TypeOK`, `FeedReady`, `MessageWhole`, `EndedClean` |
| `WsConn_proof!StoppedRunsOut`, `BoundedRun` | `StopRunsOut`, and that at most `NSubs + 9` steps are left to a session that runs |
| `WsConn_proof!StoppedStaysAway` | `NoReConnectAfterStop`: no attempt to connect begins after `Stop` |
| `WsConn_proof!Refinement`, `Kafka_proof!Refinement` | `ImplementsFeed` |
| `WsParasitifer_proof!OwnedSessionsFeed`, `Kafka_proof!OwnedSessionsFeed` | the sessions keep the promise of `WsFeed` under their Parasitifers too |
| `WsParasitifer_proof!SessionsAsSpecified`, `WsLifetime_proof!SessionsAsSpecified` | both compositions implement `WsConn` |
| `WsParasitifer_proof!OwnerTypeCorrect`, `OwnsExactly`, `CloseReachesAll`, `OutOfReach` | types, `OwnsItsSessions`, `CloseStopsAll`, `TailOutOfReach` |
| `WsLifetime_proof!LifetimeTypeCorrect`, `StreamsUsedAlive`, `EntriesUsedAlive`, `StreamsDeletedOnce`, `NoTimeToDelete` | types, `StreamAlive`, `EntryAlive`, `DeletedOnce`, `NeverBoth` |
| `ReConnectRate_proof!TypeCorrect`, `RateLimited`, `CounterKeepsUp` | types, `RateLimit`, `NeverForgets` |
| `Kafka_proof!TypeCorrect`, `StartsWhereAsked`, `StoppedReadsNothing` | types, `OffsetsHonoured` (for any interleaving of any number of sessions), and `NoReadAfterStop`: a message that `poll` returns after `Stop` is dropped |
| `Kafka_proof!StoppedRunsOut` | every step of a stopped consumer session brings it nearer to its end |
| `Kafka_proof!SessionsAsSpecified` | the composition implements `KafkaConsumer` |
| `Kafka_proof!OwnerTypeCorrect`, `OneSessionPerRun`, `RunConnects`, `CloseReachesAll` | types, `OwnsItsSessions`, `ConnectsIfItCan`, `CloseStopsAll` of `KafkaParasitifer` |
| `Relay_proof!TypeCorrect`, `AllTried`, `KeepsOrder`, `StoppedSendsNothing` | types, `EveryReceiverTried`, `InOrder`, `NoRelayAfterStop` |
| `Relay_proof!OneThreadOneOrder` | `SameOrder`, the part of `OneOrder` that is about the receivers, if `Threads = 1` |
| `Relay_proof!GivenWasSent` | `GivenAsSent`: `func_` gets nothing but what the first receiver took, in its order, for any number of threads |
| `Relay_proof!OneThreadEndToEnd` | `OneOrder`, if `Threads = 1` |
| `Relay_proof!SendRunsOut` | every step of a thread in `Send` uses up some of the at most two per receiver that are left |
| `Relay_proof!PartsAsSpecified` | the composition implements `Relay` and `UdpServer` |
| `Relay_proof!ServerTypeCorrect`, `BufferUntouched`, `LosesNothing`, `QuietWhenDestroyed` | types, `BufferStable`, `NothingLost`, `NoUseAfterDestroy` |
| `Relay_proof!EndToEndOrder` | `func_` gets each relay's messages in order, for any number of threads |
| `Tool_proof!RightOrRefused`, `ReadSince2001`, `MisreadBefore1970April` | when the guess of the unit is right |
| `QuicServer_proof!TypeCorrect`, `CallbacksFindHandler`, `DeletedOnOwnThread`, `NoneLeaks` | types, `CallbackAlive`, `FreedOnOwnThread`, `OwnedOnce` |
| `QuicServer_proof!DrainsOut`, `DeletesAll` | `DrainShrinks`, and that no handler is left when the factory is gone, unless two `push_back`s overlapped |
| `Tool_proof!TypeCorrect`, `NothingLeftRunning`, `StopIsNotLost`, `StoppedRunsOut` | types of `Worker`, `NoOrphan`, `StopBeforeStart` (started after a `Stop`, a thread calls nothing), `StopRunsOut` |

*Sessions.* `FeedReady` is not inductive: a stream is open at `loop` because of
what happened in `sub`. The invariant `IInv` adds, per place of the coroutine,
which statuses the stream may have, which subscriptions have been written up to
`next` if the stream is still open, that `buffer_` is empty except at `onread`,
and that the socket is closed at the ends. TLC checked it before it was proved.
The proof has one step per action and, below, one per conjunct that the action
disturbs. `Refinement` uses it to map every step to a step of `WsFeed` or to a
stutter; `SessionsAsSpecified` of the compositions carries it over to the sessions under
a Parasitifer.

*Coming to an end.* That a stopped session ends is liveness, and needs fairness; that
nothing leads away from the end needs none, and is proved: a stopped session, a thread
in `Send`, the destructor that drains its handlers and a stopped worker each have a
measure in the natural numbers that every step of theirs lowers and no step of another
raises (`StepsLeft`, `SendLeft`, `DrainLeft`). What is left to the fairness, and to TLC,
is that these steps are taken.

*Parasitifer.* `OwnsItsSessions` needs that what is in `conns_` lies in front of
Connect's iterator (`Connecting`); `CloseStopsAll`, that nothing is stopped before Run
has returned and all in front of Close's iterator is (`Reached`). `OutOfReach` keeps
for a session that has ended that Close has not come past it (`Behind`): its stream is
dead by `WsConn_proof`, so its `Stop` throws.

*Lifetimes.* The invariant says what is deleted (`Objects`: the streams of exactly the
sessions whose connection or Parasitifer is gone), which misuse is to blame where
something is gone that a session may still use (`Blamed`), and that a connection or
Parasitifer which goes under a `Stop` that is closing goes by a misuse, although the
session may have ended long since (`Stopping`). That a `Stop` outside `ReConnect` is safe rests on
`NoReConnectAfterStop`, which is why `WsLifetime_proof` builds on `WsConn_proof`.

*Back-off.* `RateLimited` rests on an invariant that bounds the number of
attempts on the stopwatch by `count`, and the time on it from below by the delays
that `count` failures have cost; a reset of `count` needs a distance that only an
expired stopwatch or a set clock allows.

*Relay.* The invariant says of every message and receiver that the receiver has it,
in its order or among the refused, exactly if the message has been offered to it or
waits there in `flush()`, and not in both (`Fate`). Order follows: when a receiver
takes a message, all it has of the same session was offered before, so it has a
smaller number. Stop follows from `Sending`: a session inside `Send` is in OnRead. On one thread
`SameOrder` holds because one session at a time is in `Send` (`Alone`), and the message
it is sending is the last one wherever it has arrived (`LastIfOpen`). `OneOrder` follows
because what arrives behind the first receiver is part of what it took (`ArrivedAsSent`,
for any number of threads: two lemmas say that a history stays part of another that
gains a new message, alone or with it), and `func_` is given the front of that.

*Kafka.* `OffsetsHonoured` is inductive with what holds on the way there (`Wanting`): before
the copy, a topic the session wants has the wanted offset in the shared map, since the
`Init` of another session, which may change it, takes it out of `wanted`, and the `Sub`
of another only adds topics that are absent; from the copy to the end of `Sub` it has
that offset in `partitions`, whatever happens to the map. What was wanted at the copy
cannot change any more, and `manual` is never cleared, so that a session found not manual
now was not manual when it decided: it has assigned, and from the copy. Of the
Parasitifer the invariant (`PInv`) says which part of `results_` Connect has gone past
without a usable address while it is in its loop, and that a session made by the
current Run ends it; for `Close`, that every session in front of the iterator is
stopped. Each of its steps leaves the sessions alone or is a step of theirs, which is
`SessionsAsSpecified` and carries the theorems about sessions over.

*Server.* The receive loop's invariant (`ServerInv`) adds to `BufferStable` and
`NothingLost` that a ready receive excludes a running `func_`. Behind the relays, every
message that arrived has been offered to the first receiver, and those of one relay are
in its order (`ArrivedInOrder`), from which `EndToEndOrder` follows: `func_` has been given
the front of what arrived, by `NothingLost`. After the server is destroyed nothing is
handed over, so that what was given stays as it is.

*Timestamps.* The instants in each unit are compared with the least number of as many
digits as the unit's length stands for: after April 1970 no two units share a length,
and the product fits in 64 bits until 2262.

*Handlers.* At most one pop is posted, to the thread of the handler that is last in
`handlers_` (`Posted`), which is why the pop deletes it there; a worker that was shut
down makes nothing and has closed its connections (`Closed`), which is why the vector
does not change under the destructor and no transport can call what it deletes.
`OwnedOnce` needs that, without a race, `push_back` writes at the end it has read
(`Alone`).

*Worker.* `NoOrphan` is inductive together with the types; `StopIsNotLost` needs only that
`stop_` is never cleared, `StoppedRunsOut` that a thread not yet started is nowhere in
the loop (`Fresh`).

Only model-checked: the liveness properties (`StopEnds`, `Recovers`, `CloseEnds`,
`TurnComes`, `SendReturns`, `Served`, `DrainEnds`, `JoinReturns`), since fairness and
ENABLED are beyond the prover. All other properties of the passing runs are proved.

## 5. Not modelled

- What follows the use of a deleted object: `WsLifetime` ends there. `stop_` is a plain
  `bool`, read and written by several threads: its writes are taken to become visible.
- Setters that only store (`SetCmd`, the hosts, group and timing of `BaseConfig`).
- Kafka: offsets other than those listed (a stored offset, -1000); a data race inside the
  topic map, an `unordered_map` without a lock, whose effect is undefined: an operation
  on it is one step here; that a second `Run` replaces the results whose entries the sessions refer
  to, of which their only use is a line of the log.
- Relay: receivers that the application adds or removes while sessions run (the
  producers are a copy, the UDP receivers a reference); the constructors; the overwritten
  error code, which nothing reads. Two `Send`s of `Producer` (`producer.h:71` and `:110`, which
  a `Send` of a pointer and a size calls) are declared to return a `size_t` and end without
  a `return`: to call them is undefined behaviour. What is modelled is their body and a
  return to the caller, as of the two that return nothing.
- udp Server: an owner that destroys it while a handler is ready or running. quic: what a
  race of two `push_back`s may do besides losing an element.
- Conversions: `StrToTP` (a format string for a library), the regular expressions of
  `validater.h`, and strings that are not a number throughout, about which the operators
  say what happens but no theorem does.
- Worker: an owner that is several threads (only `Stop` is called by others), and the
  address that `PrometheusGateway` parses.
- The components that PROJECT.json lists as not modelled: constructors that pass their
  arguments on, output, macros, and calls of the AWS SDK and of nice(2).

## 6. Where the code departs from its comments

1. `ws/conn.h:334` (and 602) says the failure count is cleared only when a *minute*
   has passed since the last reconnect, which proves the last connection effective. The
   code says 20 s, and takes the time since the last attempt, so that an attempt that
   times out after 30 s clears the count as well (`backoff_reset`).
2. `kafka/conn.h:87` calls the condition on offsets strict; an empty map satisfies
   it, topics with another offset are added after it, and its effect stays in the
   shared configuration (`kafka_strict`).

## 7. What could be added

Every component with control of its own has its module. Left: receivers that the
application adds while sessions run, the constructors of `udp::Conn` and `Producer`, and
`Relay` over the sessions of `WsConn` themselves, instead of over their promise.
