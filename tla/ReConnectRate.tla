--------------------------- MODULE ReConnectRate ---------------------------
(***************************************************************************)
(* The back-off of kn/net/src/ws/conn.h: Conn<EnableSSL>::ReConnectRate,   *)
(* which every attempt to connect a websocket session goes through, with   *)
(* what it reads of the world: the wall clock, a random draw, and how long *)
(* the attempt before it took or its connection lasted.                    *)
(*                                                                         *)
(* Times are milliseconds.  Timestamps are not kept, only their distance   *)
(* to last_reconnect_ts_; a stopwatch, started at an attempt of any        *)
(* choice, measures the attempts for the properties.                       *)
(***************************************************************************)
EXTENDS Integers

CONSTANTS
  Draws,      \* values the distribution range(0, 100) may draw
  FailTimes,  \* how long an attempt that fails may take
  LiveTimes,  \* how long a connection that succeeds may last
  Jumps,      \* by how much the system clock may be set
  Modulus,    \* 2^64, the width of the subtraction of timestamps
  MaxCount    \* bound on connect_fail_count_

\* The window of the stopwatch, and of the code.
Window == 20 * 1000

ASSUME ReConnectRateAssumption ==
  /\ Draws \subseteq 0..100
  /\ FailTimes \subseteq Nat /\ LiveTimes \subseteq Nat
  /\ Jumps \subseteq Int
  /\ Modulus \in Nat /\ Modulus > Window
  /\ MaxCount \in Nat

VARIABLES
  pc,         \* rate: about to run ReConnectRate; try: connecting or connected
  count,      \* connect_fail_count_
  since,      \* the system clock's distance to last_reconnect_ts_
  connected,  \* did the latest attempt succeed?
  attempts,   \* stopwatch: attempts begun, the one that started it included
  elapsed     \* stopwatch: time elapsed, up to Window

vars == <<pc, count, since, connected, attempts, elapsed>>

TypeOK ==
  /\ pc \in {"rate", "try"}
  /\ count \in 0..MaxCount
  /\ since \in Int
  /\ connected \in BOOLEAN
  /\ attempts \in Nat
  /\ elapsed \in 0..Window

\* last_reconnect_ts_ is 0 at first: any distance beyond the window will do.
Init ==
  /\ pc = "rate"
  /\ count = 0
  /\ since = Window
  /\ connected = FALSE
  /\ attempts = 0 /\ elapsed = Window

-----------------------------------------------------------------------------
\* The stopwatch shows n attempts in time t, or has run out.
Watch(n, t) ==
  /\ elapsed' = IF t < Window THEN t ELSE Window
  /\ attempts' = IF t < Window THEN n ELSE 0

\* The subtraction is unsigned: a clock set back makes it enormous.
Distance == since % Modulus

\* connect_fail_count_ after this attempt is counted.
CountWithoutReset == count + 1
Count == IF Distance >= Window THEN 1 ELSE count + 1

Intval == 100

Factor(k) ==
  IF k <= 5 THEN 1 ELSE IF k <= 10 THEN 10 ELSE IF k <= 50 THEN 50 ELSE 600

NoDelay(k, r) == IF k <= 12 THEN 0 ELSE Factor(k) * Intval
Delay(k, r) ==
  IF k <= 2 THEN 0 ELSE (1 + r \div 10) * Factor(k) * Intval + (r % 10)

\* Distance to last_reconnect_ts_ when ReConnectRate returns: the timestamp is
\* taken again after the delay.
SinceBeforeDelay(delay) == delay
SinceAfterDelay(delay) == 0

ReConnectRate ==
  /\ pc = "rate" /\ Count <= MaxCount
  /\ count' = Count
  /\ \E r \in Draws :
       LET delay == Delay(Count, r) IN
       /\ since' = SinceAfterDelay(delay)
       /\ Watch(attempts + 1, elapsed + delay) \/ Watch(1, 0)
  /\ pc' = "try"
  /\ UNCHANGED connected

\* Time goes by until the session calls ReConnect again.
Pass(t) ==
  /\ since' = since + t
  /\ Watch(attempts, elapsed + t)
  /\ pc' = "rate"
  /\ UNCHANGED count

ConnectFails ==
  /\ pc = "try"
  /\ \E t \in FailTimes : Pass(t)
  /\ connected' = FALSE

ConnectionLost ==
  /\ pc = "try"
  /\ \E t \in LiveTimes : Pass(t)
  /\ connected' = TRUE

\* The clock is set in the meantime; the stopwatch starts afresh.
ClockSet ==
  /\ pc = "try"
  /\ \E t \in FailTimes \cup LiveTimes, j \in Jumps : since' = since + t + j
  /\ connected' \in BOOLEAN
  /\ Watch(0, 0)
  /\ pc' = "rate"
  /\ UNCHANGED count

Next == ReConnectRate \/ ConnectFails \/ ConnectionLost \/ ClockSet

Spec == Init /\ [][Next]_vars

-----------------------------------------------------------------------------
(* Properties. *)

\* In any time shorter than the window in which the clock is not set, at most
\* twelve attempts are made: neither connections that are lost at once nor
\* long delays defeat the counter.
Quick == 12
RateLimit == elapsed < Window => attempts <= Quick

\* However long the session lives, a server that keeps failing at once is
\* tried ever more slowly: the counter never falls behind the stopwatch.
NeverForgets == elapsed < Window => attempts <= count

Resets == pc = "rate" /\ pc' = "try" /\ count > 0 /\ count' = 1

\* "Only when ts_now - last_reconnect_ts_ differs by more than one minute is
\* the last connection proved to have been effective, and the failure count
\* cleared" (comment of ReConnectRate): a reset comes more than a minute after
\* the last attempt, and that attempt did connect.
ResetAsDocumented == [][Resets => since > 60 * 1000 /\ connected]_vars
=============================================================================
