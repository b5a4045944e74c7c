------------------------ MODULE ReConnectRate_proof ------------------------
(***************************************************************************)
(* Proof that the back-off limits the rate of the attempts, whatever the   *)
(* random draws, however long attempts and connections last, and wherever  *)
(* the system clock is set.                                                *)
(***************************************************************************)
EXTENDS ReConnectRate, TLAPS

\* The shortest time in which n attempts can be made when none is a reset.
MinTime(n) ==
  IF n <= 2 THEN 0
  ELSE IF n <= 5 THEN (n - 2) * 100
  ELSE IF n <= 10 THEN 300 + (n - 5) * 1000
  ELSE 5300 + (n - 10) * 5000

\* While the stopwatch runs, the counter keeps up with it, the attempts it has
\* seen took their time, and it has run since the last one at least.
Pace ==
  elapsed < Window =>
    /\ attempts <= count
    /\ elapsed >= MinTime(attempts)
    /\ attempts > 0 => since \in 0..elapsed

IInv == TypeOK /\ Pace

-----------------------------------------------------------------------------
\* Lemma: the delay of the k-th attempt since a reset is at least the time by
\* which n + 1 attempts take longer than n, for every n below k.
LEMMA DelayPaces ==
  ASSUME NEW k \in Nat, NEW n \in Nat, n < k, NEW r \in 0..100
  PROVE  /\ Delay(k, r) \in Nat
         /\ MinTime(n) + Delay(k, r) >= MinTime(n + 1)
<1> DEFINE q == r \div 10
           m == r % 10
<1>1. q \in Nat /\ m \in Nat
  OBVIOUS
<1>2. CASE k <= 2
  BY <1>2 DEF Delay, MinTime
<1>3. CASE k > 2 /\ k <= 5
  <2>1. Delay(k, r) = (1 + q) * 100 + m
    BY <1>1, <1>3 DEF Delay, Factor, Intval
  <2> QED
    BY <1>1, <1>3, <2>1 DEF MinTime
<1>4. CASE k > 5 /\ k <= 10
  <2>1. Delay(k, r) = (1 + q) * 1000 + m
    BY <1>1, <1>4 DEF Delay, Factor, Intval
  <2> QED
    BY <1>1, <1>4, <2>1 DEF MinTime
<1>5. CASE k > 10 /\ k <= 50
  <2>1. Delay(k, r) = (1 + q) * 5000 + m
    BY <1>1, <1>5 DEF Delay, Factor, Intval
  <2> QED
    BY <1>1, <1>5, <2>1 DEF MinTime
<1>6. CASE k > 50
  <2>1. Delay(k, r) = (1 + q) * 60000 + m
    BY <1>1, <1>6 DEF Delay, Factor, Intval
  <2> QED
    BY <1>1, <1>6, <2>1 DEF MinTime
<1> QED
  BY <1>2, <1>3, <1>4, <1>5, <1>6

\* Lemma: thirteen attempts do not fit into the window.
LEMMA PaceLimits == IInv => RateLimit /\ NeverForgets
BY DEF IInv, TypeOK, Pace, RateLimit, NeverForgets, Quick, MinTime, Window

\* Lemma: the stopwatch stays of its type.
LEMMA WatchType ==
  ASSUME NEW n \in Nat, NEW t \in Nat, Watch(n, t)
  PROVE  attempts' \in Nat /\ elapsed' \in 0..Window
BY DEF Watch, Window

-----------------------------------------------------------------------------
\* The invariant holds at first, and every step preserves it.
LEMMA PaceInit == Init => IInv
<1> SUFFICES ASSUME Init PROVE IInv
  OBVIOUS
<1>1. connected \in BOOLEAN
  BY Zenon DEF Init
<1>2. count \in 0..MaxCount /\ since \in Int /\ elapsed \in 0..Window
  BY ReConnectRateAssumption DEF Init, Window
<1>3. ~(elapsed < Window)
  BY DEF Init, Window
<1> QED
  BY <1>1, <1>2, <1>3 DEF Init, IInv, TypeOK, Pace

LEMMA PaceStep == IInv /\ [Next]_vars => IInv'
<1> SUFFICES ASSUME IInv, [Next]_vars PROVE IInv'
  OBVIOUS
<1> USE ReConnectRateAssumption DEF IInv
<1>1. CASE ReConnectRate
  <2>1. PICK r \in Draws :
          /\ since' = SinceAfterDelay(Delay(Count, r))
          /\ \/ Watch(attempts + 1, elapsed + Delay(Count, r))
             \/ Watch(1, 0)
    BY <1>1 DEF ReConnectRate
  <2> DEFINE d == Delay(Count, r)
  <2>2. Count \in Nat /\ Count >= 1 /\ count' = Count /\ Count <= MaxCount
    BY <1>1 DEF ReConnectRate, Count, TypeOK
  <2>3. r \in 0..100
    BY <2>1
  <2>4. d \in Nat
    BY <2>2, <2>3, DelayPaces, 0 < Count
  <2>5. since' = 0
    BY <2>1 DEF SinceAfterDelay
  <2>6. pc' = "try" /\ connected' = connected
    BY <1>1 DEF ReConnectRate
  <2>7. CASE Watch(1, 0)
    <3>1. attempts' = 1 /\ elapsed' = 0
      BY <2>7 DEF Watch, Window
    <3> QED
      BY <2>2, <2>5, <2>6, <3>1 DEF TypeOK, Pace, MinTime, Window
  <2>8. CASE Watch(attempts + 1, elapsed + d)
    <3> HIDE DEF d
    <3>1. attempts \in Nat /\ elapsed \in 0..Window /\ count \in Nat
      BY DEF TypeOK
    <3>2. attempts' \in Nat /\ elapsed' \in 0..Window
      BY <2>4, <2>8, <3>1, WatchType, attempts + 1 \in Nat, elapsed + d \in Nat
         DEF Window
    <3>3. ASSUME elapsed' < Window
          PROVE  /\ attempts' = attempts + 1
                 /\ elapsed' = elapsed + d
                 /\ elapsed < Window
      BY <2>4, <2>8, <3>1, <3>3 DEF Watch, Window
    <3>4. ASSUME elapsed < Window PROVE attempts < Count
      <4>1. CASE attempts = 0
        BY <4>1, <2>2
      <4>2. CASE attempts > 0
        <5>1. since \in 0..elapsed /\ attempts <= count
          BY <3>4, <4>2 DEF Pace
        <5>2. since % Modulus = since
          BY <3>1, <3>4, <5>1 DEF Window
        <5>3. Count = count + 1
          BY <3>4, <3>1, <5>1, <5>2 DEF Count, Distance, Window
        <5> QED
          BY <5>1, <5>3, <3>1
      <4> QED
        BY <4>1, <4>2, <3>1
    <3>5. Pace'
      <4> SUFFICES ASSUME elapsed' < Window
                   PROVE  /\ attempts' <= count'
                          /\ elapsed' >= MinTime(attempts')
                          /\ since' \in 0..elapsed'
        BY DEF Pace
      <4>1. attempts < Count
        BY <3>3, <3>4
      <4>2. MinTime(attempts) + d >= MinTime(attempts + 1)
        BY <2>2, <2>3, <3>1, <4>1, DelayPaces DEF d
      <4>3. elapsed >= MinTime(attempts)
        BY <3>3 DEF Pace
      <4>4. MinTime(attempts) \in Int /\ MinTime(attempts + 1) \in Int
        BY <3>1 DEF MinTime
      <4>5. elapsed + d >= MinTime(attempts + 1)
        BY <2>4, <3>1, <4>2, <4>3, <4>4
      <4> QED
        BY <2>2, <2>5, <3>1, <3>2, <3>3, <4>1, <4>5
    <3> QED
      BY <2>2, <2>5, <2>6, <3>2, <3>5 DEF TypeOK
  <2> QED
    BY <2>1, <2>7, <2>8
<1>2. ASSUME NEW t \in Nat, Pass(t), connected' \in BOOLEAN
      PROVE  IInv'
  BY <1>2 DEF Pass, Watch, TypeOK, Pace, MinTime, Window
<1>3. CASE ConnectFails
  <2>1. PICK t \in FailTimes : Pass(t)
    BY <1>3 DEF ConnectFails
  <2> QED
    BY <1>2, <1>3, <2>1 DEF ConnectFails
<1>4. CASE ConnectionLost
  <2>1. PICK t \in LiveTimes : Pass(t)
    BY <1>4 DEF ConnectionLost
  <2> QED
    BY <1>2, <1>4, <2>1 DEF ConnectionLost
<1>5. CASE ClockSet
  <2>1. attempts' = 0 /\ elapsed' = 0
    BY <1>5 DEF ClockSet, Watch, Window
  <2>2. since' \in Int
    BY <1>5 DEF ClockSet, TypeOK
  <2> QED
    BY <1>5, <2>1, <2>2 DEF ClockSet, TypeOK, Pace, MinTime, Window
<1>6. CASE UNCHANGED vars
  BY <1>6 DEF vars, TypeOK, Pace
<1> QED
  BY <1>1, <1>3, <1>4, <1>5, <1>6 DEF Next

LEMMA PaceInv == Spec => []IInv
<1>1. Init => IInv
  BY PaceInit
<1>2. IInv /\ [Next]_vars => IInv'
  BY PaceStep
<1> QED
  BY <1>1, <1>2, PTL DEF Spec

\* Every variable keeps its type.
THEOREM TypeCorrect == Spec => []TypeOK
<1>1. IInv => TypeOK
  BY DEF IInv
<1> QED
  BY <1>1, PaceInv, PTL

\* Within the window at most twelve attempts are made, for every choice of the
\* constants.
THEOREM RateLimited == Spec => []RateLimit
<1>1. IInv => RateLimit
  BY PaceLimits
<1> QED
  BY <1>1, PaceInv, PTL

\* The failure counter never falls behind the attempts made in the window.
THEOREM CounterKeepsUp == Spec => []NeverForgets
<1>1. IInv => NeverForgets
  BY PaceLimits
<1> QED
  BY <1>1, PaceInv, PTL
=============================================================================
