----------------------------- MODULE Tool_proof -----------------------------
(***************************************************************************)
(* Proofs about the tools: no thread of a worker outlives its handle,      *)
(* however often it is started, joined, stopped and destroyed; and the     *)
(* unit of a timestamp is guessed right, or the timestamp is refused.      *)
(***************************************************************************)
EXTENDS Worker, Timestamp, TLAPS

-----------------------------------------------------------------------------
(* Timestamps.                                                              *)

\* The sizes and ticks of the four units, one by one.
LEMMA UnitFacts ==
  /\ Tick["seconds"] = 1000000000 /\ Tick["milliseconds"] = 1000000
  /\ Tick["microseconds"] = 1000 /\ Tick["nanoseconds"] = 1
  /\ Size["seconds"] = 10 /\ Size["milliseconds"] = 13
  /\ Size["microseconds"] = 16 /\ Size["nanoseconds"] = 19
  /\ Least["seconds"] = 1000000000 /\ Least["milliseconds"] = 1000000000000
  /\ Least["microseconds"] = 1000000000000000
  /\ Least["nanoseconds"] = 1000000000000000000
BY SMT DEF Tick, Size, Least

LEMMA SizesDiffer ==
  ASSUME NEW u \in Units, NEW v \in Units, Size[u] = Size[v] PROVE u = v
BY UnitFacts, SMT DEF Units

\* The cast of datetime.h:54 gives the instant in the ticks of the time point,
\* rounded down, and does not overflow before the year 2262.
LEMMA CastTells ==
  ASSUME NEW now \in Nat, now < Int64Limit, NEW dur \in Units, NEW res \in Units
  PROVE  /\ UnixTsToTP(NowTS(now, dur), dur, res) = Told(now, dur, res)
         /\ Fits(Told(now, dur, res))
<1>1. CASE dur = "seconds"
  BY <1>1, UnitFacts, SMT DEF Units, UnixTsToTP, NowTS, Told, Signed, RoundToZero, Fits, Int64Limit
<1>2. CASE dur = "milliseconds"
  BY <1>2, UnitFacts, SMT DEF Units, UnixTsToTP, NowTS, Told, Signed, RoundToZero, Fits, Int64Limit
<1>3. CASE dur = "microseconds"
  BY <1>3, UnitFacts, SMT DEF Units, UnixTsToTP, NowTS, Told, Signed, RoundToZero, Fits, Int64Limit
<1>4. CASE dur = "nanoseconds"
  BY <1>4, UnitFacts, SMT DEF Units, UnixTsToTP, NowTS, Told, Signed, RoundToZero, Fits, Int64Limit
<1> QED BY <1>1, <1>2, <1>3, <1>4 DEF Units

\* From 26 April 1970 on, digits in one unit never have the length that stands
\* for another.
LEMMA LengthTellsUnit ==
  ASSUME NEW now \in Nat, April1970 <= now, now < Int64Limit,
         NEW dur \in Units, NEW u \in Units,
         Least[u] <= NowTS(now, dur), NowTS(now, dur) < 10 * Least[u]
  PROVE  u = dur
<1>1. CASE dur = "seconds"
  BY <1>1, UnitFacts, SMT DEF Units, NowTS, April1970, Int64Limit
<1>2. CASE dur = "milliseconds"
  BY <1>2, UnitFacts, SMT DEF Units, NowTS, April1970, Int64Limit
<1>3. CASE dur = "microseconds"
  BY <1>3, UnitFacts, SMT DEF Units, NowTS, April1970, Int64Limit
<1>4. CASE dur = "nanoseconds"
  BY <1>4, UnitFacts, SMT DEF Units, NowTS, April1970, Int64Limit
<1> QED BY <1>1, <1>2, <1>3, <1>4 DEF Units

\* The instants of 9 September 2001 to 2262 have the length their unit expects.
LEMMA LengthExpected ==
  ASSUME NEW now \in Nat, September2001 <= now, now < Int64Limit, NEW dur \in Units
  PROVE  Least[dur] <= NowTS(now, dur) /\ NowTS(now, dur) < 10 * Least[dur]
BY UnitFacts, SMT DEF Units, NowTS, September2001, Int64Limit

\* An instant after April 1970 that is written in any unit is either refused,
\* and the time point left alone, or read in that unit, without overflow; the
\* guess by the length of the string (datetime.h:64) is never a wrong one.
THEOREM RightOrRefused ==
  ASSUME NEW now \in Nat, April1970 <= now, now < Int64Limit,
         NEW dur \in Units, NEW res \in Units, NEW ts,
         NEW str \in Strings, Writes(str, NowTS(now, dur))
  PROVE  \/ StrUnixTsToTP(str, ts, res) = [errc |-> "invalid_argument", ts |-> ts]
         \/ /\ StrUnixTsToTP(str, ts, res) = [errc |-> "ok", ts |-> Told(now, dur, res)]
            /\ Fits(Told(now, dur, res))
<1>1. CASE \A u \in Units : str.size # Size[u]
  BY <1>1 DEF StrUnixTsToTP, StrToNum, Writes
<1>2. ASSUME NEW u \in Units, str.size = Size[u]
      PROVE  /\ StrUnixTsToTP(str, ts, res) = [errc |-> "ok", ts |-> Told(now, dur, res)]
             /\ Fits(Told(now, dur, res))
  <2>1. u = dur
    BY <1>2, LengthTellsUnit DEF Writes
  <2>2. (CHOOSE v \in Units : str.size = Size[v]) = dur
    BY <1>2, <2>1, SizesDiffer
  <2>3. StrUnixTsToTP(str, ts, res)
          = [errc |-> "ok", ts |-> UnixTsToTP(NowTS(now, dur), dur, res)]
    BY <1>2, <2>2 DEF StrUnixTsToTP, StrToNum, Writes
  <2> QED BY <2>3, CastTells
<1> QED BY <1>1, <1>2

\* From September 2001 to the year 2262 no instant is refused.
THEOREM ReadSince2001 ==
  ASSUME NEW now \in Nat, September2001 <= now, now < Int64Limit,
         NEW dur \in Units, NEW res \in Units, NEW ts,
         NEW str \in Strings, Writes(str, NowTS(now, dur))
  PROVE  StrUnixTsToTP(str, ts, res) = [errc |-> "ok", ts |-> Told(now, dur, res)]
<1>1. str.size = Size[dur]
  BY LengthExpected DEF Writes
<1>2. (CHOOSE v \in Units : str.size = Size[v]) = dur
  BY <1>1, SizesDiffer
<1>3. StrUnixTsToTP(str, ts, res)
        = [errc |-> "ok", ts |-> UnixTsToTP(NowTS(now, dur), dur, res)]
  BY <1>1, <1>2 DEF StrUnixTsToTP, StrToNum, Writes
<1> QED BY <1>3, CastTells

\* Before that the guess can be wrong: in milliseconds, the instants between
\* 12 January and 26 April 1970 are read as seconds, a thousand times later.
THEOREM MisreadBefore1970April ==
  ASSUME NEW now \in Nat, January1970 <= now, now < April1970, NEW ts,
         NEW str \in Strings, Writes(str, NowTS(now, "milliseconds"))
  PROVE  StrUnixTsToTP(str, ts, "seconds")
           = [errc |-> "ok", ts |-> NowTS(now, "milliseconds")]
<1>1. Least["seconds"] <= NowTS(now, "milliseconds")
        /\ NowTS(now, "milliseconds") < 10 * Least["seconds"]
  BY UnitFacts, SMT DEF NowTS, January1970, April1970
<1>2. str.size = Size["seconds"]
  BY <1>1 DEF Writes, Units
<1>3. (CHOOSE v \in Units : str.size = Size[v]) = "seconds"
  BY <1>2, SizesDiffer DEF Units
<1>4. StrUnixTsToTP(str, ts, "seconds")
        = [errc |-> "ok", ts |-> UnixTsToTP(NowTS(now, "milliseconds"), "seconds", "seconds")]
  BY <1>2, <1>3 DEF StrUnixTsToTP, StrToNum, Writes, Units
<1>5. UnixTsToTP(NowTS(now, "milliseconds"), "seconds", "seconds") = NowTS(now, "milliseconds")
  BY UnitFacts, SMT DEF UnixTsToTP, NowTS, Signed, Int64Limit, January1970, April1970
<1> QED BY <1>4, <1>5

-----------------------------------------------------------------------------
(* The worker.                                                              *)

IInv == TypeOK /\ NoOrphan

LEMMA InitIInv == Init => IInv
<1> SUFFICES ASSUME Init PROVE IInv
  OBVIOUS
<1>1. TypeOK
  <2>1. starts \in 0..MaxStarts /\ handle \in 0..MaxStarts
    BY WorkerAssumption DEF Init
  <2>2. joined \in BOOLEAN /\ stop \in BOOLEAN /\ up \in BOOLEAN
    BY DEF Init
  <2>3. work \in [Workers -> Places] /\ owner \in Calls
    BY DEF Init, Places, Calls
  <2> QED
    BY <2>1, <2>2, <2>3 DEF TypeOK
<1>2. NoOrphan
  BY DEF Init, NoOrphan, Active
<1> QED
  BY <1>1, <1>2 DEF IInv

\* Lemma: the owner's calls keep the invariant.
LEMMA OwnerIInv == ASSUME IInv, OwnerStep PROVE IInv'
<1> USE WorkerAssumption DEF IInv, TypeOK, NoOrphan, Active, Joinable, Workers, Calls
<1>1. CASE Start
  <2>1. starts + 1 \in Workers /\ starts + 1 \in 0..MaxStarts
    BY <1>1 DEF Start
  <2>2. TypeOK'
    BY <1>1, <2>1 DEF Start, Go, Places
  <2> QED
    BY <1>1, <2>1, <2>2 DEF Start, Go
<1>2. CASE Replace
  <2>1. TypeOK'
    BY <1>2 DEF Replace
  <2>2. \A t \in Workers : Active(t) /\ up => t = starts
    BY <1>2 DEF Replace
  <2> QED
    BY <1>2, <2>1, <2>2 DEF Replace
<1>3. CASE Join
  BY <1>3 DEF Join
<1>4. CASE Joined
  BY <1>4 DEF Joined
<1>5. CASE Destroy
  BY <1>5 DEF Destroy
<1>6. CASE Destroyed
  BY <1>6 DEF Destroyed
<1>7. CASE Terminate
  BY <1>7 DEF Terminate
<1> QED
  BY <1>1, <1>2, <1>3, <1>4, <1>5, <1>6, <1>7 DEF OwnerStep

\* Lemma: so do the steps of a thread, which none takes before it is started.
LEMMA RunIInv ==
  ASSUME IInv, NEW t \in Workers, Run(t) \/ DoWorkReturns(t) \/ DoWorkThrows(t)
  PROVE  IInv'
<1>1. CASE DoWorkThrows(t)
  BY <1>1 DEF DoWorkThrows, IInv, TypeOK, NoOrphan
<1>2. CASE Run(t) \/ DoWorkReturns(t)
  <2>1. /\ Active(t) /\ \E p \in Places : Go(t, p)
        /\ UNCHANGED <<starts, handle, joined, stop, owner, up>>
    BY <1>2 DEF Run, Check, DoWork, DoWorkReturns, Recheck, Wake, Active, Places
  <2> QED
    BY <2>1 DEF IInv, TypeOK, NoOrphan, Active, Go
<1> QED
  BY <1>1, <1>2

LEMMA NextIInv == IInv /\ [Next]_vars => IInv'
<1> SUFFICES ASSUME IInv, [Next]_vars PROVE IInv'
  OBVIOUS
<1>1. CASE Stop
  BY <1>1 DEF Stop, IInv, TypeOK, NoOrphan, Active
<1>2. CASE UNCHANGED vars
  BY <1>2 DEF vars, IInv, TypeOK, NoOrphan, Active
<1> QED
  BY <1>1, <1>2, OwnerIInv, RunIInv DEF Next

\* Theorem: the object, its threads and its owner keep their types.
THEOREM TypeCorrect == Spec => []TypeOK
<1>1. IInv => TypeOK
  BY DEF IInv
<1> QED
  BY <1>1, InitIInv, NextIInv, PTL DEF Spec

\* Theorem: a thread that runs can be joined, or was started just now; so Run
\* never goes on in an object that was joined or destroyed.
THEOREM NothingLeftRunning == Spec => []NoOrphan
<1>1. IInv => NoOrphan
  BY DEF IInv
<1> QED
  BY <1>1, InitIInv, NextIInv, PTL DEF Spec

\* Theorem: a Stop before the Start is not lost: the thread ends at its first check.
Unused(t) == stop /\ work[t] \in {"none", "check", "over"}

THEOREM StopIsNotLost == Spec => StopBeforeStart
<1>1. ASSUME NEW t \in Workers
      PROVE  Spec => [](stop /\ work[t] = "none" => [](work[t] # "working"))
  <2>1. stop /\ work[t] = "none" => Unused(t)
    BY DEF Unused
  <2>2. IInv /\ Unused(t) /\ [Next]_vars => Unused(t)'
    <3> SUFFICES ASSUME IInv, Unused(t), [Next]_vars PROVE Unused(t)'
      OBVIOUS
    <3>1. CASE OwnerStep
      BY <3>1 DEF OwnerStep, Start, Replace, Join, Joined, Destroy, Destroyed, Terminate, Go,
         Unused, IInv, TypeOK
    <3>2. CASE Stop \/ UNCHANGED vars
      BY <3>2 DEF Stop, vars, Unused
    <3>3. ASSUME NEW u \in Workers, Run(u) \/ DoWorkReturns(u) \/ DoWorkThrows(u)
          PROVE  Unused(t)'
      BY <3>3 DEF Run, Check, DoWork, Recheck, Wake, DoWorkReturns, DoWorkThrows, Go, Stopped,
         Unused, IInv, TypeOK
    <3> QED
      BY <3>1, <3>2, <3>3 DEF Next
  <2>3. Unused(t) => work[t] # "working"
    BY DEF Unused
  <2> QED
    BY <2>1, <2>2, <2>3, InitIInv, NextIInv, PTL DEF Spec
<1> QED
  BY <1>1 DEF StopBeforeStart

\* Lemma: a thread that has not been started is nowhere in Run.
Fresh == \A t \in Workers : t > starts => work[t] = "none"

LEMMA NextFresh == IInv /\ Fresh /\ [Next]_vars => Fresh'
<1> SUFFICES ASSUME IInv, Fresh, [Next]_vars PROVE Fresh'
  OBVIOUS
<1>1. starts \in Nat /\ Workers \subseteq Nat
  BY WorkerAssumption DEF IInv, TypeOK, Workers
<1>2. CASE Start
  BY <1>1, <1>2 DEF Start, Go, Fresh, IInv, TypeOK
<1>3. CASE (OwnerStep /\ ~Start) \/ Stop \/ UNCHANGED vars
  BY <1>3 DEF OwnerStep, Replace, Join, Joined, Destroy, Destroyed, Terminate, Stop, vars, Fresh
<1>4. ASSUME NEW u \in Workers, Run(u) \/ DoWorkReturns(u) \/ DoWorkThrows(u) PROVE Fresh'
  <2>1. UNCHANGED starts
    BY <1>4 DEF Run, Check, DoWork, Recheck, Wake, DoWorkReturns, DoWorkThrows
  <2>2. UNCHANGED work \/ (work[u] # "none" /\ \E p \in Places : Go(u, p))
    BY <1>4 DEF Run, Check, DoWork, Recheck, Wake, DoWorkReturns, DoWorkThrows, Places
  <2>3. \A t \in Workers : work[t] = "none" => work'[t] = "none"
    BY <2>2 DEF Go, IInv, TypeOK
  <2> QED
    BY <2>1, <2>3 DEF Fresh
<1> QED
  BY <1>2, <1>3, <1>4 DEF Next

LEMMA StepsLeftFacts ==
  ASSUME NEW t \in Workers
  PROVE  /\ work[t] = "call" => StepsLeft(t) = 5
         /\ work[t] = "working" => StepsLeft(t) = 4
         /\ work[t] = "recheck" => StepsLeft(t) = 3
         /\ work[t] \in {"sleep", "none"} => StepsLeft(t) = 2
         /\ work[t] = "check" => StepsLeft(t) = 1
         /\ work[t] = "over" => StepsLeft(t) = 0
BY DEF StepsLeft

\* Theorem: once stop_ is set every step of a thread brings it nearer to its end,
\* so that Join waits for one more DoWork and one more sleep at most.
RunOut == \A t \in Workers : RunsOut(t)

THEOREM StoppedRunsOut == Spec => StopRunsOut
<1>1. ASSUME IInv, Fresh, Next PROVE RunOut
  <2> SUFFICES ASSUME NEW t \in Workers, stop PROVE RunsOut(t)
    BY DEF RunOut, RunsOut
  <2>1. work[t] \in Places
    BY <1>1 DEF IInv, TypeOK
  <2>2. StepsLeft(t) \in Nat
    BY <2>1, StepsLeftFacts DEF Places
  <2>3. ASSUME work'[t] = work[t] PROVE RunsOut(t)
    <3>1. StepsLeft(t)' = StepsLeft(t)
      BY <2>3 DEF StepsLeft
    <3> QED
      BY <2>2, <2>3, <3>1 DEF RunsOut
  <2>4. ASSUME NEW from \in Places, NEW to \in Places, work[t] = from, work'[t] = to,
               <<from, to>> \in {<<"none", "check">>, <<"check", "over">>, <<"call", "working">>,
                 <<"working", "recheck">>, <<"recheck", "over">>, <<"sleep", "check">>}
        PROVE  RunsOut(t)
    BY <2>4 DEF RunsOut, StepsLeft
  <2>5. CASE Start
    <3>1. CASE t = starts + 1
      <4>1. work[t] = "none" /\ work'[t] = "check"
        BY <1>1, <2>5, <3>1, WorkerAssumption DEF Start, Go, Fresh, IInv, TypeOK
      <4> QED
        BY <2>4, <4>1 DEF Places
    <3>2. CASE t # starts + 1
      BY <1>1, <2>3, <2>5, <3>2 DEF Start, Go, IInv, TypeOK
    <3> QED
      BY <3>1, <3>2
  <2>6. CASE (OwnerStep /\ ~Start) \/ Stop
    <3>1. UNCHANGED work
      BY <2>6 DEF OwnerStep, Replace, Join, Joined, Destroy, Destroyed, Terminate, Stop
    <3> QED
      BY <2>3, <3>1
  <2>7. ASSUME NEW u \in Workers, Run(u) \/ DoWorkReturns(u) \/ DoWorkThrows(u)
        PROVE  RunsOut(t)
    <3>1. CASE u = t
      <4>1. \/ work'[t] = work[t]
            \/ work[t] = "check" /\ work'[t] = "over"
            \/ work[t] = "call" /\ work'[t] = "working"
            \/ work[t] = "working" /\ work'[t] = "recheck"
            \/ work[t] = "recheck" /\ work'[t] = "over"
            \/ work[t] = "sleep" /\ work'[t] = "check"
        BY <1>1, <2>7, <3>1 DEF Run, Check, DoWork, Recheck, Wake, DoWorkReturns,
           DoWorkThrows, Go, Stopped, IInv, TypeOK
      <4> QED
        BY <2>3, <2>4, <4>1 DEF Places
    <3>2. CASE u # t
      <4>1. work'[t] = work[t]
        BY <1>1, <2>7, <3>2 DEF Run, Check, DoWork, Recheck, Wake, DoWorkReturns,
           DoWorkThrows, Go, IInv, TypeOK
      <4> QED
        BY <2>3, <4>1
    <3> QED
      BY <3>1, <3>2
  <2> QED
    BY <1>1, <2>5, <2>6, <2>7 DEF Next
<1>2. IInv /\ Fresh /\ [Next]_vars => [RunOut]_vars
  BY <1>1
<1>3. Init => Fresh
  BY DEF Init, Fresh
<1> QED
  BY <1>2, <1>3, InitIInv, NextIInv, NextFresh, PTL DEF Spec, StopRunsOut, RunOut
=============================================================================
