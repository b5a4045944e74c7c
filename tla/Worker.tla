------------------------------- MODULE Worker -------------------------------
(***************************************************************************)
(* The worker of kn/tool/src/thread.h: an object that owns a thread which  *)
(* calls the virtual DoWork until it is stopped, and the PrometheusGateway *)
(* of kn/tool/src/prometheus_gateway.h that is derived from it.            *)
(*                                                                         *)
(* One thread, the owner, starts, joins and destroys the object, in any    *)
(* order; Stop may be called by any thread.  Destroying or overwriting a   *)
(* std::thread that can still be joined ends the process.  Join without a  *)
(* thread does nothing, and on one that was joined before it throws        *)
(* without an effect: both are left out.  stop_ is a plain bool; since     *)
(* DoWork is called between two reads, each read sees what was written.    *)
(***************************************************************************)
EXTENDS Naturals

CONSTANT MaxStarts  \* bound: calls of Start

ASSUME WorkerAssumption == MaxStarts \in Nat

Workers == 1..MaxStarts

VARIABLES
  work,    \* where each thread is in Run
  starts,  \* number of threads started so far
  handle,  \* the thread that th_ holds, 0 for none
  joined,  \* has that thread been joined?
  stop,    \* stop_
  owner,   \* what the owner is at
  up       \* has the process not been terminated?

vars == <<work, starts, handle, joined, stop, owner, up>>

Places == {"none", "check", "call", "working", "recheck", "sleep", "over"}
Calls == {"idle", "start", "join", "destroy", "gone"}

TypeOK ==
  /\ work \in [Workers -> Places]
  /\ starts \in 0..MaxStarts
  /\ handle \in 0..MaxStarts
  /\ joined \in BOOLEAN /\ stop \in BOOLEAN /\ up \in BOOLEAN
  /\ owner \in Calls

Init ==
  /\ work = [t \in Workers |-> "none"]
  /\ starts = 0 /\ handle = 0
  /\ joined = FALSE /\ stop = FALSE
  /\ owner = "idle" /\ up = TRUE

Go(t, p) == work' = [work EXCEPT ![t] = p]

-----------------------------------------------------------------------------
(* The owner.                                                               *)

Joinable == handle # 0 /\ ~joined

\* make_unique starts the new thread before the old handle is replaced.
Start ==
  /\ owner = "idle" /\ starts < MaxStarts
  /\ starts' = starts + 1
  /\ Go(starts + 1, "check")
  /\ owner' = "start"
  /\ UNCHANGED <<handle, joined, stop, up>>

ReplaceRegardless ==
  /\ owner = "start"
  /\ handle' = starts /\ joined' = FALSE
  /\ owner' = "idle"
  /\ UNCHANGED <<work, starts, stop, up>>
Replace ==
  /\ owner = "start" /\ ~Joinable
  /\ handle' = starts /\ joined' = FALSE
  /\ owner' = "idle"
  /\ UNCHANGED <<work, starts, stop, up>>

Join ==
  /\ owner = "idle" /\ Joinable
  /\ owner' = "join"
  /\ UNCHANGED <<work, starts, handle, joined, stop, up>>

Joined ==
  /\ owner = "join" /\ work[handle] = "over"
  /\ joined' = TRUE /\ owner' = "idle"
  /\ UNCHANGED <<work, starts, handle, stop, up>>

\* ~PrometheusGateway deletes the gateway; then come the members of Thread.
Destroy ==
  /\ owner = "idle"
  /\ owner' = "destroy"
  /\ UNCHANGED <<work, starts, handle, joined, stop, up>>

Destroyed ==
  /\ owner = "destroy" /\ ~Joinable
  /\ owner' = "gone"
  /\ UNCHANGED <<work, starts, handle, joined, stop, up>>

\* The destructor of the std::thread in th_ ends the process.
Terminate ==
  /\ owner \in {"start", "destroy"} /\ Joinable
  /\ up' = FALSE
  /\ UNCHANGED <<work, starts, handle, joined, stop, owner>>

Stop ==
  /\ owner # "gone" /\ ~stop
  /\ stop' = TRUE
  /\ UNCHANGED <<work, starts, handle, joined, owner, up>>

-----------------------------------------------------------------------------
(* Thread::Run.                                                             *)

StopUnseen == FALSE
Stopped == stop

Check(t) ==
  /\ work[t] = "check"
  /\ Go(t, IF Stopped THEN "over" ELSE "call")
  /\ UNCHANGED <<starts, handle, joined, stop, owner, up>>

DoWork(t) ==
  /\ work[t] = "call"
  /\ Go(t, "working")
  /\ UNCHANGED <<starts, handle, joined, stop, owner, up>>

\* PrometheusGateway waits in DoWork for the answer to its push.
DoWorkReturns(t) ==
  /\ work[t] = "working"
  /\ Go(t, "recheck")
  /\ UNCHANGED <<starts, handle, joined, stop, owner, up>>

\* DoWork is noexcept.
DoWorkThrows(t) ==
  /\ work[t] = "working"
  /\ up' = FALSE
  /\ UNCHANGED <<work, starts, handle, joined, stop, owner>>

\* DoWork has returned a time to sleep, 0, or a negative number.
Recheck(t) ==
  /\ work[t] = "recheck"
  /\ \/ Stopped /\ Go(t, "over")
     \/ ~Stopped /\ \E p \in {"sleep", "check", "over"} : Go(t, p)
  /\ UNCHANGED <<starts, handle, joined, stop, owner, up>>

Wake(t) ==
  /\ work[t] = "sleep"
  /\ Go(t, "check")
  /\ UNCHANGED <<starts, handle, joined, stop, owner, up>>

-----------------------------------------------------------------------------
OwnerStep == Start \/ Replace \/ Join \/ Joined \/ Destroy \/ Destroyed \/ Terminate

Run(t) == Check(t) \/ DoWork(t) \/ Recheck(t) \/ Wake(t)

Next ==
  /\ up
  /\ \/ OwnerStep \/ Stop
     \/ \E t \in Workers : Run(t) \/ DoWorkReturns(t) \/ DoWorkThrows(t)

Spec == Init /\ [][Next]_vars

\* Running threads go on, and a Join ends when its thread has; nothing says
\* that DoWork returns.
FairSpec ==
  /\ Spec
  /\ WF_vars(up /\ Joined)
  /\ \A t \in Workers : WF_vars(up /\ Run(t))

-----------------------------------------------------------------------------
(* Properties.                                                              *)

Active(t) == work[t] \notin {"none", "over"}

\* No thread outlives its handle: one that runs is the one th_ holds unjoined,
\* or is about to be.  So two never run side by side, but for the moment before
\* a second Start ends the process; and none runs on a destroyed object.
NoOrphan ==
  \A t \in Workers :
    up /\ Active(t) => (t = handle /\ ~joined) \/ (owner = "start" /\ t = starts)

\* A Stop that comes before the Start is not lost: DoWork is never called.
StopBeforeStart ==
  \A t \in Workers : [](stop /\ work[t] = "none" => [](work[t] # "working"))

\* Once stop_ is set every step of a thread brings it nearer to its end: it
\* calls DoWork at most once more, sleeps at most once, and one that is only
\* started afterwards checks stop_ and ends.
StepsLeft(t) ==
  [call |-> 5, working |-> 4, recheck |-> 3, sleep |-> 2, none |-> 2, check |-> 1,
   over |-> 0][work[t]]
RunsOut(t) ==
  stop =>
    /\ StepsLeft(t)' <= StepsLeft(t)
    /\ work'[t] # work[t] => StepsLeft(t)' < StepsLeft(t)
StopRunsOut == [][\A t \in Workers : RunsOut(t)]_vars

\* After a Stop, Join returns, provided that DoWork always does.
WorkReturns == \A t \in Workers : []<>(work[t] # "working")
JoinReturns == WorkReturns => (owner = "join" /\ stop ~> owner # "join" \/ ~up)
=============================================================================
