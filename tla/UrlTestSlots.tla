---------------------------- MODULE UrlTestSlots -----------------------------
(***************************************************************************)
(* testProxy of proxies.go: a test waits for one of the slots of           *)
(* urlTestSem, then lets a goroutine run the URL test and waits for its    *)
(* result or for the deadline, whichever comes first.  The goroutine keeps *)
(* the slot until the adapter comes back, which some never do.             *)
(*                                                                         *)
(* The semaphore, of golang.org/x/sync, is modelled by what it does: a     *)
(* queue of waiters, and a slot that is granted while its waiter gives up. *)
(***************************************************************************)
EXTENDS Naturals, SequencesExt

CONSTANTS
  Tests,     \* calls of testProxy
  Capacity,  \* urlTestSemCapacity
  None

ASSUME SlotsAssumption ==
  /\ IsFiniteSet(Tests) /\ Capacity \in Nat \ {0}
  /\ None \notin {"ok", "failed"}

VARIABLES
  cur, waiters,  \* urlTestSem: how many slots are taken, and who waits
  slotOver,      \* whose slotCtx is done
  over,          \* whose ctx is done
  pc,            \* where a call is
  worker,        \* where its goroutine is
  result,        \* what its URL test came back with
  ch,            \* what is in its channel
  answer,        \* what the call returned
  late           \* history: the tests that came back after the deadline

callVars == <<pc, answer>>
workVars == <<worker, result, ch, late>>
vars == <<cur, waiters, slotOver, over, callVars, workVars>>

Init ==
  /\ cur = 0 /\ waiters = <<>>
  /\ slotOver = {} /\ over = {}
  /\ pc = [t \in Tests |-> "idle"]
  /\ worker = [t \in Tests |-> "unborn"]
  /\ result = [t \in Tests |-> None]
  /\ ch = [t \in Tests |-> None]
  /\ answer = [t \in Tests |-> None]
  /\ late = {}

Goto(t, label) == pc' = [pc EXCEPT ![t] = label]

Answer(t, a) == Goto(t, "answered") /\ answer' = [answer EXCEPT ![t] = a]

-----------------------------------------------------------------------------
(* The semaphore.                                                          *)

\* Release: a slot that comes back goes to the first waiter, if there is one.
GiveBack(from) ==
  IF waiters = <<>>
  THEN cur' = cur - 1 /\ pc' = from /\ UNCHANGED waiters
  ELSE /\ waiters' = Tail(waiters)
       /\ pc' = [from EXCEPT ![Head(waiters)] = "granted"]
       /\ UNCHANGED cur

\* Acquire with a slot free, or at the end of the queue.
Acquire(t) ==
  /\ pc[t] = "idle"
  /\ IF cur < Capacity /\ waiters = <<>>
     THEN cur' = cur + 1 /\ Goto(t, "holding") /\ UNCHANGED waiters
     ELSE waiters' = Append(waiters, t) /\ Goto(t, "waiting") /\ UNCHANGED cur
  /\ UNCHANGED <<slotOver, over, answer, workVars>>

\* Granted in time.
Wake(t) ==
  /\ pc[t] = "granted" /\ t \notin slotOver
  /\ Goto(t, "holding")
  /\ UNCHANGED <<cur, waiters, slotOver, over, answer, workVars>>

\* Granted too late: the slot goes back, or on to the next.
RefuseGranted(t) ==
  /\ pc[t] = "granted" /\ t \in slotOver
  /\ answer' = [answer EXCEPT ![t] = "failed"]
  /\ GiveBack([pc EXCEPT ![t] = "answered"])
  /\ UNCHANGED <<slotOver, over, workVars>>

\* Mutant: the wait for a slot has no end.
GiveUp_Never(t) == FALSE

\* urlTestSlotWait is over.
GiveUp(t) ==
  /\ pc[t] = "waiting" /\ t \in slotOver
  /\ \E i \in DOMAIN waiters : waiters[i] = t /\ waiters' = RemoveAt(waiters, i)
  /\ Answer(t, "failed")
  /\ UNCHANGED <<cur, slotOver, over, workVars>>

-----------------------------------------------------------------------------
(* The two contexts.                                                       *)

SlotWaitOver(t) ==
  /\ pc[t] \in {"waiting", "granted"} /\ t \notin slotOver
  /\ slotOver' = slotOver \cup {t}
  /\ UNCHANGED <<cur, waiters, over, callVars, workVars>>

DeadlinePasses(t) ==
  /\ pc[t] \in {"await", "check"} /\ t \notin over
  /\ over' = over \cup {t}
  /\ UNCHANGED <<cur, waiters, slotOver, callVars, workVars>>

-----------------------------------------------------------------------------
(* What testProxy does with its slot.                                      *)

Start(t) ==
  /\ pc[t] = "holding"
  /\ worker' = [worker EXCEPT ![t] = "testing"]
  /\ Goto(t, "await")
  /\ UNCHANGED <<cur, waiters, slotOver, over, answer, result, ch, late>>

\* The adapter comes back, in time or not, whatever its context says.  A delay
\* of zero counts as failed.
UrlTestReturns(t, r) ==
  /\ worker[t] = "testing"
  /\ worker' = [worker EXCEPT ![t] = "send"]
  /\ result' = [result EXCEPT ![t] = r]
  /\ late' = IF t \in over THEN late \cup {t} ELSE late
  /\ UNCHANGED <<cur, waiters, slotOver, over, callVars, ch>>

\* Mutant: the channel has no buffer, so that nobody takes a late result.
Send_Unbuffered(t) ==
  /\ worker[t] = "send" /\ pc[t] = "await"
  /\ ch' = [ch EXCEPT ![t] = result[t]]
  /\ worker' = [worker EXCEPT ![t] = "release"]
  /\ UNCHANGED <<cur, waiters, slotOver, over, callVars, result, late>>

Send(t) ==
  /\ worker[t] = "send"
  /\ ch' = [ch EXCEPT ![t] = result[t]]
  /\ worker' = [worker EXCEPT ![t] = "release"]
  /\ UNCHANGED <<cur, waiters, slotOver, over, callVars, result, late>>

\* The deferred Release.
Release(t) ==
  /\ worker[t] = "release"
  /\ worker' = [worker EXCEPT ![t] = "done"]
  /\ GiveBack(pc)
  /\ UNCHANGED <<slotOver, over, answer, result, ch, late>>

\* The select picks the result; it may, the deadline being over as well.
TakeResult(t) ==
  /\ pc[t] = "await" /\ ch[t] # None
  /\ Goto(t, "check")
  /\ UNCHANGED <<cur, waiters, slotOver, over, answer, workVars>>

\* Mutant: ctx.Err is not asked.
Judge_NoDeadline(t) ==
  /\ pc[t] = "check"
  /\ Answer(t, ch[t])
  /\ UNCHANGED <<cur, waiters, slotOver, over, workVars>>

Judge(t) ==
  /\ pc[t] = "check"
  /\ Answer(t, IF t \in over THEN "failed" ELSE ch[t])
  /\ UNCHANGED <<cur, waiters, slotOver, over, workVars>>

\* Mutant: a test that is given up gives its slot back, too.
TimeOut_Releases(t) ==
  /\ pc[t] = "await" /\ t \in over
  /\ answer' = [answer EXCEPT ![t] = "failed"]
  /\ GiveBack([pc EXCEPT ![t] = "answered"])
  /\ UNCHANGED <<slotOver, over, workVars>>

\* The select picks ctx.Done; the goroutine is left behind with its slot.
TimeOut(t) ==
  /\ pc[t] = "await" /\ t \in over
  /\ Answer(t, "failed")
  /\ UNCHANGED <<cur, waiters, slotOver, over, workVars>>

-----------------------------------------------------------------------------
CallStep(t) ==
  \/ Wake(t) \/ RefuseGranted(t) \/ GiveUp(t)
  \/ Start(t) \/ TakeResult(t) \/ Judge(t) \/ TimeOut(t)

WorkerStep(t) == Send(t) \/ Release(t)

Passes(t) == SlotWaitOver(t) \/ DeadlinePasses(t)

\* The calls have returned; what is left is with adapters that have stalled.
Quiet == (\A t \in Tests : pc[t] = "answered") /\ UNCHANGED vars

Next ==
  \/ \E t \in Tests :
       \/ Acquire(t) \/ CallStep(t) \/ WorkerStep(t) \/ Passes(t)
       \/ \E r \in {"ok", "failed"} : UrlTestReturns(t, r)
  \/ Quiet

Spec == Init /\ [][Next]_vars

\* Time passes and goroutines run; an adapter need not come back.
Fairness ==
  \A t \in Tests : WF_vars(CallStep(t)) /\ WF_vars(WorkerStep(t)) /\ WF_vars(Passes(t))

FairSpec == Spec /\ Fairness

-----------------------------------------------------------------------------
Labels == {"idle", "waiting", "granted", "holding", "await", "check", "answered"}

\* What the variables range over.
TypeOK ==
  /\ cur \in Nat
  /\ waiters \in Seq(Tests)
  /\ slotOver \in SUBSET Tests /\ over \in SUBSET Tests /\ late \in SUBSET Tests
  /\ pc \in [Tests -> Labels]
  /\ worker \in [Tests -> {"unborn", "testing", "send", "release", "done"}]
  /\ result \in [Tests -> {None, "ok", "failed"}]
  /\ ch \in [Tests -> {None, "ok", "failed"}]
  /\ answer \in [Tests -> {None, "ok", "failed"}]

Occupied ==
  {t \in Tests : pc[t] \in {"granted", "holding"} \/ worker[t] \in {"testing", "send", "release"}}

\* "Semaphore caps leaked goroutines": the slots taken are those of tests that
\* were granted one or whose goroutine still runs, and never more than there are,
\* in every race of a grant with the end of the wait, and of a result with the
\* deadline.
SlotsAccounted == cur = Cardinality(Occupied) /\ cur <= Capacity

\* A delay is that of a test which came back before its deadline, although the
\* select may pick the result with the deadline over.
NoLateDelay == \A t \in Tests : answer[t] = "ok" => t \notin late /\ result[t] = "ok"

\* "some adapters don't propagate SetDeadline": every call returns, though every
\* adapter stalls and keeps its slot.
CallsReturn == \A t \in Tests : pc[t] # "idle" ~> pc[t] = "answered"

\* A slot comes back once its adapter does, though the call has long returned.
SlotComesBack == \A t \in Tests : worker[t] = "send" ~> worker[t] = "done"

=============================================================================
