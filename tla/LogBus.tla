------------------------------- MODULE LogBus --------------------------------
(***************************************************************************)
(* The log bus of log_bridge.go: dispatch, called by every goroutine that  *)
(* has something to log (mihomo's subscription, the readers of stdout and  *)
(* stderr, the app's forwardHostLog), and dispatchLoop, which drains the   *)
(* channel into the sinks and is respawned when a sink panics.             *)
(*                                                                         *)
(* dispatch is three selects and a counter, with other producers and the   *)
(* loop between any two of them.                                           *)
(***************************************************************************)
EXTENDS Naturals, Sequences, FiniteSets

CONSTANTS
  Producers,
  Capacity,  \* dispatchCapacity
  Burst,     \* bound: the events a producer sends
  None

ASSUME BusAssumption ==
  /\ IsFiniteSet(Producers)
  /\ Capacity \in Nat \ {0} /\ Burst \in Nat
  /\ None \notin Producers \X (1 .. Burst)

VARIABLES
  logDispatchCh, dropCount,
  sent,      \* how many events a producer has begun to dispatch
  pc,        \* where a producer is in dispatch
  loop,      \* where dispatchLoop is
  inHand,    \* what it is routing: an event or None
  report,    \* the drops it is about to announce
  taken,     \* history: the events it received, in order
  announced, \* history: the drops it announced
  swallowed, \* history: the drops whose announcement panicked
  raced      \* history: producers since whose first try another sent something

loopVars == <<loop, inHand, report, taken, announced, swallowed>>
vars == <<logDispatchCh, dropCount, sent, pc, loopVars, raced>>

Events == Producers \X (1 .. Burst)

EventOf(p) == <<p, sent[p]>>

Goto(p, label) == pc' = [pc EXCEPT ![p] = label]

Full == Len(logDispatchCh) >= Capacity

Init ==
  /\ logDispatchCh = <<>> /\ dropCount = 0
  /\ sent = [p \in Producers |-> 0]
  /\ pc = [p \in Producers |-> "idle"]
  /\ loop = "select" /\ inHand = None /\ report = 0
  /\ taken = <<>> /\ announced = 0 /\ swallowed = 0
  /\ raced = {}

-----------------------------------------------------------------------------
(* dispatch.                                                               *)

Dispatch(p) ==
  /\ pc[p] = "idle" /\ sent[p] < Burst
  /\ sent' = [sent EXCEPT ![p] = @ + 1]
  /\ Goto(p, "send")
  /\ UNCHANGED <<logDispatchCh, dropCount, loopVars, raced>>

\* The send of the first and of the third select, where there is room.
Put(p) ==
  /\ pc[p] \in {"send", "retry"} /\ ~Full
  /\ logDispatchCh' = Append(logDispatchCh, EventOf(p))
  /\ Goto(p, "idle")
  /\ raced' = (raced \cup {q \in Producers : pc[q] \in {"count", "retry"}}) \ {p}
  /\ UNCHANGED <<dropCount, sent, loopVars>>

FindFull(p) ==
  /\ pc[p] = "send" /\ Full
  /\ Goto(p, "full")
  /\ UNCHANGED <<logDispatchCh, dropCount, sent, loopVars, raced>>

\* Mutant: no room is made for the newcomer.
TakeOldest_None(p) ==
  /\ pc[p] = "full"
  /\ Goto(p, "retry")
  /\ UNCHANGED <<logDispatchCh, dropCount, sent, loopVars, raced>>

\* The second select; the loop may have emptied the channel meanwhile.
TakeOldest(p) ==
  /\ pc[p] = "full"
  /\ IF logDispatchCh = <<>>
     THEN Goto(p, "retry") /\ UNCHANGED logDispatchCh
     ELSE Goto(p, "count") /\ logDispatchCh' = Tail(logDispatchCh)
  /\ UNCHANGED <<dropCount, sent, loopVars, raced>>

\* Mutant: the event taken out is not counted.
CountOldest_Not(p) ==
  /\ pc[p] = "count"
  /\ Goto(p, "retry")
  /\ UNCHANGED <<logDispatchCh, dropCount, sent, loopVars, raced>>

CountOldest(p) ==
  /\ pc[p] = "count"
  /\ dropCount' = dropCount + 1
  /\ Goto(p, "retry")
  /\ UNCHANGED <<logDispatchCh, sent, loopVars, raced>>

\* Mutant: the third select waits for room.
RefuseNewcomer_Never(p) == FALSE

\* The default of the third select: somebody else took the room.
RefuseNewcomer(p) ==
  /\ pc[p] = "retry" /\ Full
  /\ Goto(p, "countNew")
  /\ UNCHANGED <<logDispatchCh, dropCount, sent, loopVars, raced>>

CountNewcomer(p) ==
  /\ pc[p] = "countNew"
  /\ dropCount' = dropCount + 1
  /\ Goto(p, "idle")
  /\ raced' = raced \ {p}
  /\ UNCHANGED <<logDispatchCh, sent, loopVars>>

-----------------------------------------------------------------------------
(* dispatchLoop.                                                           *)

producerVars == <<sent, pc, raced>>

Receive ==
  /\ loop = "select" /\ logDispatchCh # <<>>
  /\ inHand' = Head(logDispatchCh)
  /\ taken' = Append(taken, Head(logDispatchCh))
  /\ logDispatchCh' = Tail(logDispatchCh)
  /\ loop' = "route"
  /\ UNCHANGED <<dropCount, report, announced, swallowed, producerVars>>

\* The tick flushes the file as well (FileSink); with no drops that is all.
Tick ==
  /\ loop = "select" /\ dropCount > 0
  /\ report' = dropCount
  /\ dropCount' = 0
  /\ loop' = "report"
  /\ UNCHANGED <<logDispatchCh, inHand, taken, announced, swallowed, producerVars>>

\* An event, or the announcement of the drops, goes to logcat and the file.
Route ==
  /\ loop \in {"route", "report"}
  /\ announced' = announced + report
  /\ inHand' = None /\ report' = 0
  /\ loop' = "select"
  /\ UNCHANGED <<logDispatchCh, dropCount, taken, swallowed, producerVars>>

\* A sink panics: what is in hand is gone.
Panic ==
  /\ loop \in {"route", "report"}
  /\ swallowed' = swallowed + report
  /\ inHand' = None /\ report' = 0
  /\ loop' = "dead"
  /\ UNCHANGED <<logDispatchCh, dropCount, taken, announced, producerVars>>

\* Mutant: recovered, but not respawned.
Respawn_Not == FALSE

Respawn ==
  /\ loop = "dead"
  /\ loop' = "select"
  /\ UNCHANGED <<logDispatchCh, dropCount, inHand, report, taken, announced, swallowed, producerVars>>

-----------------------------------------------------------------------------
DispatchStep(p) ==
  \/ Put(p) \/ FindFull(p) \/ TakeOldest(p) \/ CountOldest(p)
  \/ RefuseNewcomer(p) \/ CountNewcomer(p)

LoopStep == Receive \/ Tick \/ Route \/ Panic \/ Respawn

\* The bound: every producer has sent its burst, and the loop has nothing to do.
Quiet ==
  /\ \A p \in Producers : pc[p] = "idle" /\ sent[p] = Burst
  /\ loop = "select" /\ logDispatchCh = <<>> /\ dropCount = 0
  /\ UNCHANGED vars

Next == (\E p \in Producers : Dispatch(p) \/ DispatchStep(p)) \/ LoopStep \/ Quiet

Spec == Init /\ [][Next]_vars

\* Goroutines run.  Go's select chooses among the ready cases at random, so
\* neither the channel nor the ticker is passed over for ever.  A sink may stall.
Fairness ==
  /\ \A p \in Producers : WF_vars(DispatchStep(p))
  /\ SF_vars(Receive) /\ SF_vars(Tick) /\ WF_vars(Respawn)

SinksReturn == WF_vars(Route \/ Panic)

FairSpec == Spec /\ Fairness

-----------------------------------------------------------------------------
\* What the variables range over.
TypeOK ==
  /\ logDispatchCh \in Seq(Events) /\ Len(logDispatchCh) <= Capacity
  /\ dropCount \in Nat
  /\ sent \in [Producers -> 0 .. Burst]
  /\ pc \in [Producers -> {"idle", "send", "full", "count", "retry", "countNew"}]
  /\ \A p \in Producers : pc[p] # "idle" => sent[p] > 0
  /\ loop \in {"select", "route", "report", "dead"}
  /\ inHand \in Events \cup {None} /\ (inHand # None <=> loop = "route")
  /\ report \in Nat /\ (report > 0 <=> loop = "report")
  /\ taken \in Seq(Events)
  /\ announced \in Nat /\ swallowed \in Nat
  /\ raced \in SUBSET Producers

\* Those who have lost an event and are about to count it.
Counting == {p \in Producers : pc[p] \in {"count", "countNew"}}

\* Those whose own event is neither in the channel nor given up yet.
Holding == {p \in Producers : pc[p] \in {"send", "full", "count", "retry"}}

\* What was given up and not announced yet, and what was announced, or tried to.
Owed == dropCount + Cardinality(Counting)

Announcements == report + announced + swallowed

Dispatched == {e \in Events : e[2] <= sent[e[1]]}

\* No event vanishes: each one dispatched is with its producer, in the channel,
\* received by the loop, or in a count that is or will be announced - the only
\* announcements lost are those a sink panicked on.
NothingVanishes ==
  Cardinality(Dispatched) =
    Cardinality(Holding) + Len(logDispatchCh) + Len(taken) + Owed + Announcements

\* "drop oldest on overflow": a newcomer is refused only if another producer
\* sent something after room was made for it.
NewcomerLostOnlyInRace ==
  \A p \in Producers : pc[p] = "countNew" => p \in raced

Lossy == INSTANCE LossyLog WITH
  pending <- logDispatchCh,
  delivered <- taken,
  owed <- Owed,
  announced <- Announcements

\* The bus implements the lossy log although its drops are counted after they
\* happened, and swapped out while more are about to be.
KeepsLossyLog == Lossy!Spec

\* "Non-blocking ... so mihomo's event loop never stalls": every dispatch comes
\* back, though the loop be stuck in a sink and make no room.
DispatchReturns == \A p \in Producers : pc[p] # "idle" ~> pc[p] = "idle"

\* "so a sink bug can't silence the pipeline": however often a sink panics, what
\* is in the channel gets out, and the drops get announced, or tried to.
PipelineFlows ==
  SinksReturn =>
    /\ \A e \in Events :
         (\E i \in DOMAIN logDispatchCh : logDispatchCh[i] = e) ~>
           (\A i \in DOMAIN logDispatchCh : logDispatchCh[i] # e)
    /\ dropCount > 0 ~> dropCount = 0

=============================================================================
