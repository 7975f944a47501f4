------------------------------- MODULE Locks ---------------------------------
(***************************************************************************)
(* The locks of the bridge, and the upcalls that run under them, all at    *)
(* once: what each call takes, in its order, and what an app may do from   *)
(* inside an upcall.  TunHandler, Runtime, EventBus and GroupTest say what *)
(* happens between the steps; here a call is only its locks.               *)
(*                                                                         *)
(* startTUN, stopTun and setEventListener run on the thread that calls     *)
(* them, so an upcall that calls one of them waits for it.  Left out: the  *)
(* locks that nothing is waited for under (proxyGroupOrderMu, fileSinkMu,  *)
(* dnsquery's), and the upcalls made with no lock held, which are like a   *)
(* call of the same thread after the action.                               *)
(***************************************************************************)
EXTENDS Naturals, Sequences, FiniteSets

CONSTANTS
  Threads,   \* the app's threads, mihomo's, and the goroutines of actions
  Capacity,  \* tunSemFullLock
  None

ASSUME LocksAssumption == None \notin Threads /\ Capacity \in Nat \ {0}

VARIABLES
  owner,    \* of each lock: who holds it, or has it next once it is drained
  sharers,  \* of each lock: the dials that hold a unit of "limit", the readers
            \* of eventListenerMu
  frames    \* of each thread: the calls it is in, the innermost last

vars == <<owner, sharers, frames>>

\* streamMu stands for logSubMu and for connectionsMu.
Locks == {"tunLock", "runLock", "limit", "eventListenerMu", "pickMu", "streamMu"}

-----------------------------------------------------------------------------
(* The calls.  A step is what it does and the lock, or the upcall, it does *)
(* it to.  To take and drain a lock is to have it exclusively: new sharers *)
(* are kept out, and those there are waited for.                           *)

Step(does, on) == [does |-> does, on |-> on]

\* Mutant: start takes the semaphore before runLock.
StartTun_LimitFirst ==
  <<Step("take", "tunLock"),
    Step("take", "limit"), Step("drain", "limit"), Step("leave", "limit"),
    Step("take", "limit"), Step("drain", "limit"),
    Step("take", "runLock"), Step("leave", "runLock"), Step("leave", "limit"),
    Step("leave", "tunLock"),
    Step("take", "runLock"), Step("leave", "runLock")>>

\* The TUN in place is closed; then start; then startListener, or
\* resetConnections.
StartTun ==
  <<Step("take", "tunLock"),
    Step("take", "limit"), Step("drain", "limit"), Step("leave", "limit"),
    Step("take", "runLock"),
    Step("take", "limit"), Step("drain", "limit"), Step("leave", "limit"),
    Step("leave", "runLock"),
    Step("leave", "tunLock"),
    Step("take", "runLock"), Step("leave", "runLock")>>

\* And stopListener, if it was running.
StopTun ==
  <<Step("take", "tunLock"),
    Step("take", "limit"), Step("drain", "limit"), Step("leave", "limit"),
    Step("leave", "tunLock"),
    Step("take", "runLock"), Step("leave", "runLock")>>

SetEventListener ==
  <<Step("take", "eventListenerMu"), Step("drain", "eventListenerMu"),
    Step("leave", "eventListenerMu")>>

\* A connection of mihomo's, with protect or resolverProcess.
Dial == <<Step("share", "limit"), Step("upcall", "protect"), Step("unshare", "limit")>>

\* setupConfig, updateConfig, quickSetup: mihomo may dial within.
ApplyConfig ==
  <<Step("take", "runLock"),
    Step("share", "limit"), Step("upcall", "protect"), Step("unshare", "limit"),
    Step("leave", "runLock")>>

\* sideLoadExternalProvider answers before it unlocks.
SideLoad == <<Step("take", "runLock"), Step("upcall", "onResult"), Step("leave", "runLock")>>

SendMessage ==
  <<Step("share", "eventListenerMu"), Step("upcall", "onEvent"),
    Step("unshare", "eventListenerMu")>>

\* startLog, stopLog, subscribe- and unsubscribeConnections: the goroutine of the
\* stream is waited for.
RestartStream == <<Step("take", "streamMu"), Step("await", "stream"), Step("leave", "streamMu")>>

\* A group is measured, seated and reported.
TestGroups ==
  <<Step("share", "limit"), Step("upcall", "protect"), Step("unshare", "limit"),
    Step("take", "pickMu"), Step("leave", "pickMu"),
    Step("share", "eventListenerMu"), Step("upcall", "onEvent"),
    Step("unshare", "eventListenerMu")>>

ChangeProxy == <<Step("take", "pickMu"), Step("leave", "pickMu")>>

\* initClash, startListener, stopListener, resetConnections, geoUpdateDue.
Settings == <<Step("take", "runLock"), Step("leave", "runLock")>>

Sync == [startTUN |-> StartTun, stopTun |-> StopTun, setEventListener |-> SetEventListener]

Steps ==
  [startTUN |-> StartTun, stopTun |-> StopTun, setEventListener |-> SetEventListener,
   dial |-> Dial, applyConfig |-> ApplyConfig, sideLoad |-> SideLoad,
   stream |-> SendMessage, restartStream |-> RestartStream,
   testGroups |-> TestGroups, changeProxy |-> ChangeProxy, settings |-> Settings]

-----------------------------------------------------------------------------
Depth(t) == Len(frames[t])

Top(t) == frames[t][Depth(t)]

\* What a thread is about to do.
Now(t) == Steps[Top(t).call][Top(t).at]

Doing(t, does) == Depth(t) > 0 /\ Now(t).does = does

\* On to the next step; a call that is over returns to where it was made.
Past(t) ==
  LET rest == SubSeq(frames[t], 1, Depth(t) - 1)
  IN IF Top(t).at < Len(Steps[Top(t).call])
     THEN Append(rest, [Top(t) EXCEPT !.at = @ + 1])
     ELSE rest

Advance(t) == frames' = [frames EXCEPT ![t] = Past(t)]

Init ==
  /\ owner = [l \in Locks |-> None]
  /\ sharers = [l \in Locks |-> {}]
  /\ frames = [t \in Threads |-> <<>>]

Call(t, c) ==
  /\ frames[t] = <<>>
  /\ frames' = [frames EXCEPT ![t] = <<[call |-> c, at |-> 1]>>]
  /\ UNCHANGED <<owner, sharers>>

Take(t) ==
  /\ Doing(t, "take") /\ owner[Now(t).on] = None
  /\ owner' = [owner EXCEPT ![Now(t).on] = t]
  /\ Advance(t)
  /\ UNCHANGED sharers

Drain(t) ==
  /\ Doing(t, "drain") /\ sharers[Now(t).on] = {}
  /\ Advance(t)
  /\ UNCHANGED <<owner, sharers>>

Leave(t) ==
  /\ Doing(t, "leave")
  /\ owner' = [owner EXCEPT ![Now(t).on] = None]
  /\ Advance(t)
  /\ UNCHANGED sharers

UnitsTaken(lock) == lock = "limit" /\ Cardinality(sharers[lock]) >= Capacity

Share(t) ==
  /\ Doing(t, "share") /\ owner[Now(t).on] = None /\ ~UnitsTaken(Now(t).on)
  /\ sharers' = [sharers EXCEPT ![Now(t).on] = @ \cup {t}]
  /\ Advance(t)
  /\ UNCHANGED owner

Unshare(t) ==
  /\ Doing(t, "unshare")
  /\ sharers' = [sharers EXCEPT ![Now(t).on] = @ \ {t}]
  /\ Advance(t)
  /\ UNCHANGED owner

\* The goroutine of the stream: inside sendMessage, that is; between two events
\* it ends at once.
Streaming == {t \in Threads : Depth(t) > 0 /\ frames[t][1].call = "stream"}

Await(t) ==
  /\ Doing(t, "await") /\ Streaming = {}
  /\ Advance(t)
  /\ UNCHANGED <<owner, sharers>>

UpcallReturns(t) ==
  /\ Doing(t, "upcall")
  /\ Advance(t)
  /\ UNCHANGED <<owner, sharers>>

\* The app calls back into the bridge.
Reenter(t, c) ==
  /\ Doing(t, "upcall")
  /\ frames' = [frames EXCEPT ![t] = Append(@, [call |-> c, at |-> 1])]
  /\ UNCHANGED <<owner, sharers>>

Next ==
  \E t \in Threads :
    \/ \E c \in DOMAIN Steps : Call(t, c)
    \/ \E c \in DOMAIN Sync : Reenter(t, c)
    \/ Take(t) \/ Drain(t) \/ Leave(t) \/ Share(t) \/ Unshare(t) \/ Await(t)
    \/ UpcallReturns(t)

Spec == Init /\ [][Next]_vars

-----------------------------------------------------------------------------
\* What the variables range over.
TypeOK ==
  /\ owner \in [Locks -> Threads \cup {None}]
  /\ sharers \in [Locks -> SUBSET Threads]
  /\ \A t \in Threads :
       /\ Depth(t) <= 2
       /\ \A i \in 1 .. Depth(t) :
            /\ frames[t][i].call \in DOMAIN Steps
            /\ frames[t][i].at \in DOMAIN Steps[frames[t][i].call]
       \* whoever is in no call has left every lock
       /\ frames[t] = <<>> =>
            \A l \in Locks : owner[l] # t /\ t \notin sharers[l]

\* "t" waits for what only threads in "S" can bring about.
WaitsFor(t, S) ==
  \/ Doing(t, "take") /\ owner[Now(t).on] \in S
  \/ Doing(t, "drain") /\ sharers[Now(t).on] \cap S # {}
  \/ /\ Doing(t, "share")
     /\ owner[Now(t).on] \in S \/ (UnitsTaken(Now(t).on) /\ sharers[Now(t).on] \subseteq S)
  \/ Doing(t, "await") /\ Streaming \cap S # {}

Stuck(S) == S # {} /\ \A t \in S : WaitsFor(t, S)

\* The calls made from inside an upcall: which upcall, which call.
Reentries(S) ==
  {<<Steps[frames[t][1].call][frames[t][1].at].on, frames[t][2].call>> :
     t \in {u \in S : Depth(u) = 2}}

\* A call that waits for the very lock its own upcall is under.
WaitsForItself ==
  {<<"protect", "startTUN">>, <<"protect", "stopTun">>,
   <<"onResult", "startTUN">>, <<"onResult", "stopTun">>,
   <<"onEvent", "setEventListener">>}

\* The calls that wait for each other: from an event for the TUN's locks, and
\* from an upcall under one of those for the listener's.
Crossed(R) ==
  /\ R \cap {<<"onEvent", "startTUN">>, <<"onEvent", "stopTun">>} # {}
  /\ R \cap {<<"protect", "setEventListener">>, <<"onResult", "setEventListener">>} # {}

\* No threads ever wait for each other in a circle, whatever calls, dials,
\* events and group tests come together, unless the app calls the bridge from
\* inside an upcall in one of the ways above.
StuckOnlyByReentry ==
  \A S \in SUBSET Threads : Stuck(S) =>
    Reentries(S) \cap WaitsForItself # {} \/ Crossed(Reentries(S))

=============================================================================
