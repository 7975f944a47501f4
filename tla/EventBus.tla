------------------------------ MODULE EventBus -------------------------------
(***************************************************************************)
(* What goes up to the app: the answers of its actions (action.go), and    *)
(* push events, with setEventListener and sendMessage (lib.go) and the two *)
(* streams that feed them, the log fan-out (log_stream.go) and the         *)
(* connections ticker (connections.go).                                    *)
(*                                                                         *)
(* sendMessage calls up into the app with eventListenerMu read-locked, so  *)
(* setEventListener, which takes it for writing, waits for upcalls to      *)
(* return; only then may it release the old listener's global reference.   *)
(* A stream that is started or stopped again waits, under its own mutex,   *)
(* for the goroutine it cancelled, which may be inside such an upcall.     *)
(* An action has a global reference of its own, made by the JNI shim for   *)
(* its callback, which is answered on it once and then releases it.        *)
(***************************************************************************)
EXTENDS Naturals, FiniteSets

CONSTANTS
  Callers,    \* threads that make calls: host threads, action goroutines
  Workers,    \* goroutines of the streams (bounds the starts of a behaviour)
  Listeners,  \* references handed over (bounds the calls that set one)
  Streams,    \* those of the two there are that a behaviour uses
  None        \* nil, nobody

Ops == {"set", "test", "start", "stop", "other", "message", "garbled"}

ASSUME ThreadsAssumption ==
  /\ Streams \subseteq {"log", "connections"}
  /\ Callers \cap (Workers \cup Listeners) = {}
  /\ None \notin Callers \cup Workers \cup Listeners \cup Streams \cup Ops

VARIABLES
  eventListener,
  announced, readers,  \* eventListenerMu: the writer that holds or waits for
                       \* it, and who holds it for reading
  ref,      \* the JNI global references: each listener's, and for each caller
            \* that of the callback of its latest call
  mu,       \* logSubMu and connectionsMu
  current,  \* the worker a stream can cancel, None if there is none
  stopped,  \* the workers that were cancelled
  of,       \* the stream of a worker
  pc, op, arg   \* where a thread is, the call a caller makes and what it is
                \* about: a listener or a stream

busVars    == <<eventListener, announced, readers, ref>>
streamVars == <<mu, current, stopped, of>>
vars == <<busVars, streamVars, pc, op, arg>>

Threads == Callers \cup Workers

Goto(t, label) == pc' = [pc EXCEPT ![t] = label]

Refs == Listeners \cup Callers

\* DeleteGlobalRef; a second one on the same reference is remembered.  The
\* callback's is then forgotten: the next call has another.
Deleted(r) ==
  [ref EXCEPT ![r] = IF @ # "live" THEN "twice" ELSE IF r \in Callers THEN "none" ELSE "released"]

Return(c) ==
  /\ Goto(c, "idle")
  /\ op' = [op EXCEPT ![c] = None]
  /\ arg' = [arg EXCEPT ![c] = None]

\* result.success or result.error: the answer is on its way.
Answer(c) == Goto(c, "onResult") /\ arg' = [arg EXCEPT ![c] = None] /\ UNCHANGED op

Init ==
  /\ eventListener = None /\ announced = None /\ readers = {}
  /\ ref = [r \in Refs |-> "none"]
  /\ mu = [s \in Streams |-> None]
  /\ current = [s \in Streams |-> None]
  /\ stopped = {}
  /\ of = [w \in Workers |-> None]
  /\ pc = [t \in Threads |-> IF t \in Callers THEN "idle" ELSE "unborn"]
  /\ op = [t \in Threads |-> None]
  /\ arg = [t \in Threads |-> None]

-----------------------------------------------------------------------------
(* setEventListener.  The JNI shim makes the global reference first.       *)

CallSet(c, l) ==
  /\ pc[c] = "idle"
  /\ l # None => ref[l] = "none"
  /\ ref' = [r \in Refs |-> IF r = l THEN "live" ELSE IF r = c THEN "none" ELSE ref[r]]
  /\ Goto(c, "lock")
  /\ op' = [op EXCEPT ![c] = "set"]
  /\ arg' = [arg EXCEPT ![c] = l]
  /\ UNCHANGED <<eventListener, announced, readers, streamVars>>

\* A writer that asks for the lock keeps new readers out.
Announce(t) ==
  /\ pc[t] = "lock" /\ announced = None
  /\ announced' = t
  /\ Goto(t, "drain")
  /\ UNCHANGED <<eventListener, readers, ref, streamVars, op, arg>>

\* The lock is had when the last reader has left: swap and unlock.
SetListener(t) ==
  /\ pc[t] = "drain" /\ readers = {}
  /\ eventListener' = arg[t]
  /\ arg' = [arg EXCEPT ![t] = eventListener]
  /\ announced' = None
  /\ Goto(t, "release")
  /\ UNCHANGED <<readers, ref, streamVars, op>>

\* Mutant: the old listener is never released.
ReleaseOld_Never(t) ==
  /\ pc[t] = "release"
  /\ Return(t)
  /\ UNCHANGED <<busVars, streamVars>>

ReleaseOld(t) ==
  /\ pc[t] = "release"
  /\ ref' = IF arg[t] = None THEN ref ELSE Deleted(arg[t])
  /\ Return(t)
  /\ UNCHANGED <<eventListener, announced, readers, streamVars>>

-----------------------------------------------------------------------------
(* An action: invokeAction, and the goroutine that answers.                *)

\* The JNI shim makes a global reference of the callback for each call.
Invoke(c, o, about) ==
  /\ pc[c] = "idle"
  /\ op' = [op EXCEPT ![c] = o]
  /\ arg' = [arg EXCEPT ![c] = about]
  /\ ref' = [ref EXCEPT ![c] = "live"]
  /\ UNCHANGED <<eventListener, announced, readers, streamVars>>

\* The other methods do their work, which is not about the bus, and answer; so
\* does a method that does not exist, "message" among them, and quickSetup.  JSON
\* that does not parse is answered at once, on the thread of the app.
CallOther(c, o) ==
  /\ Invoke(c, o, None)
  /\ Goto(c, "onResult")

\* A result that does not marshal is not sent.
NotSent(c) ==
  /\ Invoke(c, "other", None)
  /\ Goto(c, "deferred")

OnResultReturns(c) ==
  /\ pc[c] = "onResult"
  /\ Goto(c, "deferred")
  /\ UNCHANGED <<busVars, streamVars, op, arg>>

\* The deferred releaseObject of send and of quickSetup; invokeAction has none,
\* nor has the answer to the method "message".
ReleaseCallback(c) ==
  /\ pc[c] = "deferred"
  /\ IF op[c] \in {"message", "garbled"}
     THEN Goto(c, "idle") /\ UNCHANGED <<ref, op, arg>>
     ELSE ref' = Deleted(c) /\ Return(c)
  /\ UNCHANGED <<eventListener, announced, readers, streamVars>>

-----------------------------------------------------------------------------
(* sendMessage, by a worker or by a group test.                            *)

\* A group test sends the delays of each group as it finishes.
CallTestGroups(c) ==
  /\ Invoke(c, "test", None)
  /\ Goto(c, "send")

\* Mutant: the listener is called without the lock.
RLock_None(t) ==
  /\ pc[t] = "send" /\ announced = None
  /\ arg' = [arg EXCEPT ![t] = eventListener]
  /\ Goto(t, IF eventListener = None THEN "sent" ELSE "upcall")
  /\ UNCHANGED <<busVars, streamVars, op>>

RLock(t) ==
  /\ pc[t] = "send" /\ announced = None
  /\ readers' = readers \cup {t}
  /\ arg' = [arg EXCEPT ![t] = eventListener]
  /\ Goto(t, IF eventListener = None THEN "sent" ELSE "upcall")
  /\ UNCHANGED <<eventListener, announced, ref, streamVars, op>>

UpcallReturns(t) ==
  /\ pc[t] = "upcall"
  /\ Goto(t, "sent")
  /\ UNCHANGED <<busVars, streamVars, op, arg>>

\* Mutant: the early return on a nil listener leaves the lock held.
RUnlock_NotOnNil(t) ==
  /\ pc[t] = "sent"
  /\ readers' = IF arg[t] = None THEN readers ELSE readers \ {t}
  /\ IF t \in Callers
     THEN Answer(t)
     ELSE Goto(t, "loop") /\ arg' = [arg EXCEPT ![t] = None] /\ UNCHANGED op
  /\ UNCHANGED <<eventListener, announced, ref, streamVars>>

RUnlock(t) ==
  /\ pc[t] = "sent"
  /\ readers' = readers \ {t}
  /\ IF t \in Callers
     THEN Answer(t)
     ELSE Goto(t, "loop") /\ arg' = [arg EXCEPT ![t] = None] /\ UNCHANGED op
  /\ UNCHANGED <<eventListener, announced, ref, streamVars>>

-----------------------------------------------------------------------------
(* Starting and stopping a stream: startLog and stopLog, and subscribe- and *)
(* unsubscribeConnections.                                                 *)

\* The bound on starts: as many as there are workers.
MayStart ==
  Cardinality({c \in Callers : op[c] = "start" /\ pc[c] \in {"lockStream", "await", "fresh"}}) <
    Cardinality({w \in Workers : pc[w] = "unborn"})

CallStream(c, o, s) ==
  /\ Invoke(c, o, s)
  /\ o = "start" => MayStart
  /\ Goto(c, "lockStream")

\* The running worker, if any, is cancelled: its channel is closed, or its
\* context ended.
LockStream(c) ==
  /\ pc[c] = "lockStream" /\ mu[arg[c]] = None
  /\ mu' = [mu EXCEPT ![arg[c]] = c]
  /\ stopped' = stopped \cup ({current[arg[c]]} \ {None})
  /\ Goto(c, IF current[arg[c]] = None THEN "fresh" ELSE "await")
  /\ UNCHANGED <<busVars, current, of, op, arg>>

\* Mutant: a cancelled worker is not waited for.
AwaitDone_NoWait(c) ==
  /\ pc[c] = "await"
  /\ current' = [current EXCEPT ![arg[c]] = None]
  /\ Goto(c, "fresh")
  /\ UNCHANGED <<busVars, mu, stopped, of, op, arg>>

AwaitDone(c) ==
  /\ pc[c] = "await" /\ pc[current[arg[c]]] = "done"
  /\ current' = [current EXCEPT ![arg[c]] = None]
  /\ Goto(c, "fresh")
  /\ UNCHANGED <<busVars, mu, stopped, of, op, arg>>

StartWorker(c, w) ==
  /\ pc[c] = "fresh" /\ op[c] = "start" /\ pc[w] = "unborn"
  /\ current' = [current EXCEPT ![arg[c]] = w]
  /\ of' = [of EXCEPT ![w] = arg[c]]
  /\ mu' = [mu EXCEPT ![arg[c]] = None]
  /\ pc' = [pc EXCEPT ![w] = "loop", ![c] = "onResult"]
  /\ arg' = [arg EXCEPT ![c] = None]
  /\ UNCHANGED <<busVars, stopped, op>>

\* A stop, or a startLog that mihomo refuses a subscription.
StartNothing(c) ==
  /\ pc[c] = "fresh" /\ (op[c] = "stop" \/ arg[c] = "log")
  /\ mu' = [mu EXCEPT ![arg[c]] = None]
  /\ Answer(c)
  /\ UNCHANGED <<busVars, current, stopped, of>>

\* An event or a tick.  A cancelled worker may have some to send yet: what is
\* left in its channel, or a tick that came with the cancellation.
Receive(w) ==
  /\ pc[w] = "loop"
  /\ Goto(w, "send")
  /\ UNCHANGED <<busVars, streamVars, op, arg>>

Finish(w) ==
  /\ pc[w] = "loop" /\ w \in stopped
  /\ Goto(w, "done")
  /\ UNCHANGED <<busVars, streamVars, op, arg>>

-----------------------------------------------------------------------------
\* The steps that may wait for a lock, and the others, of a thread.
Lock(t) == RLock(t) \/ Announce(t) \/ (t \in Callers /\ LockStream(t))

Go(t) ==
  \/ SetListener(t) \/ ReleaseOld(t) \/ UpcallReturns(t) \/ RUnlock(t)
  \/ /\ t \in Callers
     /\ \/ AwaitDone(t) \/ StartNothing(t) \/ \E w \in Workers : StartWorker(t, w)
        \/ OnResultReturns(t) \/ ReleaseCallback(t)

Next ==
  \/ \E c \in Callers :
       \/ \E l \in Listeners \cup {None} : CallSet(c, l)
       \/ \E o \in {"start", "stop"}, s \in Streams : CallStream(c, o, s)
       \/ CallTestGroups(c) \/ NotSent(c)
       \/ \E o \in {"other", "message", "garbled"} : CallOther(c, o)
  \/ \E w \in Workers : Receive(w) \/ Finish(w)
  \/ \E t \in Threads : Lock(t) \/ Go(t)

Spec == Init /\ [][Next]_vars

\* Goroutines run and upcalls return.  A mutex is handed to a starving waiter,
\* and an unlocked RWMutex to the readers that wait.  A cancelled worker has a
\* finite backlog, and select does not pass over a ready case for ever.
Fairness ==
  /\ \A t \in Threads : WF_vars(Go(t)) /\ SF_vars(Lock(t))
  /\ \A w \in Workers : SF_vars(Finish(w))

FairSpec == Spec /\ Fairness

-----------------------------------------------------------------------------
Labels == {"idle", "unborn", "lock", "drain", "release", "send", "upcall", "sent",
           "lockStream", "await", "fresh", "loop", "done", "onResult", "deferred"}

\* What the variables range over.
TypeOK ==
  /\ eventListener \in Listeners \cup {None}
  /\ announced \in Threads \cup {None}
  /\ readers \in SUBSET Threads
  /\ ref \in [Refs -> {"none", "live", "released"}]  \* never "twice"
  /\ mu \in [Streams -> Callers \cup {None}]
  /\ current \in [Streams -> Workers \cup {None}]
  /\ stopped \in SUBSET Workers
  /\ of \in [Workers -> Streams \cup {None}]
  /\ pc \in [Threads -> Labels]
  /\ op \in [Threads -> Ops \cup {None}]
  /\ arg \in [Threads -> Listeners \cup Streams \cup {None}]

\* sendMessage never calls a listener whose reference setEventListener has
\* released, nor one that was replaced: the upcall is inside the read lock.  No
\* action is answered on a reference that is gone.
UpcallOnLiveRef ==
  /\ \A t \in Threads : pc[t] = "upcall" =>
       arg[t] = eventListener /\ ref[eventListener] = "live"
  /\ \A c \in Callers : pc[c] = "onResult" => ref[c] = "live"

\* Every reference handed over is released once: a listener's is live while it
\* is in place, or a call still has it in hand, and no longer; a callback's while
\* its action runs - and ever after if its JSON does not parse or its method is
\* "message".
RefsOwned ==
  /\ \A l \in Listeners :
       ref[l] = "live" <=>
         \/ l = eventListener
         \/ \E t \in Threads : pc[t] \in {"lock", "drain", "release"} /\ arg[t] = l
  /\ \A c \in Callers :
       ref[c] = "live" <=> op[c] \notin {"set", None}

\* "A fresh subscribe never overlaps the previous one" (log_stream.go), "two
\* tickers can both emit" otherwise (connections.go): one worker of a stream at
\* a time, and none once a stop has returned.
NeverOverlap ==
  \A w \in Workers : pc[w] \notin {"unborn", "done"} => current[of[w]] = w

\* Every call comes back although startLog, stopLog and their like wait for a
\* worker, the worker for the lock, a setEventListener for the upcalls.
EveryCallReturns == \A c \in Callers : pc[c] # "idle" ~> pc[c] = "idle"

=============================================================================
