-------------------------- MODULE TunHandlerProofs --------------------------
(***************************************************************************)
(* Proofs about TunHandler, for any number of threads, handlers and units  *)
(* of the semaphore.  One inductive invariant, Inv, carries all of them:   *)
(*                                                                         *)
(*   - Owner: a caller past tunLock.Lock owns tunLock;                     *)
(*   - Fence: the semaphore is held whole or in units, never both, and     *)
(*     the steps that run under it hold it;                                *)
(*   - Life: what has become of the references and of every handler that   *)
(*     is not in place;                                                    *)
(*   - Stage: what the owner of tunLock has done to the handler in place,  *)
(*     step by step; with nobody inside it is Up or Down;                  *)
(*   - Dial: what a dialer may believe about the handler it is led to;     *)
(*   - Descriptors: who still has to close the descriptor of a call.       *)
(***************************************************************************)
EXTENDS TunHandler, TLAPS

Types ==
  /\ TypeOK
  /\ \A c \in Callers : pc[c] \in CallerSteps
  /\ \A d \in Dialers : pc[d] \in DialerSteps

Owner == \A c \in Callers : tunLock = c <=> pc[c] \notin {"idle", "lockTun"}

Critical == {"clear", "clearListener", "clearCallback", "release", "hook", "open"}
Waiting  == {"close", "closeQueued", "lockRun", "acquire", "startQueued", "unlockRun"}

Fence ==
  /\ \A h \in Handlers : full[h] # None => shared[h] = {}
  /\ \A c \in Callers : pc[c] \in Critical => full[tunHandler] = c
  /\ \A c \in Callers : pc[c] \in Critical \cup Waiting => at[c] = tunHandler /\ tunHandler # None
  /\ \A d \in Dialers : pc[d] \in {"hotQueued", "check", "upcall"} => at[d] # None
  /\ \A d \in Dialers : pc[d] \in {"check", "upcall"} => d \in shared[at[d]]
  /\ \A d \in Dialers : pc[d] = "upcall" => ~closed[at[d]]

Created(h) == callback[h] \/ closed[h]

\* A caller that holds a reference no handler has taken over yet.
Pending(c) ==
  /\ arg[c] # None
  /\ \/ pc[c] \in {"lockTun", "close", "closeQueued", "install"}
     \/ pc[c] \in {"clear", "clearListener", "clearCallback", "release"} /\ at[c] # arg[c]

Life ==
  /\ \A h \in Handlers : ref[h] # "twice"
  /\ \A h \in Handlers : callback[h] => ref[h] = "live"
  /\ \A h \in Handlers : closed[h] /\ ~callback[h] => ref[h] = "released"
  /\ \A h \in Handlers : h # tunHandler => ~callback[h] /\ ~listener[h]
  /\ tunHandler # None => Created(tunHandler)
  /\ \A c \in Callers : arg[c] # None => ref[arg[c]] # "none" /\ pc[c] # "idle"
  /\ \A c \in Callers : pc[c] = "unlockTun" /\ arg[c] # None =>
       ref[arg[c]] # "live" \/ (arg[c] = tunHandler /\ callback[tunHandler])
  /\ \A c, e \in Callers : arg[c] # None /\ arg[c] = arg[e] => c = e
  /\ \A c \in Callers : Pending(c) => ref[arg[c]] = "live" /\ ~Created(arg[c])
  /\ \A h \in Handlers : ref[h] = "none" => ~Created(h)
  /\ NoRefLeak

Down ==
  /\ hooks = {}
  /\ tunHandler # None =>
       closed[tunHandler] /\ ~callback[tunHandler] /\ ~listener[tunHandler]

Up ==
  /\ tunHandler # None /\ hooks = Kinds
  /\ ~closed[tunHandler] /\ callback[tunHandler] /\ listener[tunHandler]

Starting ==
  /\ tunHandler # None
  /\ ~closed[tunHandler] /\ callback[tunHandler] /\ ~listener[tunHandler]

Stage ==
  /\ tunLock = None => Down \/ Up
  /\ \A c \in Callers :
       /\ pc[c] \in {"close", "closeQueued", "release", "unlockRun", "unlockTun"} => Down \/ Up
       /\ pc[c] = "clear" => Down \/ Up \/ (Starting /\ hooks = Kinds)
       /\ pc[c] \in {"clearListener", "clearCallback"} => closed[tunHandler] /\ hooks = {}
       /\ pc[c] = "clearCallback" => ~listener[tunHandler]
       /\ pc[c] = "release" /\ arg[c] # tunHandler => Down
       /\ pc[c] = "install" => Down /\ arg[c] # None
       /\ pc[c] \in {"lockRun", "acquire", "startQueued", "hook", "open", "unlockRun"} =>
            arg[c] = tunHandler
       /\ pc[c] \in {"lockRun", "acquire", "startQueued", "hook"} => Starting /\ hooks = {}
       /\ pc[c] = "open" => Starting /\ hooks = Kinds

Dial ==
  \A d \in Dialers :
    /\ at[d] # None => Created(at[d])
    /\ seen[d] # None => Created(seen[d])
    /\ pc[d] \in {"begun", "hooked"} /\ ~lapse[d] => seen[d] = tunHandler /\ Serving
    /\ pc[d] \in {"hotQueued", "check"} /\ ~lapse[d] => ~closed[at[d]]
    /\ pc[d] = "skipped" => lapse[d]

\* The calls that have handed their descriptor to a listener, or lost it.
PastOpen(c) ==
  /\ arg[c] # None
  /\ \/ pc[c] \in {"unlockRun", "unlockTun"}
     \/ pc[c] = "release" /\ at[c] = arg[c]

Descriptors ==
  /\ DescriptorOwned
  /\ \A c \in Callers :
       /\ pc[c] \in {"clear", "clearListener", "clearCallback"} /\ at[c] = arg[c] =>
            fd[arg[c]] # "open"
       /\ PastOpen(c) /\ fd[arg[c]] = "open" => arg[c] = tunHandler /\ listener[arg[c]]

Inv == Types /\ Owner /\ Fence /\ Life /\ Stage /\ Dial /\ Descriptors

-----------------------------------------------------------------------------
(* Types.                                                                  *)

\* The initial state is well typed.
LEMMA InitTypes == Init => Types
BY ThreadsAssumption DEF Init, Types, TypeOK, Threads, Kinds, CallerSteps, DialerSteps

\* Deleting a global reference keeps the type of ref.
LEMMA ReleasedTypes ==
  ASSUME NEW h, ref \in [Handlers -> {"none", "live", "released", "twice"}]
  PROVE  Released(h) \in [Handlers -> {"none", "live", "released", "twice"}]
BY DEF Released

\* The fields of the semaphore, one by one.
LEMMA LimitTypes ==
  Types => /\ full \in [Handlers -> Callers \cup {None}]
           /\ shared \in [Handlers -> SUBSET Dialers]
           /\ waiters \in [Handlers -> Seq(Threads)]
BY DEF Types, TypeOK

\* Being granted the semaphore keeps its type.
LEMMA HoldTypes ==
  ASSUME Types, NEW t \in Threads, NEW h, Hold(t, h)
  PROVE  /\ full' \in [Handlers -> Callers \cup {None}]
         /\ shared' \in [Handlers -> SUBSET Dialers]
<1>1. CASE t \in Callers BY <1>1, LimitTypes DEF Hold
<1>2. CASE t \notin Callers BY <1>2, LimitTypes DEF Hold, Threads
<1> QED BY <1>1, <1>2

\* A request for the semaphore, and what it leaves of its caller.
LEMMA AcquireTypes ==
  ASSUME Types, NEW t \in Threads, NEW h, NEW granted, NEW queued,
         Acquire(t, h, granted, queued)
  PROVE  /\ full' \in [Handlers -> Callers \cup {None}]
         /\ shared' \in [Handlers -> SUBSET Dialers]
         /\ waiters' \in [Handlers -> Seq(Threads)]
         /\ Goto(t, granted) \/ Goto(t, queued)
<1>1. CASE Hold(t, h) /\ Goto(t, granted) /\ UNCHANGED waiters
  BY <1>1, HoldTypes, LimitTypes
<1>2. CASE /\ waiters' = [waiters EXCEPT ![h] = Append(@, t)]
           /\ Goto(t, queued) /\ UNCHANGED <<full, shared>>
  <2>1. CASE h \in Handlers
    <3>1. Append(waiters[h], t) \in Seq(Threads) BY <2>1, LimitTypes
    <3> QED BY <1>2, <2>1, <3>1, LimitTypes
  <2>2. CASE h \notin Handlers BY <1>2, <2>2, LimitTypes
  <2> QED BY <2>1, <2>2
<1> QED BY <1>1, <1>2 DEF Acquire

\* Serving the head of the queue keeps the types.
LEMMA WakeTypes ==
  ASSUME Types, NEW t \in Threads, Wake(t)
  PROVE  /\ full' \in [Handlers -> Callers \cup {None}]
         /\ shared' \in [Handlers -> SUBSET Dialers]
         /\ waiters' \in [Handlers -> Seq(Threads)]
         /\ \/ pc[t] = "closeQueued" /\ Goto(t, "clear")
            \/ pc[t] = "startQueued" /\ Goto(t, "hook")
            \/ pc[t] = "hotQueued" /\ Goto(t, "check")
<1>1. waiters' \in [Handlers -> Seq(Threads)]
  <2> DEFINE h == at[t]
  <2>1. waiters' = [waiters EXCEPT ![h] = Tail(@)] /\ waiters[h] # <<>> BY DEF Wake
  <2> HIDE DEF h
  <2>2. CASE h \in Handlers
    <3>1. Tail(waiters[h]) \in Seq(Threads) BY <2>1, <2>2, LimitTypes
    <3> QED BY <2>1, <2>2, <3>1, LimitTypes
  <2>3. CASE h \notin Handlers BY <2>1, <2>3, LimitTypes
  <2> QED BY <2>2, <2>3
<1>2. /\ full' \in [Handlers -> Callers \cup {None}]
      /\ shared' \in [Handlers -> SUBSET Dialers]
  <2>1. Hold(t, at[t]) BY DEF Wake
  <2> QED BY <2>1, HoldTypes
<1>3. pc[t] \in {"closeQueued", "startQueued", "hotQueued"} /\ Goto(t, Granted[pc[t]])
  BY DEF Wake, Granted
<1>4. /\ pc[t] = "closeQueued" => Granted[pc[t]] = "clear"
      /\ pc[t] = "startQueued" => Granted[pc[t]] = "hook"
      /\ pc[t] = "hotQueued" => Granted[pc[t]] = "check"
  BY DEF Granted
<1> QED BY <1>1, <1>2, <1>3, <1>4

\* A thread that moves on to one of its own steps.
LEMMA GotoTypes ==
  ASSUME Types, NEW t \in Threads, NEW label, Goto(t, label),
         t \in Callers => label \in CallerSteps,
         t \in Dialers => label \in DialerSteps
  PROVE  /\ pc' \in [Threads -> CallerSteps \cup DialerSteps]
         /\ \A c \in Callers : pc'[c] \in CallerSteps
         /\ \A d \in Dialers : pc'[d] \in DialerSteps
<1>1. /\ pc \in [Threads -> CallerSteps \cup DialerSteps]
      /\ \A c \in Callers : pc[c] \in CallerSteps
      /\ \A d \in Dialers : pc[d] \in DialerSteps
  BY DEF Types, TypeOK
<1>2. label \in CallerSteps \cup DialerSteps BY DEF Threads
<1>3. pc' = [pc EXCEPT ![t] = label] BY DEF Goto
<1> QED BY <1>1, <1>2, <1>3 DEF Threads

\* Type correctness is kept by every step.
LEMMA TypesStep ==
  ASSUME Types, [Next]_vars PROVE Types'
<1> USE ThreadsAssumption DEF Types, TypeOK, Threads, Kinds, CallerSteps,
       DialerSteps, Goto, lockVars, handlerVars, limitVars, hostVars, dialVars
<1>1. ASSUME NEW c \in Callers, NEW h \in Handlers, CallStartTun(c, h) PROVE Types'
  BY <1>1 DEF CallStartTun
<1>2. ASSUME NEW c \in Callers, CallStopTun(c) PROVE Types'
  BY <1>2 DEF CallStopTun
<1>3. ASSUME NEW c \in Callers, LockTun(c) PROVE Types'
  BY <1>3 DEF LockTun, AfterClose
<1>4. ASSUME NEW c \in Callers, LockRun(c) PROVE Types'
  BY <1>4 DEF LockRun
<1>5. ASSUME NEW c \in Callers, CloseAcquire(c) PROVE Types'
  <2> HIDE DEF Types, Goto
  <2>1. /\ full' \in [Handlers -> Callers \cup {None}]
        /\ shared' \in [Handlers -> SUBSET Dialers]
        /\ waiters' \in [Handlers -> Seq(Threads)]
        /\ Goto(c, "clear") \/ Goto(c, "closeQueued")
    BY <1>5, AcquireTypes DEF CloseAcquire
  <2>2. UNCHANGED <<lockVars, handlerVars, hooks, hostVars, at, arg, dialVars>>
    BY <1>5 DEF CloseAcquire
  <2>3. /\ pc' \in [Threads -> CallerSteps \cup DialerSteps]
        /\ \A e \in Callers : pc'[e] \in CallerSteps
        /\ \A d \in Dialers : pc'[d] \in DialerSteps
    BY <2>1, GotoTypes
  <2> QED BY <2>1, <2>2, <2>3 DEF Types
<1>6. ASSUME NEW c \in Callers, ClearHooks(c) PROVE Types'
  BY <1>6 DEF ClearHooks
<1>7. ASSUME NEW c \in Callers, ClearListener(c) PROVE Types'
  BY <1>7 DEF ClearListener
<1>8. ASSUME NEW c \in Callers, ClearCallback(c) PROVE Types'
  <2> HIDE DEF Types, TypeOK
  <2>0. /\ ref \in [Handlers -> {"none", "live", "released", "twice"}]
        /\ callback \in [Handlers -> BOOLEAN]
    BY DEF Types, TypeOK
  <2>1. ref' \in [Handlers -> {"none", "live", "released", "twice"}]
    BY <1>8, <2>0, ReleasedTypes DEF ClearCallback
  <2>2. callback' \in [Handlers -> BOOLEAN] BY <1>8, <2>0 DEF ClearCallback
  <2>3. UNCHANGED <<lockVars, tunHandler, closed, listener, limitVars, hooks, fd,
                    at, arg, dialVars>> /\ Goto(c, "release")
    BY <1>8 DEF ClearCallback
  <2> QED BY <2>1, <2>2, <2>3 DEF Types, TypeOK
<1>9. ASSUME NEW c \in Callers, ReleaseLimit(c) PROVE Types'
  BY <1>9 DEF ReleaseLimit, AfterClose
<1>10. ASSUME NEW c \in Callers, NoTun(c) PROVE Types'
  BY <1>10, ReleasedTypes DEF NoTun
<1>11. ASSUME NEW c \in Callers, InstallHandler(c) PROVE Types'
  BY <1>11 DEF InstallHandler
<1>12. ASSUME NEW c \in Callers, StartAcquire(c) PROVE Types'
  <2> HIDE DEF Types, Goto
  <2>1. /\ full' \in [Handlers -> Callers \cup {None}]
        /\ shared' \in [Handlers -> SUBSET Dialers]
        /\ waiters' \in [Handlers -> Seq(Threads)]
        /\ Goto(c, "hook") \/ Goto(c, "startQueued")
    BY <1>12, AcquireTypes DEF StartAcquire
  <2>2. UNCHANGED <<lockVars, handlerVars, hooks, hostVars, at, arg, dialVars>>
    BY <1>12 DEF StartAcquire
  <2>3. /\ pc' \in [Threads -> CallerSteps \cup DialerSteps]
        /\ \A e \in Callers : pc'[e] \in CallerSteps
        /\ \A d \in Dialers : pc'[d] \in DialerSteps
    BY <2>1, GotoTypes
  <2> QED BY <2>1, <2>2, <2>3 DEF Types
<1>13. ASSUME NEW c \in Callers, InitHook(c) PROVE Types'
  BY <1>13 DEF InitHook
<1>14. ASSUME NEW c \in Callers, OpenListener(c) PROVE Types'
  BY <1>14 DEF OpenListener
<1>15. ASSUME NEW c \in Callers, OpenFails(c) PROVE Types'
  <2> PICK f \in {"lost", "closed"} : fd' = [fd EXCEPT ![at[c]] = f]
    BY <1>15 DEF OpenFails
  <2> QED BY <1>15 DEF OpenFails
<1>16. ASSUME NEW c \in Callers, UnlockRun(c) PROVE Types'
  BY <1>16 DEF UnlockRun
<1>17. ASSUME NEW c \in Callers, UnlockTun(c) PROVE Types'
  BY <1>17 DEF UnlockTun
<1>18. ASSUME NEW d \in Dialers, NEW k \in Kinds, BeginDial(d, k) PROVE Types'
  BY <1>18 DEF BeginDial
<1>19. ASSUME NEW d \in Dialers, LookUpHook(d) PROVE Types'
  BY <1>19 DEF LookUpHook
<1>20. ASSUME NEW d \in Dialers, ApplyConfig(d) PROVE Types'
  BY <1>20 DEF ApplyConfig
<1>21. ASSUME NEW d \in Dialers, HookRefuses(d) PROVE Types'
  BY <1>21 DEF HookRefuses, EndDial
<1>22. ASSUME NEW d \in Dialers, EnterHandler(d) PROVE Types'
  <2> PICK h \in HandlersRead(d) \ {None} :
           at' = [at EXCEPT ![d] = h] /\ Acquire(d, h, "check", "hotQueued")
    BY <1>22 DEF EnterHandler
  <2> HIDE DEF Types, Goto
  <2>1. /\ full' \in [Handlers -> Callers \cup {None}]
        /\ shared' \in [Handlers -> SUBSET Dialers]
        /\ waiters' \in [Handlers -> Seq(Threads)]
        /\ Goto(d, "check") \/ Goto(d, "hotQueued")
    BY <1>22, AcquireTypes DEF EnterHandler
  <2>2. UNCHANGED <<lockVars, handlerVars, hooks, hostVars, arg, dialVars>>
    BY <1>22 DEF EnterHandler
  <2>3. h \in Handlers BY DEF HandlersRead, Types
  <2>4. /\ pc' \in [Threads -> CallerSteps \cup DialerSteps]
        /\ \A e \in Callers : pc'[e] \in CallerSteps
        /\ \A e \in Dialers : pc'[e] \in DialerSteps
    BY <2>1, GotoTypes
  <2>5. at' \in [Threads -> Handlers \cup {None}]
    BY <2>3 DEF Types
  <2> QED BY <2>1, <2>2, <2>4, <2>5 DEF Types
<1>23. ASSUME NEW d \in Dialers, NilHandler(d) PROVE Types'
  BY <1>23 DEF NilHandler, HandlersRead
<1>24. ASSUME NEW d \in Dialers, FoundClosed(d) PROVE Types'
  BY <1>24 DEF FoundClosed, LeaveHandler
<1>25. ASSUME NEW d \in Dialers, Upcall(d) PROVE Types'
  BY <1>25 DEF Upcall
<1>26. ASSUME NEW d \in Dialers, UpcallReturns(d) PROVE Types'
  BY <1>26 DEF UpcallReturns, LeaveHandler, EndDial
<1>27. ASSUME NEW d \in Dialers, EndSkipped(d) PROVE Types'
  BY <1>27 DEF EndSkipped, EndDial
<1>28. ASSUME NEW d \in Dialers, EndApply(d) PROVE Types'
  BY <1>28 DEF EndApply
<1>29. ASSUME NEW c \in Callers, Wake(c) PROVE Types'
  <2> HIDE DEF Types, Goto
  <2>1. /\ full' \in [Handlers -> Callers \cup {None}]
        /\ shared' \in [Handlers -> SUBSET Dialers]
        /\ waiters' \in [Handlers -> Seq(Threads)]
        /\ Goto(c, "clear") \/ Goto(c, "hook")
    BY <1>29, WakeTypes DEF Types
  <2> QED BY <1>29, <2>1 DEF Types, Goto, Wake
<1>30. ASSUME NEW d \in Dialers, Wake(d) PROVE Types'
  <2> HIDE DEF Types, Goto
  <2>1. /\ full' \in [Handlers -> Callers \cup {None}]
        /\ shared' \in [Handlers -> SUBSET Dialers]
        /\ waiters' \in [Handlers -> Seq(Threads)]
        /\ Goto(d, "check")
    BY <1>30, WakeTypes DEF Types
  <2> QED BY <1>30, <2>1 DEF Types, Goto, Wake
<1>31. CASE UNCHANGED vars
  BY <1>31 DEF vars
<1> HIDE DEF Types, TypeOK, Threads, Kinds, CallerSteps, DialerSteps, Goto,
     lockVars, handlerVars, limitVars, hostVars, dialVars
<1> QED
  BY <1>1, <1>2, <1>3, <1>4, <1>5, <1>6, <1>7, <1>8, <1>9, <1>10, <1>11, <1>12,
     <1>13, <1>14, <1>15, <1>16, <1>17, <1>18, <1>19, <1>20, <1>21, <1>22,
     <1>23, <1>24, <1>25, <1>26, <1>27, <1>28, <1>29, <1>30, <1>31 DEF Next,
     CallerNext, DialerNext, CallStep, DialStep, ProcessDead

-----------------------------------------------------------------------------
(* What the steps that ask for the semaphore do, with Acquire expanded.    *)

CallerTakes(c, h, label) ==
  /\ full[h] = None /\ shared[h] = {}
  /\ full' = [full EXCEPT ![h] = c] /\ shared' = shared
  /\ Goto(c, label)

DialerTakes(d, h, label) ==
  /\ full[h] = None
  /\ shared' = [shared EXCEPT ![h] = @ \cup {d}] /\ full' = full
  /\ Goto(d, label)

Queues(t, label) == full' = full /\ shared' = shared /\ Goto(t, label)

\* limit.Acquire in close: granted at once, or queued.
LEMMA CloseAcquireEffect ==
  ASSUME NEW c \in Callers, CloseAcquire(c)
  PROVE  /\ pc[c] = "close"
         /\ CallerTakes(c, at[c], "clear") \/ Queues(c, "closeQueued")
         /\ UNCHANGED <<lockVars, handlerVars, hooks, hostVars, at, arg, dialVars>>
BY DEF CloseAcquire, Acquire, Hold, Fits, CallerTakes, Queues

\* limit.Acquire in start: granted at once, or queued.
LEMMA StartAcquireEffect ==
  ASSUME NEW c \in Callers, StartAcquire(c)
  PROVE  /\ pc[c] = "acquire"
         /\ CallerTakes(c, at[c], "hook") \/ Queues(c, "startQueued")
         /\ UNCHANGED <<lockVars, handlerVars, hooks, hostVars, at, arg, dialVars>>
BY DEF StartAcquire, Acquire, Hold, Fits, CallerTakes, Queues

\* limit.Acquire in a hot path: granted at once, or queued.
LEMMA EnterHandlerEffect ==
  ASSUME NEW d \in Dialers, EnterHandler(d)
  PROVE  /\ pc[d] = "hooked"
         /\ \E h \in {tunHandler, seen[d]} \ {None} :
              /\ at' = [at EXCEPT ![d] = h]
              /\ DialerTakes(d, h, "check") \/ Queues(d, "hotQueued")
         /\ UNCHANGED <<lockVars, handlerVars, hooks, hostVars, arg, dialVars>>
<1>1. PICK h \in HandlersRead(d) \ {None} :
        at' = [at EXCEPT ![d] = h] /\ Acquire(d, h, "check", "hotQueued")
  BY DEF EnterHandler
<1>2. DialerTakes(d, h, "check") \/ Queues(d, "hotQueued")
  BY <1>1, ThreadsAssumption DEF Acquire, Hold, Fits, DialerTakes, Queues
<1> QED BY <1>1, <1>2 DEF EnterHandler, HandlersRead

\* A start or close that leaves the queue holds all of the semaphore.
LEMMA WakeCallerEffect ==
  ASSUME Types, NEW c \in Callers, Wake(c)
  PROVE  /\ \/ pc[c] = "closeQueued" /\ CallerTakes(c, at[c], "clear")
            \/ pc[c] = "startQueued" /\ CallerTakes(c, at[c], "hook")
         /\ UNCHANGED <<lockVars, handlerVars, hooks, hostVars, at, arg, dialVars>>
<1>1. \/ pc[c] = "closeQueued" /\ Goto(c, "clear")
      \/ pc[c] = "startQueued" /\ Goto(c, "hook")
  <2>1. pc[c] # "hotQueued" BY DEF Types, CallerSteps
  <2> QED BY <2>1, WakeTypes DEF Threads
<1> QED BY <1>1 DEF Wake, Hold, Fits, CallerTakes

\* A hot path that leaves the queue holds one unit.
LEMMA WakeDialerEffect ==
  ASSUME Types, NEW d \in Dialers, Wake(d)
  PROVE  /\ pc[d] = "hotQueued" /\ DialerTakes(d, at[d], "check")
         /\ UNCHANGED <<lockVars, handlerVars, hooks, hostVars, at, arg, dialVars>>
<1>1. pc[d] = "hotQueued" /\ Goto(d, "check")
  <2>1. pc[d] \notin {"closeQueued", "startQueued"} BY DEF Types, DialerSteps
  <2> QED BY <2>1, WakeTypes DEF Threads
<1> QED BY <1>1, ThreadsAssumption DEF Wake, Hold, Fits, DialerTakes

-----------------------------------------------------------------------------
(* The invariant holds initially.                                          *)

\* Init establishes the invariant.
LEMMA InitInv == Init => Inv
<1> SUFFICES ASSUME Init PROVE Inv OBVIOUS
<1> USE ThreadsAssumption DEF Init
<1>1. Types BY InitTypes
<1>2. Owner /\ Fence BY DEF Owner, Fence, Critical, Waiting, Threads
<1>3. Life BY DEF Life, Created, Pending, NoRefLeak, Threads
<1>4. Stage BY DEF Stage, Down, Up, Threads
<1>5. Dial BY DEF Dial, Threads
<1>6. Descriptors BY DEF Descriptors, DescriptorOwned, PastOpen, Threads
<1> QED BY <1>1, <1>2, <1>3, <1>4, <1>5, <1>6 DEF Inv

-----------------------------------------------------------------------------
(* tunLock has at most one owner.                                          *)

\* Callers and dialers keep to their own labels.
LEMMA PcTypes ==
  Types => /\ pc \in [Threads -> CallerSteps \cup DialerSteps]
           /\ \A c \in Callers : pc[c] \in CallerSteps
           /\ \A d \in Dialers : pc[d] \in DialerSteps
           /\ Callers \subseteq Threads /\ Dialers \subseteq Threads
BY DEF Types, TypeOK, Threads

\* A caller past tunLock.Lock, and no other, owns tunLock.
LEMMA OwnerStep ==
  ASSUME Types, Owner, [Next]_vars PROVE Owner'
<1> USE ThreadsAssumption, PcTypes DEF Owner, Goto, lockVars, handlerVars,
       limitVars, hostVars, dialVars
<1>1. ASSUME NEW c \in Callers, NEW h \in Handlers, CallStartTun(c, h) PROVE Owner'
  BY <1>1 DEF CallStartTun
<1>2. ASSUME NEW c \in Callers, CallStopTun(c) PROVE Owner'
  BY <1>2 DEF CallStopTun
<1>3. ASSUME NEW c \in Callers, LockTun(c) PROVE Owner'
  BY <1>3 DEF LockTun, AfterClose
<1>4. ASSUME NEW c \in Callers, LockRun(c) PROVE Owner'
  BY <1>4 DEF LockRun
<1>5. ASSUME NEW c \in Callers, CloseAcquire(c) PROVE Owner'
  BY <1>5, CloseAcquireEffect DEF CallerTakes, Queues
<1>6. ASSUME NEW c \in Callers, ClearHooks(c) PROVE Owner'
  BY <1>6 DEF ClearHooks
<1>7. ASSUME NEW c \in Callers, ClearListener(c) PROVE Owner'
  BY <1>7 DEF ClearListener
<1>8. ASSUME NEW c \in Callers, ClearCallback(c) PROVE Owner'
  BY <1>8 DEF ClearCallback
<1>9. ASSUME NEW c \in Callers, ReleaseLimit(c) PROVE Owner'
  BY <1>9 DEF ReleaseLimit, AfterClose
<1>10. ASSUME NEW c \in Callers, NoTun(c) PROVE Owner'
  BY <1>10 DEF NoTun
<1>11. ASSUME NEW c \in Callers, InstallHandler(c) PROVE Owner'
  BY <1>11 DEF InstallHandler
<1>12. ASSUME NEW c \in Callers, StartAcquire(c) PROVE Owner'
  BY <1>12, StartAcquireEffect DEF CallerTakes, Queues
<1>13. ASSUME NEW c \in Callers, InitHook(c) PROVE Owner'
  BY <1>13 DEF InitHook
<1>14. ASSUME NEW c \in Callers, OpenListener(c) PROVE Owner'
  BY <1>14 DEF OpenListener
<1>15. ASSUME NEW c \in Callers, OpenFails(c) PROVE Owner'
  BY <1>15 DEF OpenFails
<1>16. ASSUME NEW c \in Callers, UnlockRun(c) PROVE Owner'
  BY <1>16 DEF UnlockRun
<1>17. ASSUME NEW c \in Callers, UnlockTun(c) PROVE Owner'
  BY <1>17 DEF UnlockTun
<1>18. ASSUME NEW d \in Dialers, NEW k \in Kinds, BeginDial(d, k) PROVE Owner'
  BY <1>18 DEF BeginDial
<1>19. ASSUME NEW d \in Dialers, LookUpHook(d) PROVE Owner'
  BY <1>19 DEF LookUpHook
<1>20. ASSUME NEW d \in Dialers, ApplyConfig(d) PROVE Owner'
  BY <1>20 DEF ApplyConfig
<1>21. ASSUME NEW d \in Dialers, HookRefuses(d) PROVE Owner'
  BY <1>21 DEF HookRefuses, EndDial
<1>22. ASSUME NEW d \in Dialers, EnterHandler(d) PROVE Owner'
  BY <1>22, EnterHandlerEffect DEF DialerTakes, Queues
<1>23. ASSUME NEW d \in Dialers, NilHandler(d) PROVE Owner'
  BY <1>23 DEF NilHandler, HandlersRead
<1>24. ASSUME NEW d \in Dialers, FoundClosed(d) PROVE Owner'
  BY <1>24 DEF FoundClosed, LeaveHandler
<1>25. ASSUME NEW d \in Dialers, Upcall(d) PROVE Owner'
  BY <1>25 DEF Upcall
<1>26. ASSUME NEW d \in Dialers, UpcallReturns(d) PROVE Owner'
  BY <1>26 DEF UpcallReturns, LeaveHandler, EndDial
<1>27. ASSUME NEW d \in Dialers, EndSkipped(d) PROVE Owner'
  BY <1>27 DEF EndSkipped, EndDial
<1>28. ASSUME NEW d \in Dialers, EndApply(d) PROVE Owner'
  BY <1>28 DEF EndApply
<1>29. ASSUME NEW c \in Callers, Wake(c) PROVE Owner'
  BY <1>29, WakeCallerEffect DEF CallerTakes
<1>30. ASSUME NEW d \in Dialers, Wake(d) PROVE Owner'
  BY <1>30, WakeDialerEffect DEF DialerTakes
<1>31. CASE UNCHANGED vars
  BY <1>31 DEF vars
<1> HIDE DEF Goto
<1> QED
  BY <1>1, <1>2, <1>3, <1>4, <1>5, <1>6, <1>7, <1>8, <1>9, <1>10, <1>11, <1>12,
     <1>13, <1>14, <1>15, <1>16, <1>17, <1>18, <1>19, <1>20, <1>21, <1>22,
     <1>23, <1>24, <1>25, <1>26, <1>27, <1>28, <1>29, <1>30, <1>31 DEF Next,
     CallerNext, DialerNext, CallStep, DialStep, ProcessDead

-----------------------------------------------------------------------------
(* The semaphore is held whole or in units, by those who run under it.     *)

\* The types of the fields the fence and the life of a handler are about.
LEMMA FieldTypes ==
  Types => /\ tunHandler \in Handlers \cup {None}
           /\ closed \in [Handlers -> BOOLEAN]
           /\ callback \in [Handlers -> BOOLEAN]
           /\ listener \in [Handlers -> BOOLEAN]
           /\ full \in [Handlers -> Callers \cup {None}]
           /\ shared \in [Handlers -> SUBSET Dialers]
           /\ ref \in [Handlers -> {"none", "live", "released", "twice"}]
           /\ pc \in [Threads -> CallerSteps \cup DialerSteps]
           /\ at \in [Threads -> Handlers \cup {None}]
           /\ arg \in [Callers -> Handlers \cup {None}]
           /\ seen \in [Dialers -> Handlers \cup {None}]
           /\ lapse \in [Dialers -> BOOLEAN]
BY DEF Types, TypeOK

\* The semaphore excludes: all of it held means no unit is.
LEMMA FenceStep ==
  ASSUME Types, Owner, Fence, Stage, [Next]_vars PROVE Fence'
<1> USE ThreadsAssumption, FieldTypes, PcTypes DEF Owner, Fence, Critical,
       Waiting, Goto, lockVars, handlerVars, limitVars, hostVars, dialVars
<1>1. ASSUME NEW c \in Callers, NEW h \in Handlers, CallStartTun(c, h) PROVE Fence'
  BY <1>1 DEF CallStartTun
<1>2. ASSUME NEW c \in Callers, CallStopTun(c) PROVE Fence'
  BY <1>2 DEF CallStopTun
<1>3. ASSUME NEW c \in Callers, LockTun(c) PROVE Fence'
  BY <1>3 DEF LockTun, AfterClose
<1>4. ASSUME NEW c \in Callers, LockRun(c) PROVE Fence'
  BY <1>4 DEF LockRun
<1>5. ASSUME NEW c \in Callers, CloseAcquire(c) PROVE Fence'
  BY <1>5, CloseAcquireEffect DEF CallerTakes, Queues
<1>6. ASSUME NEW c \in Callers, ClearHooks(c) PROVE Fence'
  BY <1>6 DEF ClearHooks
<1>7. ASSUME NEW c \in Callers, ClearListener(c) PROVE Fence'
  BY <1>7 DEF ClearListener
<1>8. ASSUME NEW c \in Callers, ClearCallback(c) PROVE Fence'
  BY <1>8 DEF ClearCallback
<1>9. ASSUME NEW c \in Callers, ReleaseLimit(c) PROVE Fence'
  BY <1>9 DEF ReleaseLimit, AfterClose
<1>10. ASSUME NEW c \in Callers, NoTun(c) PROVE Fence'
  BY <1>10 DEF NoTun
<1>11. ASSUME NEW c \in Callers, InstallHandler(c) PROVE Fence'
  BY <1>11 DEF InstallHandler, Stage
<1>12. ASSUME NEW c \in Callers, StartAcquire(c) PROVE Fence'
  BY <1>12, StartAcquireEffect DEF CallerTakes, Queues
<1>13. ASSUME NEW c \in Callers, InitHook(c) PROVE Fence'
  BY <1>13 DEF InitHook
<1>14. ASSUME NEW c \in Callers, OpenListener(c) PROVE Fence'
  BY <1>14 DEF OpenListener
<1>15. ASSUME NEW c \in Callers, OpenFails(c) PROVE Fence'
  BY <1>15 DEF OpenFails
<1>16. ASSUME NEW c \in Callers, UnlockRun(c) PROVE Fence'
  BY <1>16 DEF UnlockRun
<1>17. ASSUME NEW c \in Callers, UnlockTun(c) PROVE Fence'
  BY <1>17 DEF UnlockTun
<1>18. ASSUME NEW d \in Dialers, NEW k \in Kinds, BeginDial(d, k) PROVE Fence'
  BY <1>18 DEF BeginDial
<1>19. ASSUME NEW d \in Dialers, LookUpHook(d) PROVE Fence'
  BY <1>19 DEF LookUpHook
<1>20. ASSUME NEW d \in Dialers, ApplyConfig(d) PROVE Fence'
  BY <1>20 DEF ApplyConfig
<1>21. ASSUME NEW d \in Dialers, HookRefuses(d) PROVE Fence'
  BY <1>21 DEF HookRefuses, EndDial
<1>22. ASSUME NEW d \in Dialers, EnterHandler(d) PROVE Fence'
  <2>1. PICK h \in {tunHandler, seen[d]} \ {None} :
          /\ at' = [at EXCEPT ![d] = h]
          /\ DialerTakes(d, h, "check") \/ Queues(d, "hotQueued")
    BY <1>22, EnterHandlerEffect
  <2>2. /\ pc[d] = "hooked" /\ h \in Handlers
        /\ UNCHANGED <<lockVars, handlerVars, hooks, hostVars, arg, dialVars>>
    BY <1>22, EnterHandlerEffect
  <2>3. CASE DialerTakes(d, h, "check") BY <2>1, <2>2, <2>3 DEF DialerTakes
  <2>4. CASE Queues(d, "hotQueued") BY <2>1, <2>2, <2>4 DEF Queues
  <2> QED BY <2>1, <2>3, <2>4
<1>23. ASSUME NEW d \in Dialers, NilHandler(d) PROVE Fence'
  BY <1>23 DEF NilHandler, HandlersRead
<1>24. ASSUME NEW d \in Dialers, FoundClosed(d) PROVE Fence'
  BY <1>24 DEF FoundClosed, LeaveHandler
<1>25. ASSUME NEW d \in Dialers, Upcall(d) PROVE Fence'
  BY <1>25 DEF Upcall
<1>26. ASSUME NEW d \in Dialers, UpcallReturns(d) PROVE Fence'
  BY <1>26 DEF UpcallReturns, LeaveHandler, EndDial
<1>27. ASSUME NEW d \in Dialers, EndSkipped(d) PROVE Fence'
  BY <1>27 DEF EndSkipped, EndDial
<1>28. ASSUME NEW d \in Dialers, EndApply(d) PROVE Fence'
  BY <1>28 DEF EndApply
<1>29. ASSUME NEW c \in Callers, Wake(c) PROVE Fence'
  BY <1>29, WakeCallerEffect DEF CallerTakes
<1>30. ASSUME NEW d \in Dialers, Wake(d) PROVE Fence'
  BY <1>30, WakeDialerEffect DEF DialerTakes
<1>31. CASE UNCHANGED vars
  BY <1>31 DEF vars
<1> HIDE DEF Goto
<1> QED
  BY <1>1, <1>2, <1>3, <1>4, <1>5, <1>6, <1>7, <1>8, <1>9, <1>10, <1>11, <1>12,
     <1>13, <1>14, <1>15, <1>16, <1>17, <1>18, <1>19, <1>20, <1>21, <1>22,
     <1>23, <1>24, <1>25, <1>26, <1>27, <1>28, <1>29, <1>30, <1>31 DEF Next,
     CallerNext, DialerNext, CallStep, DialStep, ProcessDead

-----------------------------------------------------------------------------
(* References: made once, kept by a call or by the handler in place,       *)
(* released once.                                                          *)

\* A handler's reference, callback and listener go through life together.
LEMMA LifeStep ==
  ASSUME Types, Owner, Fence, Life, Stage, [Next]_vars PROVE Life'
<1> USE ThreadsAssumption, FieldTypes, PcTypes DEF Owner, Fence, Critical,
       Waiting, Life, Created, Pending, NoRefLeak, Stage, Down, Up, Starting,
       Goto, lockVars, handlerVars, limitVars, hostVars, dialVars
<1>1. ASSUME NEW c \in Callers, NEW h \in Handlers, CallStartTun(c, h) PROVE Life'
  BY <1>1 DEF CallStartTun
<1>2. ASSUME NEW c \in Callers, CallStopTun(c) PROVE Life'
  BY <1>2 DEF CallStopTun
<1>3. ASSUME NEW c \in Callers, LockTun(c) PROVE Life'
  BY <1>3 DEF LockTun, AfterClose
<1>4. ASSUME NEW c \in Callers, LockRun(c) PROVE Life'
  BY <1>4 DEF LockRun
<1>5. ASSUME NEW c \in Callers, CloseAcquire(c) PROVE Life'
  BY <1>5, CloseAcquireEffect DEF CallerTakes, Queues
<1>6. ASSUME NEW c \in Callers, ClearHooks(c) PROVE Life'
  BY <1>6 DEF ClearHooks
<1>7. ASSUME NEW c \in Callers, ClearListener(c) PROVE Life'
  BY <1>7 DEF ClearListener
<1>8. ASSUME NEW c \in Callers, ClearCallback(c) PROVE Life'
  <2>1. CASE callback[at[c]]
    <3>1. at[c] = tunHandler /\ tunHandler \in Handlers /\ closed[tunHandler]
      BY <1>8 DEF ClearCallback
    <3>2. /\ ref' = [ref EXCEPT ![tunHandler] = "released"]
          /\ callback' = [callback EXCEPT ![tunHandler] = FALSE]
          /\ pc' = [pc EXCEPT ![c] = "release"]
          /\ UNCHANGED <<tunHandler, closed, listener, at, arg>>
      BY <1>8, <2>1, <3>1 DEF ClearCallback, Released
    <3>3. \A e \in Callers : pc[e] \notin {"idle", "lockTun"} => e = c
      BY <1>8 DEF ClearCallback
    <3> QED  BY <2>1, <3>1, <3>2, <3>3, <1>8 DEF ClearCallback
  <2>2. CASE ~callback[at[c]]
    BY <1>8, <2>2 DEF ClearCallback
  <2>. QED  BY <2>1, <2>2
<1>9. ASSUME NEW c \in Callers, ReleaseLimit(c) PROVE Life'
  BY <1>9 DEF ReleaseLimit, AfterClose
<1>10. ASSUME NEW c \in Callers, NoTun(c) PROVE Life'
  BY <1>10 DEF NoTun, Released
<1>11. ASSUME NEW c \in Callers, InstallHandler(c) PROVE Life'
  BY <1>11 DEF InstallHandler
<1>12. ASSUME NEW c \in Callers, StartAcquire(c) PROVE Life'
  BY <1>12, StartAcquireEffect DEF CallerTakes, Queues
<1>13. ASSUME NEW c \in Callers, InitHook(c) PROVE Life'
  BY <1>13 DEF InitHook
<1>14. ASSUME NEW c \in Callers, OpenListener(c) PROVE Life'
  BY <1>14 DEF OpenListener
<1>15. ASSUME NEW c \in Callers, OpenFails(c) PROVE Life'
  BY <1>15 DEF OpenFails
<1>16. ASSUME NEW c \in Callers, UnlockRun(c) PROVE Life'
  BY <1>16 DEF UnlockRun
<1>17. ASSUME NEW c \in Callers, UnlockTun(c) PROVE Life'
  BY <1>17 DEF UnlockTun
<1>18. ASSUME NEW d \in Dialers, NEW k \in Kinds, BeginDial(d, k) PROVE Life'
  BY <1>18 DEF BeginDial
<1>19. ASSUME NEW d \in Dialers, LookUpHook(d) PROVE Life'
  BY <1>19 DEF LookUpHook
<1>20. ASSUME NEW d \in Dialers, ApplyConfig(d) PROVE Life'
  BY <1>20 DEF ApplyConfig
<1>21. ASSUME NEW d \in Dialers, HookRefuses(d) PROVE Life'
  BY <1>21 DEF HookRefuses, EndDial
<1>22. ASSUME NEW d \in Dialers, EnterHandler(d) PROVE Life'
  BY <1>22, EnterHandlerEffect DEF DialerTakes, Queues
<1>23. ASSUME NEW d \in Dialers, NilHandler(d) PROVE Life'
  BY <1>23 DEF NilHandler, HandlersRead
<1>24. ASSUME NEW d \in Dialers, FoundClosed(d) PROVE Life'
  BY <1>24 DEF FoundClosed, LeaveHandler
<1>25. ASSUME NEW d \in Dialers, Upcall(d) PROVE Life'
  BY <1>25 DEF Upcall
<1>26. ASSUME NEW d \in Dialers, UpcallReturns(d) PROVE Life'
  BY <1>26 DEF UpcallReturns, LeaveHandler, EndDial
<1>27. ASSUME NEW d \in Dialers, EndSkipped(d) PROVE Life'
  BY <1>27 DEF EndSkipped, EndDial
<1>28. ASSUME NEW d \in Dialers, EndApply(d) PROVE Life'
  BY <1>28 DEF EndApply
<1>29. ASSUME NEW c \in Callers, Wake(c) PROVE Life'
  BY <1>29, WakeCallerEffect DEF CallerTakes
<1>30. ASSUME NEW d \in Dialers, Wake(d) PROVE Life'
  BY <1>30, WakeDialerEffect DEF DialerTakes
<1>31. CASE UNCHANGED vars
  BY <1>31 DEF vars
<1> HIDE DEF Goto
<1> QED
  BY <1>1, <1>2, <1>3, <1>4, <1>5, <1>6, <1>7, <1>8, <1>9, <1>10, <1>11, <1>12,
     <1>13, <1>14, <1>15, <1>16, <1>17, <1>18, <1>19, <1>20, <1>21, <1>22,
     <1>23, <1>24, <1>25, <1>26, <1>27, <1>28, <1>29, <1>30, <1>31 DEF Next,
     CallerNext, DialerNext, CallStep, DialStep, ProcessDead

-----------------------------------------------------------------------------
(* What the owner of tunLock leaves to the next one.                       *)

\* What is true of the handler in place at each stage of a call.
LEMMA StageStep ==
  ASSUME Types, Owner, Fence, Life, Stage, [Next]_vars PROVE Stage'
<1> USE ThreadsAssumption, FieldTypes, PcTypes DEF Owner, Fence, Critical,
       Waiting, Life, Created, Pending, Stage, Down, Up, Starting, Goto,
       lockVars, handlerVars, limitVars, hostVars, dialVars
<1>1. ASSUME NEW c \in Callers, NEW h \in Handlers, CallStartTun(c, h) PROVE Stage'
  BY <1>1 DEF CallStartTun
<1>2. ASSUME NEW c \in Callers, CallStopTun(c) PROVE Stage'
  BY <1>2 DEF CallStopTun
<1>3. ASSUME NEW c \in Callers, LockTun(c) PROVE Stage'
  BY <1>3 DEF LockTun, AfterClose
<1>4. ASSUME NEW c \in Callers, LockRun(c) PROVE Stage'
  BY <1>4 DEF LockRun
<1>5. ASSUME NEW c \in Callers, CloseAcquire(c) PROVE Stage'
  BY <1>5, CloseAcquireEffect DEF CallerTakes, Queues
<1>6. ASSUME NEW c \in Callers, ClearHooks(c) PROVE Stage'
  BY <1>6 DEF ClearHooks
<1>7. ASSUME NEW c \in Callers, ClearListener(c) PROVE Stage'
  BY <1>7 DEF ClearListener
<1>8. ASSUME NEW c \in Callers, ClearCallback(c) PROVE Stage'
  BY <1>8 DEF ClearCallback
<1>9. ASSUME NEW c \in Callers, ReleaseLimit(c) PROVE Stage'
  BY <1>9 DEF ReleaseLimit, AfterClose
<1>10. ASSUME NEW c \in Callers, NoTun(c) PROVE Stage'
  BY <1>10 DEF NoTun
<1>11. ASSUME NEW c \in Callers, InstallHandler(c) PROVE Stage'
  BY <1>11 DEF InstallHandler
<1>12. ASSUME NEW c \in Callers, StartAcquire(c) PROVE Stage'
  BY <1>12, StartAcquireEffect DEF CallerTakes, Queues
<1>13. ASSUME NEW c \in Callers, InitHook(c) PROVE Stage'
  BY <1>13 DEF InitHook
<1>14. ASSUME NEW c \in Callers, OpenListener(c) PROVE Stage'
  BY <1>14 DEF OpenListener
<1>15. ASSUME NEW c \in Callers, OpenFails(c) PROVE Stage'
  BY <1>15 DEF OpenFails
<1>16. ASSUME NEW c \in Callers, UnlockRun(c) PROVE Stage'
  BY <1>16 DEF UnlockRun
<1>17. ASSUME NEW c \in Callers, UnlockTun(c) PROVE Stage'
  BY <1>17 DEF UnlockTun
<1>18. ASSUME NEW d \in Dialers, NEW k \in Kinds, BeginDial(d, k) PROVE Stage'
  BY <1>18 DEF BeginDial
<1>19. ASSUME NEW d \in Dialers, LookUpHook(d) PROVE Stage'
  BY <1>19 DEF LookUpHook
<1>20. ASSUME NEW d \in Dialers, ApplyConfig(d) PROVE Stage'
  BY <1>20 DEF ApplyConfig
<1>21. ASSUME NEW d \in Dialers, HookRefuses(d) PROVE Stage'
  BY <1>21 DEF HookRefuses, EndDial
<1>22. ASSUME NEW d \in Dialers, EnterHandler(d) PROVE Stage'
  BY <1>22, EnterHandlerEffect DEF DialerTakes, Queues
<1>23. ASSUME NEW d \in Dialers, NilHandler(d) PROVE Stage'
  BY <1>23 DEF NilHandler, HandlersRead
<1>24. ASSUME NEW d \in Dialers, FoundClosed(d) PROVE Stage'
  BY <1>24 DEF FoundClosed, LeaveHandler
<1>25. ASSUME NEW d \in Dialers, Upcall(d) PROVE Stage'
  BY <1>25 DEF Upcall
<1>26. ASSUME NEW d \in Dialers, UpcallReturns(d) PROVE Stage'
  BY <1>26 DEF UpcallReturns, LeaveHandler, EndDial
<1>27. ASSUME NEW d \in Dialers, EndSkipped(d) PROVE Stage'
  BY <1>27 DEF EndSkipped, EndDial
<1>28. ASSUME NEW d \in Dialers, EndApply(d) PROVE Stage'
  BY <1>28 DEF EndApply
<1>29. ASSUME NEW c \in Callers, Wake(c) PROVE Stage'
  BY <1>29, WakeCallerEffect DEF CallerTakes
<1>30. ASSUME NEW d \in Dialers, Wake(d) PROVE Stage'
  BY <1>30, WakeDialerEffect DEF DialerTakes
<1>31. CASE UNCHANGED vars
  BY <1>31 DEF vars
<1> HIDE DEF Goto
<1> QED
  BY <1>1, <1>2, <1>3, <1>4, <1>5, <1>6, <1>7, <1>8, <1>9, <1>10, <1>11, <1>12,
     <1>13, <1>14, <1>15, <1>16, <1>17, <1>18, <1>19, <1>20, <1>21, <1>22,
     <1>23, <1>24, <1>25, <1>26, <1>27, <1>28, <1>29, <1>30, <1>31 DEF Next,
     CallerNext, DialerNext, CallStep, DialStep, ProcessDead

-----------------------------------------------------------------------------
(* What a dialer may believe.                                              *)

\* A handler that serves has its hooks in place.
LEMMA ServingHooked ==
  ASSUME Types, Owner, Stage, Serving PROVE hooks = Kinds
<1>1. CASE tunLock = None BY <1>1 DEF Stage, Down, Up, Serving
<1>2. ASSUME NEW c \in Callers, tunLock = c PROVE hooks = Kinds
  <2>1. pc[c] \in CallerSteps \ {"idle", "lockTun"} BY <1>2 DEF Owner, Types
  <2> QED BY <2>1 DEF CallerSteps, Stage, Down, Up, Starting, Serving
<1> QED BY <1>1, <1>2 DEF Types, TypeOK

\* What a dial knows of the handler it found and of the lapse it met.
LEMMA DialStepInv ==
  ASSUME Types, Owner, Fence, Life, Stage, Dial, [Next]_vars PROVE Dial'
<1> USE ThreadsAssumption, FieldTypes, PcTypes DEF Owner, Fence, Critical,
       Waiting, Life, Created, Stage, Down, Up, Starting, Dial, Serving, Goto,
       lockVars, handlerVars, limitVars, hostVars, dialVars
<1>1. ASSUME NEW c \in Callers, NEW h \in Handlers, CallStartTun(c, h) PROVE Dial'
  BY <1>1 DEF CallStartTun
<1>2. ASSUME NEW c \in Callers, CallStopTun(c) PROVE Dial'
  BY <1>2 DEF CallStopTun
<1>3. ASSUME NEW c \in Callers, LockTun(c) PROVE Dial'
  BY <1>3 DEF LockTun, AfterClose
<1>4. ASSUME NEW c \in Callers, LockRun(c) PROVE Dial'
  BY <1>4 DEF LockRun
<1>5. ASSUME NEW c \in Callers, CloseAcquire(c) PROVE Dial'
  BY <1>5, CloseAcquireEffect DEF CallerTakes, Queues
<1>6. ASSUME NEW c \in Callers, ClearHooks(c) PROVE Dial'
  BY <1>6 DEF ClearHooks
<1>7. ASSUME NEW c \in Callers, ClearListener(c) PROVE Dial'
  BY <1>7 DEF ClearListener
<1>8. ASSUME NEW c \in Callers, ClearCallback(c) PROVE Dial'
  BY <1>8 DEF ClearCallback
<1>9. ASSUME NEW c \in Callers, ReleaseLimit(c) PROVE Dial'
  BY <1>9 DEF ReleaseLimit, AfterClose
<1>10. ASSUME NEW c \in Callers, NoTun(c) PROVE Dial'
  BY <1>10 DEF NoTun
<1>11. ASSUME NEW c \in Callers, InstallHandler(c) PROVE Dial'
  BY <1>11 DEF InstallHandler
<1>12. ASSUME NEW c \in Callers, StartAcquire(c) PROVE Dial'
  BY <1>12, StartAcquireEffect DEF CallerTakes, Queues
<1>13. ASSUME NEW c \in Callers, InitHook(c) PROVE Dial'
  BY <1>13 DEF InitHook
<1>14. ASSUME NEW c \in Callers, OpenListener(c) PROVE Dial'
  BY <1>14 DEF OpenListener
<1>15. ASSUME NEW c \in Callers, OpenFails(c) PROVE Dial'
  BY <1>15 DEF OpenFails
<1>16. ASSUME NEW c \in Callers, UnlockRun(c) PROVE Dial'
  BY <1>16 DEF UnlockRun
<1>17. ASSUME NEW c \in Callers, UnlockTun(c) PROVE Dial'
  BY <1>17 DEF UnlockTun
<1>18. ASSUME NEW d \in Dialers, NEW k \in Kinds, BeginDial(d, k) PROVE Dial'
  <2>1. Serving' = Serving BY <1>18 DEF BeginDial
  <2> HIDE DEF Serving
  <2>2. UNCHANGED <<lockVars, handlerVars, limitVars, hooks, hostVars, at, arg>>
    BY <1>18 DEF BeginDial
  <2>3. \A e \in Dialers \ {d} :
          pc'[e] = pc[e] /\ seen'[e] = seen[e] /\ lapse'[e] = lapse[e]
    BY <1>18 DEF BeginDial
  <2>4. seen'[d] = tunHandler /\ lapse'[d] = ~Serving /\ pc'[d] = "begun"
    BY <1>18 DEF BeginDial
  <2>5. CASE Serving
    <3>1. ~lapse'[d] BY <2>4, <2>5, Zenon
    <3> QED BY <2>1, <2>2, <2>3, <2>4, <2>5, <3>1
  <2>6. CASE ~Serving
    <3>1. lapse'[d] BY <2>4, <2>6, Zenon
    <3> QED BY <2>1, <2>2, <2>3, <2>4, <2>6, <3>1
  <2> QED BY <2>5, <2>6
<1>19. ASSUME NEW d \in Dialers, LookUpHook(d) PROVE Dial'
  <2>1. Serving' = Serving BY <1>19 DEF LookUpHook
  <2> HIDE DEF Serving
  <2>2. kind[d] \in hooks \/ ~Serving BY ServingHooked DEF Types, TypeOK
  <2>3. UNCHANGED <<lockVars, handlerVars, limitVars, hooks, hostVars, at, arg, dialVars>>
    BY <1>19 DEF LookUpHook
  <2>4. \A e \in Dialers \ {d} : pc'[e] = pc[e]
    BY <1>19 DEF LookUpHook
  <2>5. pc[d] = "begun" /\ pc'[d] = IF kind[d] \in hooks THEN "hooked" ELSE "skipped"
    BY <1>19 DEF LookUpHook
  <2> QED BY <2>1, <2>2, <2>3, <2>4, <2>5
<1>20. ASSUME NEW d \in Dialers, ApplyConfig(d) PROVE Dial'
  BY <1>20 DEF ApplyConfig
<1>21. ASSUME NEW d \in Dialers, HookRefuses(d) PROVE Dial'
  BY <1>21 DEF HookRefuses, EndDial
<1>22. ASSUME NEW d \in Dialers, EnterHandler(d) PROVE Dial'
  BY <1>22, EnterHandlerEffect DEF DialerTakes, Queues
<1>23. ASSUME NEW d \in Dialers, NilHandler(d) PROVE Dial'
  BY <1>23 DEF NilHandler, HandlersRead
<1>24. ASSUME NEW d \in Dialers, FoundClosed(d) PROVE Dial'
  BY <1>24 DEF FoundClosed, LeaveHandler
<1>25. ASSUME NEW d \in Dialers, Upcall(d) PROVE Dial'
  BY <1>25 DEF Upcall
<1>26. ASSUME NEW d \in Dialers, UpcallReturns(d) PROVE Dial'
  BY <1>26 DEF UpcallReturns, LeaveHandler, EndDial
<1>27. ASSUME NEW d \in Dialers, EndSkipped(d) PROVE Dial'
  BY <1>27 DEF EndSkipped, EndDial
<1>28. ASSUME NEW d \in Dialers, EndApply(d) PROVE Dial'
  BY <1>28 DEF EndApply
<1>29. ASSUME NEW c \in Callers, Wake(c) PROVE Dial'
  BY <1>29, WakeCallerEffect DEF CallerTakes
<1>30. ASSUME NEW d \in Dialers, Wake(d) PROVE Dial'
  BY <1>30, WakeDialerEffect DEF DialerTakes
<1>31. CASE UNCHANGED vars
  BY <1>31 DEF vars
<1> HIDE DEF Goto
<1> QED
  BY <1>1, <1>2, <1>3, <1>4, <1>5, <1>6, <1>7, <1>8, <1>9, <1>10, <1>11, <1>12,
     <1>13, <1>14, <1>15, <1>16, <1>17, <1>18, <1>19, <1>20, <1>21, <1>22,
     <1>23, <1>24, <1>25, <1>26, <1>27, <1>28, <1>29, <1>30, <1>31 DEF Next,
     CallerNext, DialerNext, CallStep, DialStep, ProcessDead

-----------------------------------------------------------------------------
(* Who closes the descriptors.                                             *)

\* Whoever opens, closes or loses a descriptor owns it at that moment.
LEMMA DescriptorsStep ==
  ASSUME Types, Owner, Fence, Life, Stage, Descriptors, [Next]_vars PROVE Descriptors'
<1> USE ThreadsAssumption, FieldTypes, PcTypes DEF Owner, Fence, Critical,
       Waiting, Life, Created, Pending, Stage, Down, Up, Starting,
       Descriptors, DescriptorOwned, PastOpen, Goto,
       lockVars, handlerVars, limitVars, hostVars, dialVars
<1>fd. fd \in [Handlers -> {"none", "zero", "open", "lost", "closed"}] BY DEF Types, TypeOK
<1>1. ASSUME NEW c \in Callers, NEW h \in Handlers, CallStartTun(c, h) PROVE Descriptors'
  BY <1>1 DEF CallStartTun
<1>2. ASSUME NEW c \in Callers, CallStopTun(c) PROVE Descriptors'
  BY <1>2 DEF CallStopTun
<1>3. ASSUME NEW c \in Callers, LockTun(c) PROVE Descriptors'
  BY <1>3 DEF LockTun, AfterClose
<1>4. ASSUME NEW c \in Callers, LockRun(c) PROVE Descriptors'
  BY <1>4 DEF LockRun
<1>5. ASSUME NEW c \in Callers, CloseAcquire(c) PROVE Descriptors'
  BY <1>5, CloseAcquireEffect DEF CallerTakes, Queues
<1>6. ASSUME NEW c \in Callers, ClearHooks(c) PROVE Descriptors'
  BY <1>6 DEF ClearHooks
<1>7. ASSUME NEW c \in Callers, ClearListener(c) PROVE Descriptors'
  <2>1. at[c] = tunHandler /\ tunHandler \in Handlers BY <1>7 DEF ClearListener
  <2>2. /\ \A h \in Handlers : listener'[h] = (IF h = tunHandler THEN FALSE ELSE listener[h])
        /\ \A h \in Handlers \ {tunHandler} : fd'[h] = fd[h]
        /\ fd'[tunHandler] = IF listener[tunHandler] THEN "closed" ELSE fd[tunHandler]
        /\ pc' = [pc EXCEPT ![c] = "clearCallback"] /\ pc[c] = "clearListener"
        /\ UNCHANGED <<tunHandler, at, arg>>
    BY <1>7, <1>fd, <2>1 DEF ClearListener
  <2>3. CASE listener[tunHandler] BY <2>1, <2>2, <2>3
  <2>4. CASE ~listener[tunHandler] BY <2>1, <2>2, <2>4
  <2> QED BY <2>3, <2>4
<1>8. ASSUME NEW c \in Callers, ClearCallback(c) PROVE Descriptors'
  BY <1>8 DEF ClearCallback
<1>9. ASSUME NEW c \in Callers, ReleaseLimit(c) PROVE Descriptors'
  BY <1>9 DEF ReleaseLimit, AfterClose
<1>10. ASSUME NEW c \in Callers, NoTun(c) PROVE Descriptors'
  BY <1>10 DEF NoTun
<1>11. ASSUME NEW c \in Callers, InstallHandler(c) PROVE Descriptors'
  BY <1>11 DEF InstallHandler
<1>12. ASSUME NEW c \in Callers, StartAcquire(c) PROVE Descriptors'
  BY <1>12, StartAcquireEffect DEF CallerTakes, Queues
<1>13. ASSUME NEW c \in Callers, InitHook(c) PROVE Descriptors'
  BY <1>13 DEF InitHook
<1>14. ASSUME NEW c \in Callers, OpenListener(c) PROVE Descriptors'
  BY <1>14 DEF OpenListener
<1>15. ASSUME NEW c \in Callers, OpenFails(c) PROVE Descriptors'
  <2>1. PICK f \in {"lost", "closed"} : fd' = [fd EXCEPT ![at[c]] = f] BY <1>15 DEF OpenFails
  <2>2. /\ at[c] = tunHandler /\ tunHandler \in Handlers /\ arg[c] = tunHandler
        /\ ~listener[tunHandler] /\ pc[c] = "open"
        /\ pc' = [pc EXCEPT ![c] = "clear"] /\ UNCHANGED <<tunHandler, listener, at, arg>>
    BY <1>15 DEF OpenFails
  <2>3. fd'[tunHandler] # "open" /\ \A h \in Handlers \ {tunHandler} : fd'[h] = fd[h]
    BY <1>fd, <2>1, <2>2
  <2> QED BY <2>2, <2>3
<1>16. ASSUME NEW c \in Callers, UnlockRun(c) PROVE Descriptors'
  BY <1>16 DEF UnlockRun
<1>17. ASSUME NEW c \in Callers, UnlockTun(c) PROVE Descriptors'
  BY <1>17 DEF UnlockTun
<1>18. ASSUME NEW d \in Dialers, NEW k \in Kinds, BeginDial(d, k) PROVE Descriptors'
  BY <1>18 DEF BeginDial
<1>19. ASSUME NEW d \in Dialers, LookUpHook(d) PROVE Descriptors'
  BY <1>19 DEF LookUpHook
<1>20. ASSUME NEW d \in Dialers, ApplyConfig(d) PROVE Descriptors'
  BY <1>20 DEF ApplyConfig
<1>21. ASSUME NEW d \in Dialers, HookRefuses(d) PROVE Descriptors'
  BY <1>21 DEF HookRefuses, EndDial
<1>22. ASSUME NEW d \in Dialers, EnterHandler(d) PROVE Descriptors'
  BY <1>22, EnterHandlerEffect DEF DialerTakes, Queues
<1>23. ASSUME NEW d \in Dialers, NilHandler(d) PROVE Descriptors'
  BY <1>23 DEF NilHandler, HandlersRead
<1>24. ASSUME NEW d \in Dialers, FoundClosed(d) PROVE Descriptors'
  BY <1>24 DEF FoundClosed, LeaveHandler
<1>25. ASSUME NEW d \in Dialers, Upcall(d) PROVE Descriptors'
  BY <1>25 DEF Upcall
<1>26. ASSUME NEW d \in Dialers, UpcallReturns(d) PROVE Descriptors'
  BY <1>26 DEF UpcallReturns, LeaveHandler, EndDial
<1>27. ASSUME NEW d \in Dialers, EndSkipped(d) PROVE Descriptors'
  BY <1>27 DEF EndSkipped, EndDial
<1>28. ASSUME NEW d \in Dialers, EndApply(d) PROVE Descriptors'
  BY <1>28 DEF EndApply
<1>29. ASSUME NEW c \in Callers, Wake(c) PROVE Descriptors'
  BY <1>29, WakeCallerEffect DEF CallerTakes
<1>30. ASSUME NEW d \in Dialers, Wake(d) PROVE Descriptors'
  BY <1>30, WakeDialerEffect DEF DialerTakes
<1>31. CASE UNCHANGED vars
  BY <1>31 DEF vars
<1> HIDE DEF Goto
<1> QED
  BY <1>1, <1>2, <1>3, <1>4, <1>5, <1>6, <1>7, <1>8, <1>9, <1>10, <1>11, <1>12,
     <1>13, <1>14, <1>15, <1>16, <1>17, <1>18, <1>19, <1>20, <1>21, <1>22,
     <1>23, <1>24, <1>25, <1>26, <1>27, <1>28, <1>29, <1>30, <1>31 DEF Next,
     CallerNext, DialerNext, CallStep, DialStep, ProcessDead

-----------------------------------------------------------------------------
(* The theorems.                                                           *)

\* Every step preserves the invariant.
LEMMA InvStep == Inv /\ [Next]_vars => Inv'
BY TypesStep, OwnerStep, FenceStep, LifeStep, StageStep, DialStepInv, DescriptorsStep DEF Inv

\* Inv holds in every state of every behaviour of startTUN, stopTun and the
\* hot paths (lib.go): the strengthening all the theorems below rest on.
THEOREM InvAlways == Spec => []Inv
BY InitInv, InvStep, PTL DEF Spec

\* Type correctness of the model of lib.go's TUN handler.
THEOREM TypesCorrect == Spec => []TypeOK
<1>1. Inv => TypeOK BY DEF Inv, Types
<1> QED BY <1>1, InvAlways, PTL

LEMMA UpcallOnCallback ==
  ASSUME Inv, NEW d \in Dialers, pc[d] = "upcall"
  PROVE  at[d] \in Handlers /\ callback[at[d]]
<1>1. at[d] \in Handlers /\ ~closed[at[d]]
  BY FieldTypes DEF Inv, Fence, Threads
<1>2. callback[at[d]] BY <1>1, ThreadsAssumption DEF Inv, Dial, Created
<1> QED BY <1>1, <1>2

\* handleProtect and handleResolveProcess call up only with a global reference
\* that is live, however startTUN, stopTun and the hot paths interleave.
THEOREM UpcallsSafe == Spec => []UpcallHoldsLiveRef
<1>1. Inv => UpcallHoldsLiveRef
  BY UpcallOnCallback DEF Inv, Life, UpcallHoldsLiveRef
<1> QED BY <1>1, InvAlways, PTL

\* startTUN and stopTun delete the global reference of a handler at most once.
THEOREM ReleasesSafe == Spec => []RefReleasedOnce
<1>1. Inv => RefReleasedOnce BY DEF Inv, Life, RefReleasedOnce
<1> QED BY <1>1, InvAlways, PTL

\* Every live global reference has a call of startTUN or the handler in place
\* to release it.
THEOREM NoLeak == Spec => []NoRefLeak
<1>1. Inv => NoRefLeak BY DEF Inv, Life
<1> QED BY <1>1, InvAlways, PTL

\* stopTun leaves nothing behind: with no call under way and the bridge not
\* serving, no hook is in place and no hot path is in the app's code.
THEOREM StopIsQuiet == Spec => []QuietAfterStop
<1>1. Inv => QuietAfterStop
  <2> SUFFICES ASSUME Inv, tunLock = None, ~Serving
               PROVE  hooks = {} /\ \A d \in Dialers : pc[d] # "upcall"
    BY DEF QuietAfterStop
  <2>1. Down BY DEF Inv, Stage, Up, Serving
  <2>2. \A h \in Handlers : ~callback[h]
    BY <2>1, ThreadsAssumption DEF Inv, Life, Down
  <2> QED BY <2>1, <2>2, UpcallOnCallback DEF Down
<1> QED BY <1>1, InvAlways, PTL

\* At most one TUN listener is open, that of the handler in place.
THEOREM OneListener == Spec => []ListenerOwned
<1>1. Inv => ListenerOwned
  <2> SUFFICES ASSUME Inv, NEW h \in Handlers
               PROVE  /\ listener[h] => h = tunHandler
                      /\ tunLock = None => (listener[h] <=> callback[h])
    BY DEF ListenerOwned
  <2>1. CASE h = tunHandler BY <2>1, ThreadsAssumption DEF Inv, Stage, Down, Up
  <2>2. CASE h # tunHandler BY <2>2 DEF Inv, Life
  <2> QED BY <2>1, <2>2
<1> QED BY <1>1, InvAlways, PTL

\* A dial that ends unprotected met a moment at which no VPN was serving.
THEOREM NoSkipWhileServing == Spec => []SkipOnlyInLapse
<1>1. Inv => SkipOnlyInLapse BY DEF Inv, Dial, SkipOnlyInLapse
<1> QED BY <1>1, InvAlways, PTL

\* A descriptor still open is that of a call under way or of the open listener of
\* the handler in place: stopTun, and the next startTUN, leave none behind but
\* those a failed start has lost.
THEOREM DescriptorsClosed == Spec => []DescriptorOwned
<1>1. Inv => DescriptorOwned BY DEF Inv, Descriptors
<1> QED BY <1>1, InvAlways, PTL

=============================================================================
