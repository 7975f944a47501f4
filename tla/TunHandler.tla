----------------------------- MODULE TunHandler -----------------------------
(***************************************************************************)
(* The life of a TUN handler (lib.go): startTUN and stopTun called by the  *)
(* host app, and the hot paths - protect a socket, name a process - that   *)
(* mihomo's goroutines take through the hooks the handler installs.        *)
(*                                                                         *)
(* A handler owns one TUN listener, with the file descriptor the app       *)
(* handed over, and one JNI global reference, the callback the hot paths   *)
(* call up into.  Closing it while a hot path runs is the hazard: the      *)
(* semaphore "limit" is the only fence, because the hooks and the global   *)
(* pointer tunHandler are read with no lock at all.                        *)
(*                                                                         *)
(* One member of Handlers stands for one call of startTUN: its callback,   *)
(* its descriptor, and the TunHandler struct the call allocates.           *)
(***************************************************************************)
EXTENDS Naturals, Sequences, FiniteSets

CONSTANTS
  Callers,   \* threads of the host app that call startTUN and stopTun
  Dialers,   \* goroutines of mihomo that reach the hooks
  Appliers,  \* the dialers that do so inside applyConfig, holding runLock
  Handlers,  \* calls of startTUN (bounds the starts of a behaviour)
  Capacity,  \* tunSemCapacity
  None       \* nil, nobody

ASSUME ThreadsAssumption ==
  /\ Callers \cap Dialers = {}
  /\ Appliers \subseteq Dialers
  /\ None \notin Callers \cup Dialers \cup Handlers

ASSUME CapacityAssumption == Capacity \in Nat \ {0}

VARIABLES
  tunLock,    \* holder of the mutex tunLock
  runLock,    \* holder of the mutex runLock
  tunHandler, \* the global pointer to the current handler
  closed, callback, listener,  \* the fields of each handler; listener: open?
  full, shared, waiters,       \* its semaphore "limit": who holds all of it,
                               \* who holds one unit, who queues for it
  hooks,      \* which of mihomo's two hook variables are not nil
  ref,        \* the JNI global reference handed over with each call
  fd,         \* the TUN descriptor handed over with each call
  pc, at,     \* where each thread is, and the handler it works on
  arg,        \* the call of startTUN a caller is in, None in stopTun
  kind, seen, \* a dialer's hook, and tunHandler as it began to dial
  lapse       \* history: was the bridge ever not serving during this dial?

lockVars    == <<tunLock, runLock>>
handlerVars == <<tunHandler, closed, callback, listener>>
limitVars   == <<full, shared, waiters>>
hostVars    == <<ref, fd>>
dialVars    == <<kind, seen, lapse>>

vars == <<lockVars, handlerVars, limitVars, hooks, hostVars, pc, at, arg, dialVars>>

Threads == Callers \cup Dialers
Kinds   == {"protect", "resolve"}

\* A nil tunHandler dereferenced by a hook panics, and Go ends the process.
Alive == \A d \in Dialers : pc[d] # "panic"

Goto(t, label) == Alive /\ pc' = [pc EXCEPT ![t] = label]

\* The handler in place is open for traffic.
Serving == /\ tunHandler # None
           /\ listener[tunHandler]
           /\ ~closed[tunHandler]

Init ==
  /\ tunLock = None /\ runLock = None
  /\ tunHandler = None
  /\ closed   = [h \in Handlers |-> FALSE]
  /\ callback = [h \in Handlers |-> FALSE]
  /\ listener = [h \in Handlers |-> FALSE]
  /\ full     = [h \in Handlers |-> None]
  /\ shared   = [h \in Handlers |-> {}]
  /\ waiters  = [h \in Handlers |-> <<>>]
  /\ hooks = {}
  /\ ref = [h \in Handlers |-> "none"]
  /\ fd  = [h \in Handlers |-> "none"]
  /\ pc  = [t \in Threads |-> "idle"]
  /\ at  = [t \in Threads |-> None]
  /\ arg = [c \in Callers |-> None]
  /\ kind  = [d \in Dialers |-> "protect"]
  /\ seen  = [d \in Dialers |-> None]
  /\ lapse = [d \in Dialers |-> FALSE]

-----------------------------------------------------------------------------
(* The weighted semaphore of golang.org/x/sync: callers take all of it,    *)
(* dialers one unit.  A request that does not fit, or that finds others    *)
(* queued, joins the queue; the queue is served strictly in order.         *)

Fits(t, h) ==
  /\ full[h] = None
  /\ IF t \in Callers THEN shared[h] = {} ELSE Cardinality(shared[h]) < Capacity

\* Mutant: a hot path takes the full weight.
Hold_AllFull(t, h) == full' = [full EXCEPT ![h] = t] /\ UNCHANGED shared

Hold(t, h) ==
  IF t \in Callers
  THEN full' = [full EXCEPT ![h] = t] /\ UNCHANGED shared
  ELSE shared' = [shared EXCEPT ![h] = @ \cup {t}] /\ UNCHANGED full

Acquire(t, h, granted, queued) ==
  \/ /\ waiters[h] = <<>> /\ Fits(t, h)
     /\ Hold(t, h)
     /\ Goto(t, granted)
     /\ UNCHANGED waiters
  \/ /\ ~(waiters[h] = <<>> /\ Fits(t, h))
     /\ waiters' = [waiters EXCEPT ![h] = Append(@, t)]
     /\ Goto(t, queued)
     /\ UNCHANGED <<full, shared>>

Granted == [closeQueued |-> "clear", startQueued |-> "hook", hotQueued |-> "check"]

\* The head of a queue is granted the semaphore.
Wake(t) ==
  /\ pc[t] \in DOMAIN Granted
  /\ waiters[at[t]] # <<>> /\ Head(waiters[at[t]]) = t
  /\ Fits(t, at[t])
  /\ Hold(t, at[t])
  /\ waiters' = [waiters EXCEPT ![at[t]] = Tail(@)]
  /\ Goto(t, Granted[pc[t]])
  /\ UNCHANGED <<lockVars, handlerVars, hooks, hostVars, at, arg, dialVars>>

-----------------------------------------------------------------------------
(* startTUN and stopTun, up to the point where they leave tunLock.         *)

\* DeleteGlobalRef; a second one on the same reference is remembered.
Released(h) == [ref EXCEPT ![h] = IF @ = "live" THEN "released" ELSE "twice"]

\* The JNI shim makes the global reference before it enters Go.
CallStartTun(c, h) ==
  /\ pc[c] = "idle" /\ ref[h] = "none"
  /\ ref' = [ref EXCEPT ![h] = "live"]
  /\ \E f \in {"zero", "open"} : fd' = [fd EXCEPT ![h] = f]
  /\ arg' = [arg EXCEPT ![c] = h]
  /\ Goto(c, "lockTun")
  /\ UNCHANGED <<lockVars, handlerVars, limitVars, hooks, at, dialVars>>

CallStopTun(c) ==
  /\ pc[c] = "idle"
  /\ Goto(c, "lockTun")
  /\ UNCHANGED <<lockVars, handlerVars, limitVars, hooks, hostVars, at, arg, dialVars>>

AfterClose(c) == IF arg[c] = None THEN "unlockTun" ELSE "install"

\* Mutant: startTUN does not close the handler it replaces.
LockTun_NoClose(c) ==
  /\ pc[c] = "lockTun" /\ tunLock = None
  /\ tunLock' = c
  /\ at' = [at EXCEPT ![c] = tunHandler]
  /\ Goto(c, IF tunHandler = None \/ arg[c] # None THEN AfterClose(c) ELSE "close")
  /\ UNCHANGED <<runLock, handlerVars, limitVars, hooks, hostVars, arg, dialVars>>

\* tunLock.Lock, then stopTunLocked: close the handler there is, if any.
LockTun(c) ==
  /\ pc[c] = "lockTun" /\ tunLock = None
  /\ tunLock' = c
  /\ at' = [at EXCEPT ![c] = tunHandler]
  /\ Goto(c, IF tunHandler = None THEN AfterClose(c) ELSE "close")
  /\ UNCHANGED <<runLock, handlerVars, limitVars, hooks, hostVars, arg, dialVars>>

CloseAcquire(c) ==
  /\ pc[c] = "close"
  /\ Acquire(c, at[c], "clear", "closeQueued")
  /\ UNCHANGED <<lockVars, handlerVars, hooks, hostVars, at, arg, dialVars>>

\* Mutant: clear leaves the hooks in place.
ClearHooks_Kept(c) ==
  /\ pc[c] = "clear"
  /\ closed' = [closed EXCEPT ![at[c]] = TRUE]
  /\ lapse' = [d \in Dialers |-> pc[d] \notin {"idle", "apply", "applied"}]
  /\ Goto(c, "clearListener")
  /\ UNCHANGED <<lockVars, tunHandler, callback, listener, limitVars, hooks, hostVars,
                 at, arg, kind, seen>>

\* clear, in its three steps: the flag and the hooks, the listener, the ref.
ClearHooks(c) ==
  /\ pc[c] = "clear"
  /\ closed' = [closed EXCEPT ![at[c]] = TRUE]
  /\ hooks' = {}
  /\ lapse' = [d \in Dialers |-> pc[d] \notin {"idle", "apply", "applied"}]
  /\ Goto(c, "clearListener")
  /\ UNCHANGED <<lockVars, tunHandler, callback, listener, limitVars, hostVars,
                 at, arg, kind, seen>>

\* Mutant: the listener is forgotten without being closed.
ClearListener_NoClose(c) ==
  /\ pc[c] = "clearListener"
  /\ listener' = [listener EXCEPT ![at[c]] = FALSE]
  /\ Goto(c, "clearCallback")
  /\ UNCHANGED <<lockVars, tunHandler, closed, callback, limitVars, hooks, hostVars,
                 at, arg, dialVars>>

ClearListener(c) ==
  /\ pc[c] = "clearListener"
  /\ listener' = [listener EXCEPT ![at[c]] = FALSE]
  /\ fd' = [fd EXCEPT ![at[c]] = IF listener[at[c]] THEN "closed" ELSE @]
  /\ Goto(c, "clearCallback")
  /\ UNCHANGED <<lockVars, tunHandler, closed, callback, limitVars, hooks, ref,
                 at, arg, dialVars>>

\* Mutant: the callback is released and not set to nil.
ClearCallback_NotNil(c) ==
  /\ pc[c] = "clearCallback"
  /\ ref' = [ref EXCEPT ![at[c]] = IF callback[at[c]] THEN Released(at[c])[at[c]] ELSE @]
  /\ Goto(c, "release")
  /\ UNCHANGED <<lockVars, tunHandler, closed, callback, listener, limitVars, hooks, fd,
                 at, arg, dialVars>>

ClearCallback(c) ==
  /\ pc[c] = "clearCallback"
  /\ IF callback[at[c]]
     THEN /\ ref' = Released(at[c])
          /\ callback' = [callback EXCEPT ![at[c]] = FALSE]
     ELSE UNCHANGED <<ref, callback>>
  /\ Goto(c, "release")
  /\ UNCHANGED <<lockVars, tunHandler, closed, listener, limitVars, hooks, fd,
                 at, arg, dialVars>>

\* The deferred limit.Release of close and of start.
ReleaseLimit(c) ==
  /\ pc[c] = "release"
  /\ full' = [full EXCEPT ![at[c]] = None]
  /\ Goto(c, IF at[c] = arg[c] THEN "unlockRun" ELSE AfterClose(c))
  /\ UNCHANGED <<lockVars, handlerVars, shared, waiters, hooks, hostVars, at, arg, dialVars>>

\* Mutant: the early return on fd = 0 forgets the reference.
NoTun_Leaks(c) ==
  /\ pc[c] = "install" /\ fd[arg[c]] = "zero"
  /\ Goto(c, "unlockTun")
  /\ UNCHANGED <<lockVars, handlerVars, limitVars, hooks, hostVars, at, arg, dialVars>>

\* fd = 0: there is no TUN to start, only the reference to give back.
NoTun(c) ==
  /\ pc[c] = "install" /\ fd[arg[c]] = "zero"
  /\ ref' = Released(arg[c])
  /\ Goto(c, "unlockTun")
  /\ UNCHANGED <<lockVars, handlerVars, limitVars, hooks, fd, at, arg, dialVars>>

InstallHandler(c) ==
  /\ pc[c] = "install" /\ fd[arg[c]] # "zero"
  /\ tunHandler' = arg[c]
  /\ callback' = [callback EXCEPT ![arg[c]] = TRUE]
  /\ at' = [at EXCEPT ![c] = arg[c]]
  /\ Goto(c, "lockRun")
  /\ UNCHANGED <<lockVars, closed, listener, limitVars, hooks, hostVars, arg, dialVars>>

\* Mutant: start takes the semaphore first and waits for runLock holding it.
LockRun_LimitFirst(c) ==
  /\ pc[c] = "lockRun"
  /\ IF full[at[c]] = c
     THEN runLock = None /\ runLock' = c /\ Goto(c, "hook") /\ UNCHANGED limitVars
     ELSE /\ waiters[at[c]] = <<>> /\ Fits(c, at[c]) /\ Hold(c, at[c])
          /\ Goto(c, "lockRun")
          /\ UNCHANGED <<runLock, waiters>>
  /\ UNCHANGED <<tunLock, handlerVars, hooks, hostVars, at, arg, dialVars>>

LockRun(c) ==
  /\ pc[c] = "lockRun" /\ runLock = None
  /\ runLock' = c
  /\ Goto(c, "acquire")
  /\ UNCHANGED <<tunLock, handlerVars, limitVars, hooks, hostVars, at, arg, dialVars>>

StartAcquire(c) ==
  /\ pc[c] = "acquire"
  /\ Acquire(c, at[c], "hook", "startQueued")
  /\ UNCHANGED <<lockVars, handlerVars, hooks, hostVars, at, arg, dialVars>>

\* Mutant: only the socket hook is installed.
InitHook_One(c) ==
  /\ pc[c] = "hook"
  /\ hooks' = {"protect"}
  /\ Goto(c, "open")
  /\ UNCHANGED <<lockVars, handlerVars, limitVars, hostVars, at, arg, dialVars>>

InitHook(c) ==
  /\ pc[c] = "hook"
  /\ hooks' = Kinds
  /\ Goto(c, "open")
  /\ UNCHANGED <<lockVars, handlerVars, limitVars, hostVars, at, arg, dialVars>>

OpenListener(c) ==
  /\ pc[c] = "open"
  /\ listener' = [listener EXCEPT ![at[c]] = TRUE]
  /\ Goto(c, "release")
  /\ UNCHANGED <<lockVars, tunHandler, closed, callback, limitVars, hooks, hostVars,
                 at, arg, dialVars>>

\* t.Start fails: on a bad address it never touched the descriptor, which stays
\* open and is lost; the listener constructor may or may not have closed it.
OpenFails(c) ==
  /\ pc[c] = "open"
  /\ \E f \in {"lost", "closed"} : fd' = [fd EXCEPT ![at[c]] = f]
  /\ Goto(c, "clear")
  /\ UNCHANGED <<lockVars, handlerVars, limitVars, hooks, ref, at, arg, dialVars>>

UnlockRun(c) ==
  /\ pc[c] = "unlockRun"
  /\ runLock' = None
  /\ Goto(c, "unlockTun")
  /\ UNCHANGED <<tunLock, handlerVars, limitVars, hooks, hostVars, at, arg, dialVars>>

UnlockTun(c) ==
  /\ pc[c] = "unlockTun"
  /\ tunLock' = None
  /\ at'  = [at EXCEPT ![c] = None]
  /\ arg' = [arg EXCEPT ![c] = None]
  /\ Goto(c, "idle")
  /\ UNCHANGED <<runLock, handlerVars, limitVars, hooks, hostVars, dialVars>>

-----------------------------------------------------------------------------
(* The hot paths.  A dialer looks the hook variable up, and later, inside  *)
(* the closure it found there, reads tunHandler.                           *)

\* applyConfig holds runLock while mihomo loads providers over the network.
ApplyConfig(d) ==
  /\ d \in Appliers /\ pc[d] = "idle" /\ runLock = None
  /\ runLock' = d
  /\ Goto(d, "apply")
  /\ UNCHANGED <<tunLock, handlerVars, limitVars, hooks, hostVars, at, arg, dialVars>>

EndApply(d) ==
  /\ pc[d] = "applied"
  /\ runLock' = None
  /\ Goto(d, "idle")
  /\ UNCHANGED <<tunLock, handlerVars, limitVars, hooks, hostVars, at, arg, dialVars>>

EndDial(d) ==
  /\ Goto(d, IF d \in Appliers THEN "applied" ELSE "idle")
  /\ kind' = [kind EXCEPT ![d] = "protect"]
  /\ seen' = [seen EXCEPT ![d] = None]
  /\ lapse' = [lapse EXCEPT ![d] = FALSE]

BeginDial(d, k) ==
  /\ pc[d] = IF d \in Appliers THEN "apply" ELSE "idle"
  /\ kind'  = [kind EXCEPT ![d] = k]
  /\ seen'  = [seen EXCEPT ![d] = tunHandler]
  /\ lapse' = [lapse EXCEPT ![d] = ~Serving]
  /\ Goto(d, "begun")
  /\ UNCHANGED <<lockVars, handlerVars, limitVars, hooks, hostVars, at, arg>>

\* With no hook the socket is used unprotected, the process left unnamed.
LookUpHook(d) ==
  /\ pc[d] = "begun"
  /\ Goto(d, IF kind[d] \in hooks THEN "hooked" ELSE "skipped")
  /\ UNCHANGED <<lockVars, handlerVars, limitVars, hooks, hostVars, at, arg, dialVars>>

\* The closure's own early returns: too many open descriptors (protect), or
\* no address to resolve by.
HookRefuses(d) ==
  /\ pc[d] = "hooked"
  /\ EndDial(d)
  /\ UNCHANGED <<lockVars, handlerVars, limitVars, hooks, hostVars, at, arg>>

\* Hook and tunHandler are read with no lock.  The protect closure reads the
\* handler inside RawConn.Control, whose atomics order the read after that of
\* the hook; nothing orders the resolve closure's, which a weak memory may
\* perform before it: then it finds an older handler, or none.
HandlersRead(d) == {tunHandler} \cup IF kind[d] = "resolve" THEN {seen[d]} ELSE {}

EnterHandler(d) ==
  /\ pc[d] = "hooked"
  /\ \E h \in HandlersRead(d) \ {None} :
       /\ at' = [at EXCEPT ![d] = h]
       /\ Acquire(d, h, "check", "hotQueued")
  /\ UNCHANGED <<lockVars, handlerVars, hooks, hostVars, arg, dialVars>>

NilHandler(d) ==
  /\ pc[d] = "hooked" /\ None \in HandlersRead(d)
  /\ Goto(d, "panic")
  /\ UNCHANGED <<lockVars, handlerVars, limitVars, hooks, hostVars, at, arg, dialVars>>

LeaveHandler(d) ==
  /\ shared' = [shared EXCEPT ![at[d]] = @ \ {d}]
  /\ at' = [at EXCEPT ![d] = None]
  /\ UNCHANGED <<lockVars, handlerVars, full, waiters, hooks, hostVars, arg>>

FoundClosed(d) ==
  /\ pc[d] = "check" /\ closed[at[d]]
  /\ LeaveHandler(d)
  /\ Goto(d, "skipped")
  /\ UNCHANGED dialVars

\* Mutant: closed is not checked again once the semaphore is held.
Upcall_Unchecked(d) ==
  /\ pc[d] = "check"
  /\ Goto(d, "upcall")
  /\ UNCHANGED <<lockVars, handlerVars, limitVars, hooks, hostVars, at, arg, dialVars>>

Upcall(d) ==
  /\ pc[d] = "check" /\ ~closed[at[d]]
  /\ Goto(d, "upcall")
  /\ UNCHANGED <<lockVars, handlerVars, limitVars, hooks, hostVars, at, arg, dialVars>>

UpcallReturns(d) ==
  /\ pc[d] = "upcall"
  /\ LeaveHandler(d)
  /\ EndDial(d)

EndSkipped(d) ==
  /\ pc[d] = "skipped"
  /\ EndDial(d)
  /\ UNCHANGED <<lockVars, handlerVars, limitVars, hooks, hostVars, at, arg>>

-----------------------------------------------------------------------------
CallStep(c) ==
  \/ CloseAcquire(c) \/ ClearHooks(c) \/ ClearListener(c) \/ ClearCallback(c)
  \/ ReleaseLimit(c) \/ NoTun(c) \/ InstallHandler(c) \/ StartAcquire(c)
  \/ InitHook(c) \/ OpenListener(c) \/ OpenFails(c) \/ UnlockRun(c) \/ UnlockTun(c)
  \/ Wake(c)

DialStep(d) ==
  \/ LookUpHook(d) \/ HookRefuses(d) \/ EnterHandler(d) \/ NilHandler(d) \/ FoundClosed(d)
  \/ Upcall(d) \/ UpcallReturns(d) \/ EndSkipped(d) \/ EndApply(d) \/ Wake(d)

CallerNext(c) ==
  \/ \E h \in Handlers : CallStartTun(c, h)
  \/ CallStopTun(c) \/ LockTun(c) \/ LockRun(c) \/ CallStep(c)

DialerNext(d) ==
  \/ \E k \in Kinds : BeginDial(d, k)
  \/ ApplyConfig(d) \/ DialStep(d)

ProcessDead == ~Alive /\ UNCHANGED vars

Next ==
  \/ \E c \in Callers : CallerNext(c)
  \/ \E d \in Dialers : DialerNext(d)
  \/ ProcessDead

Spec == Init /\ [][Next]_vars

\* Goroutines run, upcalls return, and a Go mutex hands itself to a starving
\* waiter; nobody is obliged to call, to dial or to apply a configuration.
\* A dial begun inside applyConfig is part of it.
Fairness ==
  /\ \A c \in Callers : /\ WF_vars(CallStep(c))
                        /\ SF_vars(LockTun(c))
                        /\ SF_vars(LockRun(c))
  /\ \A d \in Dialers : WF_vars(DialStep(d))
  /\ \A d \in Appliers : WF_vars(\E k \in Kinds : BeginDial(d, k))

FairSpec == Spec /\ Fairness

-----------------------------------------------------------------------------
CallerSteps == {"idle", "lockTun", "close", "closeQueued", "clear", "clearListener",
                "clearCallback", "release", "install", "lockRun", "acquire",
                "startQueued", "hook", "open", "unlockRun", "unlockTun"}
DialerSteps == {"idle", "apply", "begun", "hooked", "hotQueued", "check", "upcall",
                "skipped", "applied", "panic"}

TypeOK ==
  /\ tunLock \in Callers \cup {None}
  /\ runLock \in Threads \cup {None}
  /\ tunHandler \in Handlers \cup {None}
  /\ closed \in [Handlers -> BOOLEAN]
  /\ callback \in [Handlers -> BOOLEAN]
  /\ listener \in [Handlers -> BOOLEAN]
  /\ full \in [Handlers -> Callers \cup {None}]
  /\ shared \in [Handlers -> SUBSET Dialers]
  /\ waiters \in [Handlers -> Seq(Threads)]
  /\ hooks \in SUBSET Kinds
  /\ ref \in [Handlers -> {"none", "live", "released", "twice"}]
  /\ fd \in [Handlers -> {"none", "zero", "open", "lost", "closed"}]
  /\ pc \in [Threads -> CallerSteps \cup DialerSteps]
  /\ at \in [Threads -> Handlers \cup {None}]
  /\ arg \in [Callers -> Handlers \cup {None}]
  /\ kind \in [Dialers -> Kinds]
  /\ seen \in [Dialers -> Handlers \cup {None}]
  /\ lapse \in [Dialers -> BOOLEAN]

\* "A closed check after Acquire is race-free" (lib.go, TunHandler): a hot path
\* that calls up into the app does it on a handler whose global reference is
\* live, whatever stopTun and startTUN do meanwhile.
UpcallHoldsLiveRef ==
  \A d \in Dialers : pc[d] = "upcall" => callback[at[d]] /\ ref[at[d]] = "live"

\* No global reference is deleted twice, through all the paths that release
\* one: close, close again, a start that fails, a start with no descriptor.
RefReleasedOnce == \A h \in Handlers : ref[h] # "twice"

\* Nor is one leaked: a live reference belongs to a call still running or to
\* the handler in place, which the next startTUN or stopTun closes.
NoRefLeak ==
  \A h \in Handlers : ref[h] = "live" =>
    \/ \E c \in Callers : arg[c] = h
    \/ h = tunHandler /\ callback[h]

\* At most one TUN listener is open, it is that of the handler in place, and
\* between calls it is open exactly as long as the reference is held.
ListenerOwned ==
  \A h \in Handlers :
    /\ listener[h] => h = tunHandler
    /\ tunLock = None => (listener[h] <=> callback[h])

\* "Stop and clean up before the VpnService dies" (README.md, step 7): once
\* stopTun has returned and no start followed, no hook is in place and no
\* upcall into the app is under way or can begin.
QuietAfterStop ==
  tunLock = None /\ ~Serving =>
    /\ hooks = {}
    /\ \A d \in Dialers : pc[d] # "upcall"

\* A dial that goes unprotected, or a process left unnamed, met a moment at
\* which the bridge was not serving: an established VPN never skips a dial.
SkipOnlyInLapse == \A d \in Dialers : pc[d] = "skipped" => lapse[d]

\* The locks and the semaphore never strand anyone: every call of startTUN and
\* stopTun returns and every dial ends, with dials of applyConfig, under
\* runLock, in the way of a start that wants both (start takes runLock first).
EveryCallReturns == \A t \in Threads : pc[t] # "idle" ~> (pc[t] = "idle" \/ ~Alive)

\* "Takes ownership of [fd] ... [stopTun] closes it" (Clash.kt, startTun): a
\* descriptor still open belongs to a call under way or to the open listener of
\* the handler in place - except one that a failed start has lost.
DescriptorOwned ==
  \A h \in Handlers : fd[h] = "open" => (\E c \in Callers : arg[c] = h) \/ (listener[h] /\ h = tunHandler)

=============================================================================
