--------------------------- MODULE EventBusProofs ----------------------------
(***************************************************************************)
(* Proofs about EventBus, for any number of callers, workers, listeners    *)
(* and either stream.  The inductive invariant, Inv, is the conjunction of *)
(*                                                                         *)
(*   - Types: the types, and what a thread is about at each of its labels; *)
(*   - Bus: who holds eventListenerMu, and that an upcall is on the        *)
(*     listener in place;                                                  *)
(*   - Hands: the references of listeners: no two hands hold the same one, *)
(*     none holds the one in place;                                        *)
(*   - Mutex: who is past the lock of a stream holds it;                   *)
(*   - Running: the worker a stream can cancel is one of its own, and the  *)
(*     only one that runs.                                                 *)
(***************************************************************************)
EXTENDS EventBus, TLAPS

Setting   == {"lock", "drain", "release"}
Sending   == {"send", "upcall", "sent"}
Streamly  == {"lockStream", "await", "fresh"}
Answering == {"onResult", "deferred"}

Types ==
  /\ TypeOK
  /\ \A c \in Callers :
       /\ pc[c] \in {"idle"} \cup Setting \cup Sending \cup Streamly \cup Answering
       /\ pc[c] \in Setting => op[c] = "set" /\ arg[c] \in Listeners \cup {None}
       /\ pc[c] \in Sending => op[c] = "test"
       /\ pc[c] \in Streamly => op[c] \in {"start", "stop"} /\ arg[c] \in Streams
       /\ pc[c] \in Answering => op[c] \notin {"set", None}
  /\ \A w \in Workers : pc[w] \in {"unborn", "loop", "done"} \cup Sending

Bus ==
  /\ \A t \in Threads : announced = t <=> pc[t] = "drain"
  /\ readers = {t \in Threads : pc[t] \in {"upcall", "sent"}}
  /\ \A t \in Threads : pc[t] = "upcall" => arg[t] = eventListener /\ eventListener # None

Held(t) == pc[t] \in Setting /\ arg[t] # None

Hands ==
  /\ RefsOwned
  /\ \A t \in Threads : Held(t) => arg[t] # eventListener
  /\ \A t, u \in Threads : Held(t) /\ Held(u) /\ arg[t] = arg[u] => t = u

Mutex ==
  \A c \in Callers :
    /\ pc[c] \in {"await", "fresh"} => mu[arg[c]] = c
    /\ pc[c] = "fresh" => current[arg[c]] = None

Running ==
  /\ \A s \in Streams : current[s] # None => of[current[s]] = s /\ pc[current[s]] # "unborn"
  /\ \A w \in Workers : pc[w] # "unborn" => of[w] \in Streams
  /\ NeverOverlap

Inv == Types /\ Bus /\ Hands /\ Mutex /\ Running

-----------------------------------------------------------------------------
\* The initial state satisfies the invariant.
LEMMA InitInv == Init => Inv
<1> SUFFICES ASSUME Init PROVE Inv OBVIOUS
<1> USE ThreadsAssumption DEF Init, Threads, Refs
<1>1. TypeOK BY DEF TypeOK, Labels
<1>2. Types BY <1>1 DEF Types, Setting, Sending, Streamly, Answering
<1>3. Bus BY DEF Bus
<1>4. Hands BY DEF Hands, RefsOwned, Held, Setting
<1>5. Mutex BY DEF Mutex
<1>6. Running BY DEF Running, NeverOverlap
<1> QED BY <1>2, <1>3, <1>4, <1>5, <1>6 DEF Inv

\* The reference of a callback, or of a listener no call has in hand, is live
\* when it is released: nothing is released twice.
LEMMA DeletedTypes ==
  ASSUME TypeOK, NEW r \in Refs, ref[r] = "live"
  PROVE  Deleted(r) \in [Refs -> {"none", "live", "released"}]
BY DEF Deleted, TypeOK

\* Every step keeps the types, and what a thread is about at each label.
LEMMA TypesStep == ASSUME Inv, [Next]_vars PROVE Types'
<1> USE ThreadsAssumption
        DEF Inv, Types, TypeOK, Labels, Threads, Ops, Setting, Sending, Streamly, Answering,
            Goto, Return, Answer, busVars, streamVars
<1>1. ASSUME NEW c \in Callers, NEW l \in Listeners \cup {None}, CallSet(c, l) PROVE Types'
  BY <1>1 DEF CallSet
<1>2. ASSUME NEW c \in Callers, NEW o \in {"start", "stop"}, NEW s \in Streams, CallStream(c, o, s)
      PROVE  Types'
  BY <1>2 DEF CallStream, Invoke, Refs
<1>3. ASSUME NEW c \in Callers, CallTestGroups(c) PROVE Types'
  BY <1>3 DEF CallTestGroups, Invoke, Refs
<1>4. ASSUME NEW c \in Callers, NotSent(c) PROVE Types'
  BY <1>4 DEF NotSent, Invoke, Refs
<1>5. ASSUME NEW c \in Callers, NEW o \in {"other", "message", "garbled"}, CallOther(c, o) PROVE Types'
  BY <1>5 DEF CallOther, Invoke, Refs
<1>6. ASSUME NEW w \in Workers, Receive(w) PROVE Types' BY <1>6 DEF Receive
<1>7. ASSUME NEW w \in Workers, Finish(w) PROVE Types' BY <1>7 DEF Finish
<1>8. ASSUME NEW t \in Threads, RLock(t) PROVE Types' BY <1>8 DEF RLock
<1>9. ASSUME NEW t \in Threads, Announce(t) PROVE Types' BY <1>9 DEF Announce
<1>10. ASSUME NEW c \in Callers, LockStream(c) PROVE Types'
  <2>1. current[arg[c]] \in Workers \cup {None} BY <1>10 DEF LockStream
  <2>2. stopped' \in SUBSET Workers BY <1>10, <2>1 DEF LockStream
  <2> QED BY <1>10, <2>2 DEF LockStream
<1>11. ASSUME NEW t \in Threads, SetListener(t) PROVE Types' BY <1>11 DEF SetListener
<1>12. ASSUME NEW t \in Threads, ReleaseOld(t) PROVE Types'
  <2>1. t \in Callers BY <1>12 DEF ReleaseOld
  <2>2. ref' \in [Refs -> {"none", "live", "released"}]
    <3>1. CASE arg[t] = None BY <1>12, <3>1 DEF ReleaseOld
    <3>2. CASE arg[t] # None
      <4>1. arg[t] \in Listeners BY <1>12, <2>1, <3>2 DEF ReleaseOld
      <4>2. ref[arg[t]] = "live" BY <1>12, <4>1 DEF Hands, RefsOwned, ReleaseOld
      <4> QED BY <1>12, <3>2, <4>1, <4>2, DeletedTypes DEF ReleaseOld, Refs
    <3> QED BY <3>1, <3>2
  <2> QED BY <1>12, <2>1, <2>2 DEF ReleaseOld
<1>13. ASSUME NEW t \in Threads, UpcallReturns(t) PROVE Types' BY <1>13 DEF UpcallReturns
<1>14. ASSUME NEW t \in Threads, RUnlock(t) PROVE Types' BY <1>14 DEF RUnlock
<1>15. ASSUME NEW c \in Callers, AwaitDone(c) PROVE Types' BY <1>15 DEF AwaitDone
<1>16. ASSUME NEW c \in Callers, StartNothing(c) PROVE Types' BY <1>16 DEF StartNothing
<1>17. ASSUME NEW c \in Callers, NEW w \in Workers, StartWorker(c, w) PROVE Types'
  BY <1>17 DEF StartWorker
<1>18. ASSUME NEW c \in Callers, OnResultReturns(c) PROVE Types' BY <1>18 DEF OnResultReturns
<1>19. ASSUME NEW c \in Callers, ReleaseCallback(c) PROVE Types'
  <2>1. ref[c] = "live" BY <1>19 DEF ReleaseCallback, Hands, RefsOwned
  <2>2. Deleted(c) \in [Refs -> {"none", "live", "released"}] BY <2>1, DeletedTypes DEF Refs
  <2> QED BY <1>19, <2>2 DEF ReleaseCallback
<1>20. CASE UNCHANGED vars BY <1>20 DEF vars
<1> QED
  BY <1>1, <1>2, <1>3, <1>4, <1>5, <1>6, <1>7, <1>8, <1>9, <1>10, <1>11, <1>12, <1>13, <1>14,
     <1>15, <1>16, <1>17, <1>18, <1>19, <1>20 DEF Next, Lock, Go

\* Whoever holds eventListenerMu is at the label that says so; an upcall holds it
\* for reading, so that the listener it is on stays in place.
LEMMA BusStep == ASSUME Inv, [Next]_vars PROVE Bus'
<1> USE ThreadsAssumption
        DEF Inv, Types, TypeOK, Bus, Threads, Setting, Sending, Streamly, Answering,
            Goto, Return, Answer, busVars, streamVars
<1>1. ASSUME NEW c \in Callers, NEW l \in Listeners \cup {None}, CallSet(c, l) PROVE Bus'
  BY <1>1 DEF CallSet
<1>2. ASSUME NEW c \in Callers, NEW o \in {"start", "stop"}, NEW s \in Streams, CallStream(c, o, s)
      PROVE  Bus'
  BY <1>2 DEF CallStream, Invoke
<1>3. ASSUME NEW c \in Callers, CallTestGroups(c) PROVE Bus'
  BY <1>3 DEF CallTestGroups, Invoke
<1>4. ASSUME NEW c \in Callers, NotSent(c) PROVE Bus'
  BY <1>4 DEF NotSent, Invoke
<1>5. ASSUME NEW c \in Callers, NEW o \in {"other", "message", "garbled"}, CallOther(c, o) PROVE Bus'
  BY <1>5 DEF CallOther, Invoke
<1>6. ASSUME NEW w \in Workers, Receive(w) PROVE Bus' BY <1>6 DEF Receive
<1>7. ASSUME NEW w \in Workers, Finish(w) PROVE Bus' BY <1>7 DEF Finish
<1>8. ASSUME NEW t \in Threads, RLock(t) PROVE Bus' BY <1>8 DEF RLock
<1>9. ASSUME NEW t \in Threads, Announce(t) PROVE Bus' BY <1>9 DEF Announce
<1>10. ASSUME NEW c \in Callers, LockStream(c) PROVE Bus' BY <1>10 DEF LockStream
<1>11. ASSUME NEW t \in Threads, SetListener(t) PROVE Bus' BY <1>11 DEF SetListener
<1>12. ASSUME NEW t \in Threads, ReleaseOld(t) PROVE Bus' BY <1>12 DEF ReleaseOld
<1>13. ASSUME NEW t \in Threads, UpcallReturns(t) PROVE Bus' BY <1>13 DEF UpcallReturns
<1>14. ASSUME NEW t \in Threads, RUnlock(t) PROVE Bus' BY <1>14 DEF RUnlock
<1>15. ASSUME NEW c \in Callers, AwaitDone(c) PROVE Bus' BY <1>15 DEF AwaitDone
<1>16. ASSUME NEW c \in Callers, StartNothing(c) PROVE Bus' BY <1>16 DEF StartNothing
<1>17. ASSUME NEW c \in Callers, NEW w \in Workers, StartWorker(c, w) PROVE Bus'
  BY <1>17 DEF StartWorker
<1>18. ASSUME NEW c \in Callers, OnResultReturns(c) PROVE Bus' BY <1>18 DEF OnResultReturns
<1>19. ASSUME NEW c \in Callers, ReleaseCallback(c) PROVE Bus' BY <1>19 DEF ReleaseCallback
<1>20. CASE UNCHANGED vars BY <1>20 DEF vars
<1> QED
  BY <1>1, <1>2, <1>3, <1>4, <1>5, <1>6, <1>7, <1>8, <1>9, <1>10, <1>11, <1>12, <1>13, <1>14,
     <1>15, <1>16, <1>17, <1>18, <1>19, <1>20 DEF Next, Lock, Go

\* Calls, answers and upcalls: the steps that leave listeners, hands and streams.
Elsewhere ==
  \/ \E c \in Callers :
       \/ \E o \in {"start", "stop"}, s \in Streams : CallStream(c, o, s)
       \/ \E o \in {"other", "message", "garbled"} : CallOther(c, o)
       \/ CallTestGroups(c) \/ NotSent(c) \/ OnResultReturns(c) \/ ReleaseCallback(c)
  \/ \E t \in Threads : RLock(t) \/ UpcallReturns(t) \/ RUnlock(t)
  \/ \E w \in Workers : Receive(w)
  \/ UNCHANGED vars

OnStreams(c) ==
  LockStream(c) \/ AwaitDone(c) \/ StartNothing(c) \/ \E w \in Workers : StartWorker(c, w)

OnListener(t) ==
  Announce(t) \/ SetListener(t) \/ ReleaseOld(t) \/ \E l \in Listeners \cup {None} : CallSet(t, l)

\* Every step is of one of these kinds.
LEMMA Kinds ==
  [Next]_vars => \/ Elsewhere
                 \/ \E c \in Callers : OnStreams(c)
                 \/ \E t \in Threads : OnListener(t)
                 \/ \E w \in Workers : Finish(w)
BY DEF Next, Lock, Go, Elsewhere, OnStreams, OnListener, Threads

\* The lock of a stream is held from LockStream to the end of its call.
LEMMA MutexStep == ASSUME Inv, [Next]_vars PROVE Mutex'
<1> USE ThreadsAssumption
        DEF Inv, Types, TypeOK, Mutex, Threads, Setting, Sending, Streamly, Answering,
            Goto, Return, Answer, busVars, streamVars
<1>1. CASE Elsewhere
  BY <1>1 DEF Elsewhere, CallStream, CallTestGroups, CallOther, NotSent, Invoke, RLock, UpcallReturns, RUnlock,
              OnResultReturns, ReleaseCallback, Receive, vars
<1>2. ASSUME NEW t \in Threads, OnListener(t) PROVE Mutex'
  BY <1>2 DEF OnListener, CallSet, Announce, SetListener, ReleaseOld
<1>3. ASSUME NEW c \in Callers, LockStream(c) PROVE Mutex' BY <1>3 DEF LockStream
<1>4. ASSUME NEW c \in Callers, AwaitDone(c) PROVE Mutex' BY <1>4 DEF AwaitDone
<1>5. ASSUME NEW c \in Callers, StartNothing(c) PROVE Mutex' BY <1>5 DEF StartNothing
<1>6. ASSUME NEW c \in Callers, NEW w \in Workers, StartWorker(c, w) PROVE Mutex'
  BY <1>6 DEF StartWorker
<1>7. ASSUME NEW w \in Workers, Finish(w) PROVE Mutex' BY <1>7 DEF Finish
<1> QED BY <1>1, <1>2, <1>3, <1>4, <1>5, <1>6, <1>7, Kinds DEF OnStreams

\* A worker is only cancelled for good once it is done, and only started where
\* there is none: one of a stream runs at a time.
LEMMA RunningStep == ASSUME Inv, [Next]_vars PROVE Running'
<1> USE ThreadsAssumption
        DEF Inv, Types, TypeOK, Running, NeverOverlap, Threads, Setting, Sending, Streamly, Answering,
            Goto, Return, Answer, busVars, streamVars
<1>1. CASE Elsewhere
  BY <1>1 DEF Elsewhere, CallStream, CallTestGroups, CallOther, NotSent, Invoke, RLock, UpcallReturns, RUnlock,
              OnResultReturns, ReleaseCallback, Receive, vars
<1>2. ASSUME NEW t \in Threads, OnListener(t) PROVE Running'
  BY <1>2 DEF OnListener, CallSet, Announce, SetListener, ReleaseOld
<1>3. ASSUME NEW c \in Callers, LockStream(c) PROVE Running' BY <1>3 DEF LockStream
<1>4. ASSUME NEW c \in Callers, AwaitDone(c) PROVE Running' BY <1>4 DEF AwaitDone, Mutex
<1>5. ASSUME NEW c \in Callers, StartNothing(c) PROVE Running' BY <1>5 DEF StartNothing
<1>6. ASSUME NEW c \in Callers, NEW w \in Workers, StartWorker(c, w) PROVE Running'
  BY <1>6 DEF StartWorker, Mutex
<1>7. ASSUME NEW w \in Workers, Finish(w) PROVE Running' BY <1>7 DEF Finish
<1> QED BY <1>1, <1>2, <1>3, <1>4, <1>5, <1>6, <1>7, Kinds DEF OnStreams

\* The listeners' references: live in place and in one hand each, and then no
\* longer; and those of the callbacks of actions.
LEMMA HandsStep == ASSUME Inv, [Next]_vars PROVE Hands'
<1> USE ThreadsAssumption
        DEF Inv, Types, TypeOK, Hands, RefsOwned, Held, Refs, Threads, Setting, Sending, Streamly, Answering,
            Goto, Return, Answer, busVars, streamVars
<1>1. CASE Elsewhere
  <2>1. ASSUME NEW c \in Callers, NEW o \in Ops \ {"set"}, NEW about \in Streams \cup {None},
               Invoke(c, o, about), pc[c] = "idle", pc'[c] \notin Setting,
               \A t \in Threads \ {c} : pc'[t] = pc[t]
        PROVE  Hands'
    BY <2>1 DEF Invoke, Ops
  <2>2. ASSUME NEW c \in Callers, ReleaseCallback(c) PROVE Hands'
    BY <2>2 DEF ReleaseCallback, Deleted
  <2>3. ASSUME NEW t \in Threads, RLock(t) \/ UpcallReturns(t) \/ RUnlock(t) PROVE Hands'
    BY <2>3 DEF RLock, UpcallReturns, RUnlock
  <2>4. ASSUME NEW w \in Workers, Receive(w) PROVE Hands' BY <2>4 DEF Receive
  <2>5. ASSUME NEW c \in Callers, OnResultReturns(c) PROVE Hands' BY <2>5 DEF OnResultReturns
  <2>6. CASE UNCHANGED vars BY <2>6 DEF vars
  <2>7. ASSUME NEW c \in Callers, NEW o \in {"start", "stop"}, NEW s \in Streams, CallStream(c, o, s)
        PROVE  Hands'
    BY <2>1, <2>7 DEF CallStream, Ops, Invoke
  <2>8. ASSUME NEW c \in Callers, NEW o \in {"other", "message", "garbled"}, CallOther(c, o)
        PROVE  Hands'
    BY <2>1, <2>8 DEF CallOther, Ops, Invoke
  <2>9. ASSUME NEW c \in Callers, CallTestGroups(c) PROVE Hands'
    BY <2>1, <2>9 DEF CallTestGroups, Ops, Invoke
  <2>10. ASSUME NEW c \in Callers, NotSent(c) PROVE Hands'
    BY <2>1, <2>10 DEF NotSent, Ops, Invoke
  <2> QED
    BY <1>1, <2>2, <2>3, <2>4, <2>5, <2>6, <2>7, <2>8, <2>9, <2>10 DEF Elsewhere
<1>2. ASSUME NEW c \in Callers, OnStreams(c) PROVE Hands'
  BY <1>2 DEF OnStreams, LockStream, AwaitDone, StartNothing, StartWorker
<1>3. ASSUME NEW w \in Workers, Finish(w) PROVE Hands' BY <1>3 DEF Finish
<1>4. ASSUME NEW t \in Threads, Announce(t) PROVE Hands' BY <1>4 DEF Announce
<1>5. ASSUME NEW t \in Threads, SetListener(t) PROVE Hands' BY <1>5 DEF SetListener
<1>6. ASSUME NEW t \in Threads, ReleaseOld(t) PROVE Hands' BY <1>6 DEF ReleaseOld, Deleted
<1>7. ASSUME NEW c \in Callers, NEW l \in Listeners \cup {None}, CallSet(c, l) PROVE Hands'
  BY <1>7 DEF CallSet
<1> QED BY <1>1, <1>2, <1>3, <1>4, <1>5, <1>6, <1>7, Kinds DEF OnListener, CallSet

-----------------------------------------------------------------------------
\* Every state of the bus satisfies the invariant: the locks are held by those
\* whose label says so, and every reference has one owner.
THEOREM InvAlways == Spec => []Inv
<1>1. Inv /\ [Next]_vars => Inv' BY TypesStep, BusStep, HandsStep, MutexStep, RunningStep DEF Inv
<1> QED BY InitInv, <1>1, PTL DEF Spec

\* sendMessage (lib.go) only calls up on the listener in place, whose reference is
\* live, and no action is answered on a callback that was released.
THEOREM UpcallsOnLiveRefs == Spec => []UpcallOnLiveRef
<1>1. Inv => UpcallOnLiveRef
  BY ThreadsAssumption DEF Inv, Types, TypeOK, Bus, Hands, RefsOwned, UpcallOnLiveRef, Answering, Threads
<1> QED BY InvAlways, <1>1, PTL

\* setEventListener and the actions release what was handed to them once, and
\* nothing that is still in use.
THEOREM RefsAlwaysOwned == Spec => []RefsOwned
<1>1. Inv => RefsOwned BY DEF Inv, Hands
<1> QED BY InvAlways, <1>1, PTL

\* A restarted stream never has two goroutines (log_stream.go, connections.go).
THEOREM StreamsNeverOverlap == Spec => []NeverOverlap
<1>1. Inv => NeverOverlap BY DEF Inv, Running
<1> QED BY InvAlways, <1>1, PTL

=============================================================================
