---------------------------- MODULE RuntimeProofs ----------------------------
(***************************************************************************)
(* Proofs about Runtime, for any number of callers, profiles and ports.    *)
(*                                                                         *)
(*   - Owner: who holds runLock is where the lock is held, and conversely, *)
(*     and only quickSetup marks the bridge running;                       *)
(*   - Loaded: a nil currentConfig is a moment inside applyConfig;         *)
(*   - Ordered: the group order follows currentConfig even in mid-call;    *)
(*   - Serves: with runLock free, only a quickSetup that has set isRunning *)
(*     and not yet applied excuses listeners that lag behind;              *)
(*   - Closes: what is open while stopped was opened astray, or a stop is  *)
(*     about to close it; a call that has found isRunning set meets no     *)
(*     stop before it opens, for it holds runLock, only a roll-back.       *)
(***************************************************************************)
EXTENDS Runtime, TLAPS

Owner == \A c \in Callers :
  /\ runLock = c <=> pc[c] \in {"parse", "apply", "refresh", "open", "cleanup"}
  /\ pc[c] = "markRunning" => op[c] = "quickSetup"

Loaded ==
  \A c \in Callers : pc[c] = "update" =>
    currentConfig # None \/ \E e \in Callers : pc[e] = "apply"

Ordered ==
  currentConfig # None => (currentConfig.from \in Grouped => order = currentConfig.from)

\* A quickSetup between its isRunning.Store(true) and the end of its setup.
Pending(c) ==
  /\ op[c] = "quickSetup"
  /\ pc[c] \in {"checkInit", "readFile", "parse", "apply", "rollback"}

Serves ==
  /\ runLock = None /\ isRunning /\ currentConfig # None =>
       served = currentConfig \/ \E c \in Callers : Pending(c)
  /\ \A c \in Callers : pc[c] = "cleanup" /\ isRunning => \E e \in Callers : Pending(e)

\* Neither what is open nor what is about to be is open against a stop.
Closes == ~isRunning =>
  /\ served # None => stray \/ \E c \in Callers : pc[c] = "cleanup"
  /\ \A c \in Callers : pc[c] = "open" => stray

Inv == TypeOK /\ Owner /\ Loaded /\ Ordered /\ Serves /\ Closes


-----------------------------------------------------------------------------
\* A process that has loaded nothing satisfies the invariant.
LEMMA InitInv == Init => Inv
BY NoneAssumption DEF Init, Inv, TypeOK, Owner, Loaded, Ordered, Serves, Closes, Labels

\* What applyConfig and updateConfig build is a configuration.
LEMMA ConfigTypes ==
  /\ \A contents \in Profiles \cup {"default"} : Fresh(contents) \in Configs
  /\ \A contents : TypeOK => Parsed(contents) \in Configs \cup {None}
  /\ TypeOK => Fallback \in Configs
BY DEF Fresh, Configs, Parsed, Fallback, TypeOK

\* Where a call begins holds no lock and is no update under way.
LEMMA EntryLabels ==
  \A o \in Ops : Entry[o] \in {"init", "checkInit", "start", "stop", "checkRunning", "reset"}
BY DEF Ops, Entry

\* Type correctness is kept by every stretch of every call.
LEMMA TypesStep ==
  ASSUME TypeOK, Owner, Loaded, [Next]_vars PROVE TypeOK'
<1> USE DEF TypeOK, Labels, flags

<1>1. ASSUME NEW c \in Callers, NEW o \in Ops, Call(c, o) PROVE TypeOK'
  BY <1>1, EntryLabels DEF Call
<1>2. ASSUME NEW c \in Callers, InitClash(c) PROVE TypeOK'
  BY <1>2 DEF InitClash, Goto, Answer
<1>3. ASSUME NEW c \in Callers, InitFails(c) PROVE TypeOK'
  BY <1>3 DEF InitFails, Answer
<1>4. ASSUME NEW c \in Callers, MarkRunning(c) PROVE TypeOK'
  BY <1>4 DEF MarkRunning, Goto
<1>5. ASSUME NEW c \in Callers, Rollback(c) PROVE TypeOK'
  BY <1>5 DEF Rollback, Answer
<1>6. ASSUME NEW c \in Callers, CheckInit(c) PROVE TypeOK'
  BY <1>6 DEF CheckInit, Fail, Goto, Answer
<1>7. ASSUME NEW c \in Callers, BadParams(c) PROVE TypeOK'
  BY <1>7 DEF BadParams, Fail, Goto, Answer
<1>8. ASSUME NEW c \in Callers, ReadConfig(c) PROVE TypeOK'
  BY <1>8 DEF ReadConfig
<1>9. ASSUME NEW c \in Callers, ParseConfig(c) PROVE TypeOK'
  BY <1>9, ConfigTypes DEF ParseConfig, Goto, Captured
<1>10. ASSUME NEW c \in Callers, ApplyConfig(c) PROVE TypeOK'
  BY <1>10, ConfigTypes DEF ApplyConfig, Fail, Goto, Answer
<1>11. ASSUME NEW c \in Callers, RefuseUpdate(c) PROVE TypeOK'
  BY <1>11 DEF RefuseUpdate, Answer
<1>12. ASSUME NEW c \in Callers, CheckConfig(c) PROVE TypeOK'
  BY <1>12 DEF CheckConfig, Goto
<1>13. ASSUME NEW c \in Callers, UpdateConfig(c) PROVE TypeOK'
  <2>1. currentConfig \in Configs
    BY <1>13, NoneAssumption DEF UpdateConfig, Owner, Loaded
  <2>2. \A p \in Ports : [currentConfig EXCEPT !.port = p] \in Configs
    BY <2>1 DEF Configs
  <2> QED BY <1>13, <2>1, <2>2 DEF UpdateConfig, Goto
<1>14. ASSUME NEW c \in Callers, FindRunning(c) PROVE TypeOK'
  BY <1>14 DEF FindRunning, Goto, Answer
<1>21. ASSUME NEW c \in Callers, OpenListeners(c) PROVE TypeOK'
  BY <1>21 DEF OpenListeners, Answer
<1>15. ASSUME NEW c \in Callers, StartListener(c) PROVE TypeOK'
  BY <1>15 DEF StartListener, Goto
<1>16. ASSUME NEW c \in Callers, StopListener(c) PROVE TypeOK'
  BY <1>16 DEF StopListener, Goto
<1>17. ASSUME NEW c \in Callers, Cleanup(c) PROVE TypeOK'
  BY <1>17 DEF Cleanup, Answer
<1>18. ASSUME NEW c \in Callers, CheckRunning(c) PROVE TypeOK'
  BY <1>18 DEF CheckRunning, Goto, Answer
<1>19. ASSUME NEW c \in Callers, ResetConnections(c) PROVE TypeOK'
  BY <1>19 DEF ResetConnections, Answer
<1>20. CASE UNCHANGED vars BY <1>20 DEF vars, flags
<1> QED
  BY <1>1, <1>2, <1>3, <1>4, <1>5, <1>6, <1>7, <1>8, <1>9, <1>10, <1>11,
     <1>12, <1>13, <1>14, <1>15, <1>16, <1>17, <1>18, <1>19, <1>20, <1>21 DEF Next, Locked, Step

\* runLock: a call is in a locked stretch iff it holds the lock.
LEMMA OwnerStep ==
  ASSUME TypeOK, Owner, [Next]_vars PROVE Owner'
<1> USE NoneAssumption DEF TypeOK, Owner

<1>1. ASSUME NEW c \in Callers, NEW o \in Ops, Call(c, o) PROVE Owner'
  BY <1>1, EntryLabels DEF Call
<1>2. ASSUME NEW c \in Callers, InitClash(c) PROVE Owner'
  BY <1>2 DEF InitClash, Goto, Answer
<1>3. ASSUME NEW c \in Callers, InitFails(c) PROVE Owner'
  BY <1>3 DEF InitFails, Answer
<1>4. ASSUME NEW c \in Callers, MarkRunning(c) PROVE Owner'
  BY <1>4 DEF MarkRunning, Goto
<1>5. ASSUME NEW c \in Callers, Rollback(c) PROVE Owner'
  BY <1>5 DEF Rollback, Answer
<1>6. ASSUME NEW c \in Callers, CheckInit(c) PROVE Owner'
  BY <1>6 DEF CheckInit, Fail, Goto, Answer
<1>7. ASSUME NEW c \in Callers, BadParams(c) PROVE Owner'
  BY <1>7 DEF BadParams, Fail, Goto, Answer
<1>8. ASSUME NEW c \in Callers, ReadConfig(c) PROVE Owner'
  BY <1>8 DEF ReadConfig
<1>9. ASSUME NEW c \in Callers, ParseConfig(c) PROVE Owner'
  BY <1>9 DEF ParseConfig, Goto
<1>10. ASSUME NEW c \in Callers, ApplyConfig(c) PROVE Owner'
  BY <1>10 DEF ApplyConfig, Fail, Goto, Answer
<1>11. ASSUME NEW c \in Callers, RefuseUpdate(c) PROVE Owner'
  BY <1>11 DEF RefuseUpdate, Answer
<1>12. ASSUME NEW c \in Callers, CheckConfig(c) PROVE Owner'
  BY <1>12 DEF CheckConfig, Goto
<1>13. ASSUME NEW c \in Callers, UpdateConfig(c) PROVE Owner'
  BY <1>13 DEF UpdateConfig, Goto
<1>14. ASSUME NEW c \in Callers, FindRunning(c) PROVE Owner'
  BY <1>14 DEF FindRunning, Goto, Answer
<1>21. ASSUME NEW c \in Callers, OpenListeners(c) PROVE Owner'
  BY <1>21 DEF OpenListeners, Answer
<1>15. ASSUME NEW c \in Callers, StartListener(c) PROVE Owner'
  BY <1>15 DEF StartListener, Goto
<1>16. ASSUME NEW c \in Callers, StopListener(c) PROVE Owner'
  BY <1>16 DEF StopListener, Goto
<1>17. ASSUME NEW c \in Callers, Cleanup(c) PROVE Owner'
  BY <1>17 DEF Cleanup, Answer
<1>18. ASSUME NEW c \in Callers, CheckRunning(c) PROVE Owner'
  BY <1>18 DEF CheckRunning, Goto, Answer
<1>19. ASSUME NEW c \in Callers, ResetConnections(c) PROVE Owner'
  BY <1>19 DEF ResetConnections, Answer
<1>20. CASE UNCHANGED vars BY <1>20 DEF vars, flags
<1> QED
  BY <1>1, <1>2, <1>3, <1>4, <1>5, <1>6, <1>7, <1>8, <1>9, <1>10, <1>11,
     <1>12, <1>13, <1>14, <1>15, <1>16, <1>17, <1>18, <1>19, <1>20, <1>21 DEF Next, Locked, Step

\* An update past its check meets a nil currentConfig only during an apply.
LEMMA LoadedStep ==
  ASSUME TypeOK, Owner, Loaded, [Next]_vars PROVE Loaded'
<1> USE NoneAssumption DEF TypeOK, Owner, Loaded

<1>1. ASSUME NEW c \in Callers, NEW o \in Ops, Call(c, o) PROVE Loaded'
  BY <1>1, EntryLabels DEF Call
<1>2. ASSUME NEW c \in Callers, InitClash(c) PROVE Loaded'
  BY <1>2 DEF InitClash, Goto, Answer
<1>3. ASSUME NEW c \in Callers, InitFails(c) PROVE Loaded'
  BY <1>3 DEF InitFails, Answer
<1>4. ASSUME NEW c \in Callers, MarkRunning(c) PROVE Loaded'
  BY <1>4 DEF MarkRunning, Goto
<1>5. ASSUME NEW c \in Callers, Rollback(c) PROVE Loaded'
  BY <1>5 DEF Rollback, Answer
<1>6. ASSUME NEW c \in Callers, CheckInit(c) PROVE Loaded'
  BY <1>6 DEF CheckInit, Fail, Goto, Answer
<1>7. ASSUME NEW c \in Callers, BadParams(c) PROVE Loaded'
  BY <1>7 DEF BadParams, Fail, Goto, Answer
<1>8. ASSUME NEW c \in Callers, ReadConfig(c) PROVE Loaded'
  BY <1>8 DEF ReadConfig
<1>9. ASSUME NEW c \in Callers, ParseConfig(c) PROVE Loaded'
  BY <1>9 DEF ParseConfig, Goto
<1>10. ASSUME NEW c \in Callers, ApplyConfig(c) PROVE Loaded'
  <2>1. currentConfig' \in Configs BY <1>10, ConfigTypes DEF ApplyConfig, TypeOK
  <2> QED BY <1>10, <2>1 DEF ApplyConfig, Fail, Goto, Answer
<1>11. ASSUME NEW c \in Callers, RefuseUpdate(c) PROVE Loaded'
  BY <1>11 DEF RefuseUpdate, Answer
<1>12. ASSUME NEW c \in Callers, CheckConfig(c) PROVE Loaded'
  BY <1>12 DEF CheckConfig, Goto
<1>13. ASSUME NEW c \in Callers, UpdateConfig(c) PROVE Loaded'
  <2>1. currentConfig' # None
    BY <1>13 DEF UpdateConfig, Configs
  <2> QED BY <1>13, <2>1 DEF UpdateConfig, Goto
<1>14. ASSUME NEW c \in Callers, FindRunning(c) PROVE Loaded'
  BY <1>14 DEF FindRunning, Goto, Answer
<1>21. ASSUME NEW c \in Callers, OpenListeners(c) PROVE Loaded'
  BY <1>21 DEF OpenListeners, Answer
<1>15. ASSUME NEW c \in Callers, StartListener(c) PROVE Loaded'
  BY <1>15 DEF StartListener, Goto
<1>16. ASSUME NEW c \in Callers, StopListener(c) PROVE Loaded'
  BY <1>16 DEF StopListener, Goto
<1>17. ASSUME NEW c \in Callers, Cleanup(c) PROVE Loaded'
  BY <1>17 DEF Cleanup, Answer
<1>18. ASSUME NEW c \in Callers, CheckRunning(c) PROVE Loaded'
  BY <1>18 DEF CheckRunning, Goto, Answer
<1>19. ASSUME NEW c \in Callers, ResetConnections(c) PROVE Loaded'
  BY <1>19 DEF ResetConnections, Answer
<1>20. CASE UNCHANGED vars BY <1>20 DEF vars, flags
<1> QED
  BY <1>1, <1>2, <1>3, <1>4, <1>5, <1>6, <1>7, <1>8, <1>9, <1>10, <1>11,
     <1>12, <1>13, <1>14, <1>15, <1>16, <1>17, <1>18, <1>19, <1>20, <1>21 DEF Next, Locked, Step

\* captureProxyGroupOrder and the parse that follows stay in step.
LEMMA OrderedStep ==
  ASSUME TypeOK, Owner, Loaded, Ordered, [Next]_vars PROVE Ordered'
<1> USE NoneAssumption, ProfilesAssumption DEF Ordered
<1>1. ASSUME NEW c \in Callers, ParseConfig(c) PROVE Ordered'
  BY <1>1 DEF ParseConfig, Parsed, Captured, Fresh, Broken
<1>2. ASSUME NEW c \in Callers, ApplyConfig(c) PROVE Ordered'
  BY <1>2 DEF ApplyConfig, Fallback, Fresh
<1>3. ASSUME NEW c \in Callers, UpdateConfig(c) PROVE Ordered'
  <2>1. currentConfig \in Configs
    BY <1>3 DEF UpdateConfig, TypeOK, Owner, Loaded
  <2>2. \A p \in Ports : [currentConfig EXCEPT !.port = p].from = currentConfig.from
    BY <2>1 DEF Configs
  <2> QED BY <1>3, <2>1, <2>2 DEF UpdateConfig
<1>4. CASE UNCHANGED <<currentConfig, order>> BY <1>4
<1>5. \/ UNCHANGED <<currentConfig, order>>
      \/ \E c \in Callers : ParseConfig(c) \/ ApplyConfig(c) \/ UpdateConfig(c)
  BY DEF Next, Locked, Step, vars, Call, InitClash, InitFails, MarkRunning, Rollback,
     CheckInit, BadParams, ReadConfig, RefuseUpdate, CheckConfig, FindRunning, OpenListeners, StartListener,
     StopListener, Cleanup, CheckRunning, ResetConnections
<1> QED BY <1>1, <1>2, <1>3, <1>4, <1>5

\* Only a caller that stops the listeners gets to "cleanup", and only its own
\* Cleanup takes it from there.
LEMMA CleanupStays ==
  ASSUME TypeOK, [Next]_vars, NEW e \in Callers
  PROVE  /\ pc'[e] = "cleanup" => pc[e] = "cleanup" \/ StopListener(e)
         /\ pc[e] = "cleanup" => pc'[e] = "cleanup" \/ Cleanup(e)
<1> USE EntryLabels DEF TypeOK, Call, InitClash, InitFails, MarkRunning, Rollback,
     CheckInit, BadParams, ReadConfig, ParseConfig, ApplyConfig, RefuseUpdate,
     CheckConfig, UpdateConfig, FindRunning, OpenListeners, StartListener, CheckRunning,
     ResetConnections, Goto, Answer, Fail
<1>1. CASE UNCHANGED vars BY <1>1 DEF vars
<1>2. ASSUME NEW c \in Callers, NEW o \in Ops, Call(c, o) PROVE pc'[e] = pc[e] \/ e = c
  BY <1>2
<1>3. ASSUME NEW c \in Callers, Locked(c) \/ Step(c) PROVE pc'[e] = pc[e] \/ e = c
  BY <1>3 DEF Locked, Step, StopListener, Cleanup
<1>4. ASSUME NEW o \in Ops, Call(e, o) PROVE pc[e] # "cleanup" /\ pc'[e] # "cleanup"
  BY <1>4
<1>5. ASSUME Locked(e) PROVE pc[e] # "cleanup" /\ (pc'[e] # "cleanup" \/ StopListener(e))
  BY <1>5 DEF Locked, StopListener
<1>6. ASSUME Step(e) PROVE pc'[e] # "cleanup" /\ (pc[e] # "cleanup" \/ Cleanup(e))
  BY <1>6 DEF Step, Cleanup
<1> HIDE DEF Call
<1> QED BY <1>1, <1>2, <1>3, <1>4, <1>5, <1>6 DEF Next

\* A pending quickSetup stays so until it has applied or rolled back.
LEMMA PendingStays ==
  ASSUME TypeOK, [Next]_vars, NEW e \in Callers, Pending(e)
  PROVE  Pending(e)' \/ ApplyConfig(e) \/ Rollback(e)
<1> USE EntryLabels DEF TypeOK, Pending, Call, InitClash, InitFails, MarkRunning,
     CheckInit, BadParams, ReadConfig, ParseConfig, RefuseUpdate,
     CheckConfig, UpdateConfig, FindRunning, OpenListeners, StartListener, StopListener, Cleanup,
     CheckRunning, ResetConnections, Goto, Answer, Fail
<1>1. CASE UNCHANGED vars BY <1>1 DEF vars
<1>2. ASSUME NEW c \in Callers, c # e, \/ \E o \in Ops : Call(c, o)
                                       \/ Locked(c) \/ Step(c)
      PROVE pc'[e] = pc[e] /\ op'[e] = op[e]
  BY <1>2 DEF Locked, Step, ApplyConfig, Rollback
<1>3. ASSUME NEW o \in Ops, Call(e, o) PROVE FALSE BY <1>3
<1>4. ASSUME Locked(e) PROVE Pending(e)' BY <1>4 DEF Locked
<1>5. ASSUME Step(e), ~ApplyConfig(e), ~Rollback(e) PROVE Pending(e)'
  BY <1>5 DEF Step
<1> HIDE DEF Call
<1> QED BY <1>1, <1>2, <1>3, <1>4, <1>5 DEF Next

\* Running, with nobody about to change it, means served.
LEMMA ServesStep ==
  ASSUME TypeOK, Owner, Serves, [Next]_vars PROVE Serves'
<1> USE NoneAssumption DEF Owner, Serves
<1>1. ASSUME NEW c \in Callers, ApplyConfig(c) PROVE Serves'
  BY <1>1, CleanupStays DEF ApplyConfig, flags, StopListener
<1>2. ASSUME NEW c \in Callers, Rollback(c) \/ StopListener(c) PROVE Serves'
  BY <1>2 DEF Rollback, StopListener
<1>3. ASSUME NEW c \in Callers, MarkRunning(c) PROVE Serves'
  BY <1>3 DEF MarkRunning, Goto, Pending, TypeOK
<1>4. ASSUME NEW c \in Callers, ReadConfig(c) \/ UpdateConfig(c) \/ StartListener(c)
      PROVE  Serves'
  BY <1>4, CleanupStays DEF ReadConfig, UpdateConfig, StartListener, StopListener
<1>5. ASSUME NEW c \in Callers, ParseConfig(c) PROVE Serves'
  BY <1>5, CleanupStays DEF ParseConfig, StopListener
<1>6. ASSUME NEW c \in Callers, FindRunning(c) \/ OpenListeners(c) PROVE Serves'
  <2>1. \A e \in Callers : pc[e] # "cleanup" /\ ~StopListener(e)
    BY <1>6 DEF FindRunning, OpenListeners, StopListener
  <2>2. \A e \in Callers : pc'[e] # "cleanup"
    BY <2>1, CleanupStays
  <2>3. CASE FindRunning(c)
    BY <2>2, <2>3 DEF FindRunning, flags
  <2>4. CASE OpenListeners(c)
    BY <2>2, <2>4 DEF OpenListeners, flags
  <2> QED BY <1>6, <2>3, <2>4
<1>7. ASSUME NEW c \in Callers, Cleanup(c) PROVE Serves'
  <2>1. \A e \in Callers : ~(ApplyConfig(e) \/ Rollback(e))
    BY <1>7 DEF Cleanup, ApplyConfig, Rollback
  <2> QED BY <1>7, <2>1, PendingStays DEF Cleanup, flags
<1>8. CASE /\ UNCHANGED <<runLock, isRunning, currentConfig, served>>
           /\ \A c \in Callers : ~(ApplyConfig(c) \/ Rollback(c) \/ StopListener(c))
  BY <1>8, CleanupStays, PendingStays
<1>9. \/ UNCHANGED <<runLock, isRunning, currentConfig, served>>
      \/ \E c \in Callers :
           \/ MarkRunning(c) \/ Rollback(c) \/ ReadConfig(c) \/ ParseConfig(c)
           \/ ApplyConfig(c) \/ UpdateConfig(c) \/ FindRunning(c)
           \/ OpenListeners(c) \/ StartListener(c)
           \/ StopListener(c) \/ Cleanup(c)
  BY DEF Next, Locked, Step, vars, flags, Call, InitClash, InitFails, CheckInit,
     BadParams, RefuseUpdate, CheckConfig, CheckRunning, ResetConnections
<1> QED BY <1>1, <1>2, <1>3, <1>4, <1>5, <1>6, <1>7, <1>8, <1>9

\* A caller gets to "open" by its own FindRunning, with isRunning set.
LEMMA OpenStays ==
  ASSUME TypeOK, [Next]_vars, NEW e \in Callers, pc'[e] = "open"
  PROVE  pc[e] = "open" \/ isRunning'
<1> USE EntryLabels DEF TypeOK, Call, InitClash, InitFails, MarkRunning, Rollback,
     CheckInit, BadParams, ReadConfig, ParseConfig, ApplyConfig, RefuseUpdate,
     CheckConfig, UpdateConfig, FindRunning, OpenListeners, StartListener,
     StopListener, Cleanup, CheckRunning, ResetConnections, Goto, Answer, Fail, flags
<1>1. CASE UNCHANGED vars BY <1>1 DEF vars
<1>2. ASSUME NEW c \in Callers, NEW o \in Ops, Call(c, o) PROVE pc[e] = "open"
  BY <1>2
<1>3. ASSUME NEW c \in Callers, Locked(c) PROVE pc[e] = "open"
  BY <1>3 DEF Locked
<1>4. ASSUME NEW c \in Callers, Step(c) PROVE pc[e] = "open" \/ isRunning'
  BY <1>4 DEF Step
<1> HIDE DEF Call
<1> QED BY <1>1, <1>2, <1>3, <1>4 DEF Next

\* Stopped and served, or about to be, means that the history variable tells why.
LEMMA ClosesStep ==
  ASSUME TypeOK, Owner, Closes, [Next]_vars PROVE Closes'
<1> USE DEF Closes
<1>1. ASSUME NEW c \in Callers, Cleanup(c) PROVE Closes'
  <2>1. \A d \in Callers : pc[d] # "open"
    BY <1>1, NoneAssumption DEF Cleanup, Owner
  <2> QED BY <1>1, <2>1, OpenStays DEF Cleanup
<1>2. ASSUME NEW c \in Callers, StopListener(c) PROVE Closes'
  <2>1. \A d \in Callers : pc[d] # "open"
    BY <1>2, NoneAssumption DEF StopListener, Owner
  <2> QED BY <1>2, <2>1 DEF StopListener, Goto, TypeOK
<1>3. ASSUME NEW c \in Callers, Rollback(c) \/ ApplyConfig(c) PROVE Closes'
  <2>1. \A e \in Callers : ~Cleanup(e)
    BY <1>3 DEF Rollback, ApplyConfig, Cleanup, Fail, Goto, Answer, TypeOK
  <2> QED BY <1>3, <2>1, CleanupStays, OpenStays DEF Rollback, ApplyConfig, flags
<1>4. ASSUME NEW c \in Callers, OpenListeners(c) PROVE Closes'
  <2>1. \A e \in Callers : ~Cleanup(e)
    BY <1>4 DEF OpenListeners, Cleanup, Answer, TypeOK
  <2> QED BY <1>4, <2>1, CleanupStays, OpenStays DEF OpenListeners, flags
<1>5. CASE /\ UNCHANGED <<served, stray>> /\ (isRunning' \/ UNCHANGED isRunning)
           /\ \A c \in Callers : ~Cleanup(c)
  BY <1>5, CleanupStays, OpenStays
<1>6. \/ UNCHANGED <<served, stray>> /\ (isRunning' \/ UNCHANGED isRunning)
      \/ \E c \in Callers : \/ Rollback(c) \/ ApplyConfig(c) \/ OpenListeners(c)
                             \/ StopListener(c) \/ Cleanup(c)
  BY DEF Next, Locked, Step, vars, flags, Call, InitClash, InitFails, MarkRunning,
     CheckInit, BadParams, ReadConfig, ParseConfig, RefuseUpdate, CheckConfig,
     UpdateConfig, FindRunning, StartListener, CheckRunning, ResetConnections
<1> QED BY <1>1, <1>2, <1>3, <1>4, <1>5, <1>6

\* The invariant all the theorems below rest on holds in every state of the
\* calls of common.go, config_apply.go, tunnel_state.go and lib.go.
THEOREM InvAlways == Spec => []Inv
<1>1. Inv /\ [Next]_vars => Inv'
  BY TypesStep, OwnerStep, LoadedStep, OrderedStep, ServesStep, ClosesStep DEF Inv
<1> QED BY InitInv, <1>1, PTL DEF Spec

\* Every variable keeps its type; the update of a port is defined only because
\* updateConfig finds a configuration.
THEOREM TypesCorrect == Spec => []TypeOK
<1>1. Inv => TypeOK BY DEF Inv
<1> QED BY InvAlways, <1>1, PTL

\* However setups, updates, starts and stops overlap, a bridge at rest that
\* says it is running serves the configuration in force.
THEOREM RunningServes == Spec => []RunningServesConfig
<1>1. Inv => RunningServesConfig
  BY DEF Inv, TypeOK, Owner, Serves, Pending, Quiet, RunningServesConfig
<1> QED BY InvAlways, <1>1, PTL

\* The check of currentConfig before runLock still holds under it.
THEOREM UpdateIsSafe == Spec => []UpdateFindsConfig
<1>1. Inv => UpdateFindsConfig
  BY NoneAssumption DEF Inv, TypeOK, Owner, Loaded, UpdateFindsConfig
<1> QED BY InvAlways, <1>1, PTL

\* The captured group order is that of the configuration in force.
THEOREM OrderIsCurrent == Spec => []OrderMatchesConfig
<1>1. Inv => OrderMatchesConfig BY DEF Inv, Ordered, OrderMatchesConfig
<1> QED BY InvAlways, <1>1, PTL

\* A stop closes the listeners, and what overlaps it does not open them again:
\* open while stopped were applied while stopped, or rolled back under.
THEOREM StopCloses == Spec => []OpenWhileStopped
<1>1. Inv => OpenWhileStopped BY DEF Inv, Closes, Quiet, OpenWhileStopped
<1> QED BY InvAlways, <1>1, PTL


=============================================================================
