------------------------------ MODULE Runtime -------------------------------
(***************************************************************************)
(* The configuration in force and the inbound listeners (common.go,        *)
(* config_apply.go, tunnel_state.go, lifecycle.go and the tails of         *)
(* quickSetup, startTUN and stopTun in lib.go).                            *)
(*                                                                         *)
(* runLock orders the calls that write the configuration, but isInit,      *)
(* isRunning and currentConfig are also read, and isRunning also written,  *)
(* outside it.  Each action below is one stretch between two such points.  *)
(*                                                                         *)
(* A configuration is the profile it was parsed from and the port a partial*)
(* update gave it; the port stands for all the fields updateConfig sets.   *)
(***************************************************************************)
EXTENDS Naturals

CONSTANTS
  Callers,   \* goroutines that run a call: an action, quickSetup, a TUN call
  Profiles,  \* contents of config.yaml that parse
  Grouped,   \* the profiles that name proxy groups
  Ports,     \* ports a partial update sets
  None       \* nil

\* The names of the contents below that are not profiles.
Broken == {"missing", "garbled", "rejected"}

ASSUME ProfilesAssumption ==
  /\ Grouped \subseteq Profiles
  /\ Profiles \cap (Broken \cup {"default"}) = {}

VARIABLES
  runLock,        \* the holder of runLock, or None
  isInit, isRunning,
  currentConfig,  \* None, or a configuration
  served,         \* the configuration the inbound listeners serve, None: closed
  order,          \* the contents proxyGroupOrder was captured from
  pc, op, read,   \* of each caller: where it is, its call, what it read of
                  \* config.yaml, which the app may rewrite at any time
  stray           \* history: since the last stop, was a configuration applied
                  \* while stopped, or listeners left open by a roll-back?

flags == <<isInit, isRunning>>
vars  == <<runLock, flags, currentConfig, served, order, pc, op, read, stray>>

Ops == {"initClash", "quickSetup", "setupConfig", "updateConfig", "startListener",
        "stopListener", "startTUN", "stopTun", "resetConnections"}

\* No file; not YAML; YAML that ParseRawConfig rejects; a good profile.
Contents == Broken \cup Profiles

Fresh(from) == [from |-> from, port |-> "own"]
Configs == [from : Profiles \cup {"default"}, port : Ports \cup {"own"}]

ASSUME NoneAssumption == None \notin Callers /\ None \notin Configs

Goto(c, label) ==
  /\ pc' = [pc EXCEPT ![c] = label]
  /\ UNCHANGED <<op, read>>

Answer(c) ==
  /\ pc' = [pc EXCEPT ![c] = "idle"]
  /\ op' = [op EXCEPT ![c] = None]
  /\ read' = [read EXCEPT ![c] = None]

Init ==
  /\ runLock = None
  /\ isInit = FALSE /\ isRunning = FALSE
  /\ currentConfig = None /\ served = None /\ order = None
  /\ pc = [c \in Callers |-> "idle"]
  /\ op = [c \in Callers |-> None]
  /\ read = [c \in Callers |-> None]
  /\ stray = FALSE

Entry == [initClash |-> "init", quickSetup |-> "init",
          setupConfig |-> "checkInit", updateConfig |-> "checkInit",
          startListener |-> "start", stopListener |-> "stop",
          startTUN |-> "checkRunning", stopTun |-> "checkRunning",
          resetConnections |-> "reset"]

Call(c, o) ==
  /\ pc[c] = "idle"
  /\ pc' = [pc EXCEPT ![c] = Entry[o]]
  /\ op' = [op EXCEPT ![c] = o]
  /\ UNCHANGED <<runLock, flags, currentConfig, served, order, read, stray>>

-----------------------------------------------------------------------------
(* handleInitClash and quickSetup.                                         *)

InitClash(c) ==
  /\ pc[c] = "init" /\ runLock = None
  /\ isInit' = TRUE
  /\ IF op[c] = "quickSetup" THEN Goto(c, "markRunning") ELSE Answer(c)
  /\ UNCHANGED <<runLock, isRunning, currentConfig, served, order, stray>>

\* The parameters do not parse; quickSetup answers "init failed".
InitFails(c) ==
  /\ pc[c] = "init" /\ runLock = None
  /\ Answer(c)
  /\ UNCHANGED <<runLock, flags, currentConfig, served, order, stray>>

\* quickSetup sets isRunning, outside runLock, before it sets up.
MarkRunning(c) ==
  /\ pc[c] = "markRunning"
  /\ isRunning' = TRUE
  /\ Goto(c, "checkInit")
  /\ UNCHANGED <<runLock, isInit, currentConfig, served, order, stray>>

\* The roll-back takes no runLock: listeners may be open, or another call may
\* have found isRunning set and be about to open them.
Rollback(c) ==
  /\ pc[c] = "rollback"
  /\ isRunning' = FALSE
  /\ stray' = (stray \/ served # None \/ \E d \in Callers : pc[d] = "open")
  /\ Answer(c)
  /\ UNCHANGED <<runLock, isInit, currentConfig, served, order>>

-----------------------------------------------------------------------------
(* handleSetupConfig and applyConfig.                                      *)

Fail(c) == IF op[c] = "quickSetup" THEN Goto(c, "rollback") ELSE Answer(c)

\* isInit is read outside runLock, by handleSetupConfig and handleUpdateConfig.
CheckInit(c) ==
  /\ pc[c] = "checkInit"
  /\ \/ ~isInit /\ Fail(c)
     \/ isInit /\ Goto(c, IF op[c] = "updateConfig" THEN "checkConfig" ELSE "readFile")
  /\ UNCHANGED <<runLock, flags, currentConfig, served, order, stray>>

\* The setup parameters do not parse.
BadParams(c) ==
  /\ pc[c] = "checkInit" /\ isInit /\ op[c] # "updateConfig"
  /\ Fail(c)
  /\ UNCHANGED <<runLock, flags, currentConfig, served, order, stray>>

ReadConfig(c) ==
  /\ pc[c] = "readFile" /\ runLock = None
  /\ runLock' = c
  /\ \E contents \in Contents : read' = [read EXCEPT ![c] = contents]
  /\ pc' = [pc EXCEPT ![c] = "parse"] /\ UNCHANGED op
  /\ UNCHANGED <<flags, currentConfig, served, order, stray>>

\* Mutant: an order is captured from a profile that names no group.
Captured_Always(contents) == TRUE

\* What captureProxyGroupOrder keeps; a rejected file may name groups.
Captured(contents) == contents \in Grouped \cup {"rejected"}

\* Mutant: a configuration that does not parse leaves the old one in place.
Parsed_KeepsOld(contents) ==
  IF contents \in Profiles THEN Fresh(contents) ELSE currentConfig

\* currentConfig, perr = ParseRawConfig(raw): nil when it is rejected.  A file
\* that cannot be read or is not YAML is not parsed at all.
Parsed(contents) ==
  CASE contents \in Profiles -> Fresh(contents)
    [] contents = "rejected" -> None
    [] OTHER -> currentConfig

ParseConfig(c) ==
  /\ pc[c] = "parse"
  /\ order' = IF Captured(read[c]) THEN read[c] ELSE order
  /\ currentConfig' = Parsed(read[c])
  /\ Goto(c, "apply")
  /\ UNCHANGED <<runLock, flags, served, stray>>

\* Mutant: no fallback to the embedded default.
Fallback_None == currentConfig

Fallback == IF currentConfig = None THEN Fresh("default") ELSE currentConfig

\* executor.ApplyConfig opens the inbound listeners whatever isRunning says.
ApplyConfig(c) ==
  /\ pc[c] = "apply"
  /\ currentConfig' = Fallback
  /\ served' = Fallback
  /\ runLock' = None
  /\ stray' = (stray \/ ~isRunning)
  /\ IF read[c] \in Profiles THEN Answer(c) ELSE Fail(c)
  /\ UNCHANGED <<flags, order>>

-----------------------------------------------------------------------------
(* handleUpdateConfig: the checks come before the lock.                    *)

\* Nothing is loaded, or the parameters do not parse: the call ends here.
RefuseUpdate(c) ==
  /\ pc[c] = "checkConfig"
  /\ Answer(c)
  /\ UNCHANGED <<runLock, flags, currentConfig, served, order, stray>>

CheckConfig(c) ==
  /\ pc[c] = "checkConfig" /\ currentConfig # None
  /\ Goto(c, "update")
  /\ UNCHANGED <<runLock, flags, currentConfig, served, order, stray>>

UpdateConfig(c) ==
  /\ pc[c] = "update" /\ runLock = None
  /\ runLock' = c
  /\ \E p \in Ports : currentConfig' = [currentConfig EXCEPT !.port = p]
  /\ Goto(c, "refresh")
  /\ UNCHANGED <<flags, served, order, stray>>

\* updateListeners, the tail of updateConfig and of handleStartListener: its
\* look at isRunning, which is stale once it is taken, and at currentConfig...
FindRunning(c) ==
  /\ pc[c] = "refresh"
  /\ IF isRunning /\ currentConfig # None
     THEN Goto(c, "open") /\ UNCHANGED runLock
     ELSE Answer(c) /\ runLock' = None
  /\ UNCHANGED <<flags, currentConfig, served, order, stray>>

\* Mutant: a listener already open is left as it is.
OpenListeners_OnlyIfClosed(c) ==
  /\ pc[c] = "open"
  /\ served' = IF served = None THEN currentConfig ELSE served
  /\ runLock' = None
  /\ Answer(c)
  /\ UNCHANGED <<flags, currentConfig, order, stray>>

\* ... and the opening, whatever isRunning has become.
OpenListeners(c) ==
  /\ pc[c] = "open"
  /\ served' = currentConfig
  /\ runLock' = None
  /\ Answer(c)
  /\ UNCHANGED <<flags, currentConfig, order, stray>>

-----------------------------------------------------------------------------
(* handleStartListener, handleStopListener, handleResetConnections, and    *)
(* the tails of startTUN and stopTun that choose between them.             *)

StartListener(c) ==
  /\ pc[c] = "start" /\ runLock = None
  /\ runLock' = c
  /\ isRunning' = TRUE
  /\ Goto(c, "refresh")
  /\ UNCHANGED <<isInit, currentConfig, served, order, stray>>

\* Mutant: isRunning is cleared and the listeners closed without runLock.
StopListener_NoLock(c) ==
  /\ pc[c] = "stop"
  /\ isRunning' = FALSE
  /\ Goto(c, "cleanup")
  /\ UNCHANGED <<runLock, isInit, currentConfig, served, order, stray>>

StopListener(c) ==
  /\ pc[c] = "stop" /\ runLock = None
  /\ runLock' = c
  /\ isRunning' = FALSE
  /\ Goto(c, "cleanup")
  /\ UNCHANGED <<isInit, currentConfig, served, order, stray>>

Cleanup(c) ==
  /\ pc[c] = "cleanup"
  /\ served' = None
  /\ stray' = FALSE
  /\ runLock' = None
  /\ Answer(c)
  /\ UNCHANGED <<flags, currentConfig, order>>

\* isRunning is read outside runLock: startTUN starts what is not running,
\* stopTun stops what is.
CheckRunning(c) ==
  /\ pc[c] = "checkRunning"
  /\ \/ op[c] = "startTUN" /\ Goto(c, IF isRunning THEN "reset" ELSE "start")
     \/ op[c] = "stopTun" /\ isRunning /\ Goto(c, "stop")
     \/ op[c] = "stopTun" /\ ~isRunning /\ Answer(c)
  /\ UNCHANGED <<runLock, flags, currentConfig, served, order, stray>>

\* resolver.ResetConnection keeps no state of the bridge; the lock is waited for.
ResetConnections(c) ==
  /\ pc[c] = "reset" /\ runLock = None
  /\ Answer(c)
  /\ UNCHANGED <<runLock, flags, currentConfig, served, order, stray>>

-----------------------------------------------------------------------------
Locked(c) ==
  \/ InitClash(c) \/ InitFails(c) \/ ReadConfig(c) \/ UpdateConfig(c)
  \/ StartListener(c) \/ StopListener(c) \/ ResetConnections(c)

Step(c) ==
  \/ MarkRunning(c) \/ Rollback(c) \/ CheckInit(c) \/ BadParams(c)
  \/ ParseConfig(c) \/ ApplyConfig(c) \/ RefuseUpdate(c) \/ CheckConfig(c)
  \/ FindRunning(c) \/ OpenListeners(c) \/ Cleanup(c) \/ CheckRunning(c)

Next ==
  \/ \E c \in Callers :
       \/ \E o \in Ops : Call(c, o)
       \/ Locked(c) \/ Step(c)

Spec == Init /\ [][Next]_vars

-----------------------------------------------------------------------------
Labels == {"idle", "init", "markRunning", "rollback", "checkInit", "readFile", "parse",
           "apply", "checkConfig", "update", "refresh", "open", "start", "stop",
           "cleanup", "checkRunning", "reset"}

TypeOK ==
  /\ runLock \in Callers \cup {None}
  /\ isInit \in BOOLEAN /\ isRunning \in BOOLEAN /\ stray \in BOOLEAN
  /\ currentConfig \in Configs \cup {None}
  /\ served \in Configs \cup {None}
  /\ order \in Grouped \cup {"rejected", None}
  /\ pc \in [Callers -> Labels]
  /\ op \in [Callers -> Ops \cup {None}]
  /\ read \in [Callers -> Contents \cup {None}]

\* No call is under way.
Quiet == \A c \in Callers : pc[c] = "idle"

\* Between calls, a bridge that says it is running serves the configuration in
\* force, whatever updates, setups, starts and stops overlapped before.
RunningServesConfig ==
  Quiet /\ isRunning /\ currentConfig # None => served = currentConfig

\* updateConfig checks currentConfig before it takes runLock and dereferences
\* it after: no applyConfig in between leaves it nil.
UpdateFindsConfig ==
  \A c \in Callers : pc[c] = "update" /\ runLock = None => currentConfig # None

\* The group order the app is shown is that of the configuration in force,
\* through files that cannot be read, do not parse, or name no group.
OrderMatchesConfig ==
  runLock = None /\ currentConfig # None =>
    (currentConfig.from \in Grouped => order = currentConfig.from)

\* A stop closes the inbound listeners, and no update or start that overlaps it
\* opens them again: while stopped they are open only when, since the last stop,
\* a configuration was applied while stopped, or quickSetup rolled back with
\* listeners open or about to be.
OpenWhileStopped ==
  Quiet /\ ~isRunning /\ served # None => stray

=============================================================================
