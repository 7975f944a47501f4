# libmihomo-android in TLA+

libmihomo-android packs the mihomo proxy core (Go) behind a Kotlin facade: the
app calls `Clash.*`, a C++ shim turns the call into a call of an exported Go
function, and Go calls back into the app through global JNI references. The
code of this repository is the bridge; mihomo itself is a submodule whose
source is not part of it. These modules specify the bridge: what its
goroutines, the app's threads and mihomo's goroutines may do to the state they
share, in which order, and what holds throughout.

Paths below are under `src/main/jni/core/` unless they begin otherwise.

## The system

| Part | Code | State it keeps | Operations | What is hard | What makes it correct |
|---|---|---|---|---|---|
| TUN handler | `lib.go`, `tun/tun.go` | `tunHandler`, its `listener`, `callback`, `closed`, semaphore `limit`; mihomo's two hook variables; `tunLock` | `startTUN`, `stopTun`, hot paths `protect`, `resolverProcess` | hot paths read the hooks and `tunHandler` with no lock while a stop tears them down; three locks | no upcall on a released reference, each released once, silence after a stop, no call stranded |
| Configuration and listeners | `common.go`, `config_apply.go`, `tunnel_state.go`, `lifecycle.go` | `currentConfig`, `isInit`, `isRunning`, `proxyGroupOrder`; `runLock`; mihomo's inbound listeners | `initClash`, `quickSetup`, `setupConfig`, `updateConfig`, `startListener`, `stopListener`, `resetConnections` | flags read and written outside `runLock`; setups that fail half way | a running bridge serves the configuration in force; an update never meets a nil one |
| DNS history | `dnsquery/dnsquery.go` | ring buffer; `resolver.DefaultService` | `ServeMsg`, `Install`, `Snapshot`, `Clear` | the service is replaced by every apply with queries in flight; wrap-around | last queries, newest first, each recorded once |
| Event listener | `lib.go` | `eventListener` under an `RWMutex`, its JNI reference | `setEventListener`, `sendMessage` | replaced while goroutines deliver events to it | no delivery to a released listener, each released once |
| Streams | `log_stream.go`, `connections.go` | the worker of each stream, under a mutex | `startLog`, `stopLog`, `subscribeConnections`, `unsubscribeConnections` | a restart waits for a worker that may be inside an upcall | one worker of a stream at a time; no call stranded |
| Group tests | `groups_delay.go`, `grouptest/` | per test: done channels, delays; `pickMu` | `testGroups`, `changeProxy` | nested groups wait for each other; the user pins while a test runs | children before parents, no circular wait, a pin stays |
| URL test slots | `proxies.go` | semaphore of 256 slots | `testDelay` | a stalled test keeps its slot past its deadline; a grant races the end of the wait, a result the deadline | slots accounted for, an answer in time and never a late delay |
| Actions | `action.go`, `lib.go`, `src/main/cpp/native-lib.cpp` | one global reference per call | `invokeAction` (some forty methods) | error paths that answer and do not release | one answer, one release |
| Log bridge | `log_bridge.go` | channel of 1024, `dropCount` | `dispatch`, `dispatchLoop` and its respawn | several producers drop the oldest while the loop drains; a sink panics | every event routed or counted as dropped, nobody waits for a sink |
| File sink | `log_file.go`, `log_bridge.go` | file, path, size, enabled | write, rotate, `setLogFilePath`, `setFileEnabled` | failures and kills in the middle of a rotation; the gate is read and set outside the lock | lines in order, files past the limit by less than a line, recent lines kept, closed only when the disk failed |
| Geo updater | `geo_update.go`, `geo_data.go` | a once, file times | `geoUpdateLoop`, `updateGeoData`, `sideLoadExternalProvider` | settings read under the lock and used after it | one loop, no check lost |
| All locks together | all of the above | `tunLock`, `runLock`, `limit`, `eventListenerMu`, `pickMu`, the streams' mutexes | every call, and the app's calls from inside an upcall | no circle of waits |
| Selections | `selection/selection.go` | none of its own | `Apply` | a pin that is taken back | a pin the group accepts |
| Platform | `platform/` | none: reads `/proc` and the rlimit | `ShouldBlockConnection`, `QuerySocketUidFromProcFs` | - | - |
| Providers, probes, files | `providers.go`, `probe.go`, `file_ops.go` | none | thin calls into mihomo and the file system | - | - |
| JNI shim, Kotlin facade | `src/main/cpp/`, `src/main/kotlin/` | method ids; a loaded flag | one native method per export | references made here are released in Go | covered where they are used |

How the parts meet:

- `startTUN` and `stopTun` end in the configuration part: they start, stop or
  reset the inbound listeners according to `isRunning`. `TunHandler.start` holds
  `runLock`, the configuration's lock, while it opens the TUN.
- A configuration apply dials (it downloads providers), and every dial passes
  through the TUN handler's hooks.
- Every apply replaces the resolver service, and `Install` puts the DNS recorder
  around the new one.
- Log lines, connection snapshots and group delays go to the app through
  `sendMessage`.
- The log bus, apart from that, takes what mihomo, the standard streams and the
  app log to logcat and to the log file; its loop is the only one that writes
  and rotates that file.
- Every wait above may meet an upcall, and an app may call the bridge from
  inside one: the locks of all parts form one system.

## Modules

Every definition that stands for code is listed with its lines in
`PROJECT.json` under `map`. A thread or goroutine is a model value with a label
in `pc`; an action is the stretch of code between two points where another
thread can see or change something: a lock, a semaphore, an atomic or a plain
variable read without a lock, an upcall. Definitions named `X_Something` are
plausible bugs put beside the definition `X`; the runs must notice them.

### TunHandler (with MCTunHandler, MCTunHandlerLive, TunHandlerProofs)

`Callers` are the app's threads in `startTUN` and `stopTun`; `Dialers` are
mihomo's goroutines that open sockets; those in `Appliers` do so within
`applyConfig`, holding `runLock`. One member of `Handlers` is one call of
`startTUN`: its descriptor, its JNI reference and its `TunHandler` struct.

| Code | Actions |
|---|---|
| JNI entry: `new_global`, then Go | `CallStartTun`, `CallStopTun` |
| `tunLock.Lock`, `stopTunLocked` | `LockTun` |
| `close`, `clear` (flag and hooks; listener; reference) | `CloseAcquire`, `ClearHooks`, `ClearListener`, `ClearCallback`, `ReleaseLimit` |
| `handleStartTun` with `fd == 0`, or not | `NoTun`, `InstallHandler` |
| `start` | `LockRun`, `StartAcquire`, `InitHook`, `OpenListener` or `OpenFails` (then `clear`), `ReleaseLimit`, `UnlockRun`, `UnlockTun` |
| a dial: hook variable read, closure, handler read, `Acquire`, `closed` check, upcall | `BeginDial`, `LookUpHook`, `HookRefuses`, `EnterHandler` or `NilHandler`, `FoundClosed` or `Upcall`, `UpcallReturns`, `EndSkipped` |

The semaphore (`Fits`, `Hold`, `Acquire`, `Wake`) follows
`golang.org/x/sync/semaphore`: a request that does not fit, or comes behind
others, queues, and the queue is served in order.

Undefined behaviour: the hooks and `tunHandler` are plain variables. The protect
closure reads `tunHandler` inside `RawConn.Control`, whose atomic operations
order it after the read of the hook. Nothing orders the resolve closure's read,
so `HandlersRead` lets it see the handler of the moment the dial began. If that
is nil the process panics: `NilHandler`, after which nothing moves. That
outcome is not excluded by a property; it is a hazard of the code, in the list.

`MCTunHandlerLive` is the instance for liveness. Two calls of `startTUN` are needed
there: only when a TUN with hooks in place is started again can an apply, holding
`runLock`, wait at the semaphore of a handler whose `start` waits for `runLock`. To
keep that small without symmetry, `WithinBounds` lets `First` come first, `Starters`
start and the other callers only stop, and `AtOnce` threads be at work at a time. No
fair action takes a thread out of `idle`, so these bounds take no step from anybody
to whom fairness promises one.

### Runtime (with MCRuntime, RuntimeProofs)

`Callers` are goroutines that run one of nine calls (`Ops`). A configuration is
the profile it was parsed from and the port a partial update gave it (the port
stands for every field `updateConfig` sets). `config.yaml` may be missing,
not YAML (`garbled`), YAML that `ParseRawConfig` rejects (`rejected`), or a
profile, and may change between any two reads. `served` is what the inbound
listeners serve: `executor.ApplyConfig` opens them whatever `isRunning` says,
`updateListeners` only when it is set, `listener.Cleanup` closes them. Actions
are split where the code leaves `runLock` or touches `isInit`, `isRunning` or
`currentConfig` outside it, and between `updateListeners`' read of `isRunning`
(`FindRunning`) and the opening of the listeners (`OpenListeners`): a `quickSetup` sets
and clears the flag without `runLock`, so that the value read may be stale by then.
`stray` is a history variable: since the last stop a configuration was applied while
not running, or a roll-back cleared the flag with listeners open or about to be
opened.

### DnsHistory, DnsLog (with LogsProofs)

`DnsHistory` is the abstract specification: a sequence of at most `Capacity`
queries, newest first, with `Record` and `Forget`. `DnsLog` is the code: the
ring of `entries`, `next` and `full`; `resolver.DefaultService` as the number of
recorders around it; queries that keep the service they were put to.
`KeepsHistory` is the refinement, with `Snapshot` as the mapping. The names that
every specification has are `DnsInit`, `DnsNext`, `DnsSpec`, `DnsTypeOK` here, since one
module of proofs extends both `DnsLog` and `LogBus`.

### EventBus (with EventBusProofs)

`setEventListener` and `sendMessage` with the `RWMutex` (a waiting writer keeps
new readers out: `announced`), and the two streams: `mu`, `current` and the
workers, each of which is one start. `LockStream`, `AwaitDone`, `StartWorker`
and `StartNothing` stand for both streams: `startLog` and
`subscribeConnections` differ in what they cancel (a channel, a context) and in
that only `startLog` may get no subscription. A cancelled worker may still send:
the log channel has a backlog, and `select` may choose a tick that came with the
cancellation.

A caller is also an action: `Invoke` makes the reference of its callback, as the
JNI shim does; the answer is the upcall `onResult`; `ReleaseCallback` is the
deferred `releaseObject`. `CallOther` and `NotSent` are the paths through
`invokeAction`, `quickSetup` and `send` that concern the bus no further,
`garbled` JSON and the method `message` among them.

### LossyLog, LogBus (with LogsProofs)

`LossyLog` is what the bus promises: accepted events come out in order, only the
oldest or a newcomer is given up, and each one given up is owed an announcement.
`LogBus` is the code: the three selects of `dispatch` and its counter are six
actions (`Put`, `FindFull`, `TakeOldest`, `CountOldest`, `RefuseNewcomer`,
`CountNewcomer`; the send of the first and of the third select are one action),
`dispatchLoop` receives (`Receive`), announces drops (`Tick`), hands to the sinks
(`Route`), panics and is started again (`Panic`, `Respawn`). `KeepsLossyLog` is the
refinement; since a drop is counted after it has happened, and the loop may take
the count in between, `owed` maps to `Owed`, that is `dropCount` and those about to
count, and `announced` to `Announcements`, that is the counts announced, about to be,
or swallowed by a panic. `NothingVanishes` balances the two, and the events pending,
against `Dispatched`.
`raced` is a history variable: the producers since whose making of room another
producer has sent something.

### FileSink (with FileSinkProofs)

`log_file.go` on a disk. A line has 1 to `Longest` bytes, chosen when it is written;
a byte is its number in the order written, the file and its suffixes are sequences of
bytes, so that `Len` is a size. The buffer of `bufio` may be written out by a flush,
all of it or none, and when that fails keeps its error (`broken`). `WriteLine(n)` and
`WriteAndRotate(n)` are `writeFileSink` without and with a rotation: the size is compared
with the limit after the line is in it, so a rotated file may be past the limit.
`RotateFails` is the rotation that cannot open the new file; `stuck` are the suffixes
whose rename fails. `PassGate` is `route`'s look at `fileEnabled`, before the lock; `SwitchOff`
and `FlushNow`, `Reopen` and `Enable` are the halves of `setFileEnabled`. `Kill` and
`KillInRotation(n, k)` end the process between two calls or between two renames; what
is on the disk stays, and the next process begins with no path.

Three history variables say what the properties may charge to somebody else. `faults`
are the kinds of failure of the disk there have been; a kill is none. `kept` counts the
rotations that left the file under its own name, by a failed rename or a kill before
the last one: each lets that file take another line before the next rotation, and
leaves a gap in the suffixes that costs one full file later. `refused` says that the
last open or write failed and that nobody has asked for the file since, by a new path
or by switching on, nor the process restarted.

### UrlTestSlots (with UrlTestSlotsProofs)

`testProxy`, with the semaphore as its package implements it: a grant may race the
end of the wait (`Wake`, `RefuseGranted`, `GiveUp`), a result the deadline
(`TakeResult` then `Judge`, or `TimeOut`), and the goroutine of an adapter that
stalls keeps the slot (`UrlTestReturns` is not fair). `late` is a history variable.

### Locks (with MCLocks, LocksProofs)

The composition. A call is the list of the locks it takes, drains and leaves, and
of the upcalls it makes under them (`Steps`); `limit` and `eventListenerMu` have
`sharers` too. `Reenter` calls one of the three synchronous functions from inside
an upcall. What the calls do between the steps is left to the other modules.

### GroupTest (with MCGroupTest, GroupTestProofs)

`testGroups` from `handleTestGroups` down to `grouptest`. `Tests` are calls under
way at once. Each of those in `running` first computes its order: `walk[t]` is the
stack of the calls of `visit` that `grouptest.Order` is in, each with the members it has
still to look at, `order[t]` what they have listed (`out`). It then runs those names,
one goroutine a name, whose label is `pc[t][name]`.

| Code | Actions |
|---|---|
| `handleTestGroups` up to `grouptest.Order` | `TestGroups` |
| `visit`: the next child or root; the end of the loop | `Visit`, `List` |
| `grouptest.Order` returns, `grouptest.Run` starts the goroutines | `Run` |
| a name that is no group | `NoGroup` |
| `testMembers`: the plain members, a nested group after `await` | `MeasureNodes`, `Measure` |
| `pickMu.Lock`, the pin read, `grouptest.Seat`, `pickMu.Unlock` | `LockPick`, `KeepPin` or `SeatPin`, `SeatRead`, `SeatUnpin`, `UnlockPick` |
| a group of another type | `NothingToSeat` |
| `wg.Wait`, the answer | `Return` |
| `changeProxy` | `ChangeProxy` |
| the end of an apply | `PatchSelectGroup` |
| a connection or a health check reads a url-test group (mihomo) | `Traffic` |

`members` is one of a few graphs (`Graphs`) and stays: a test holds on to the
groups it found when it began, and those of an apply in mid test are others. A
node's delay is the same whenever it is measured, so that its measurements may
be one step with those of its siblings; 0 stands for every failure, of the
network, of `expected-status`, of the deadline or of the wait for a slot. A pin is
followed even when its node is dead, where mihomo would look further; no
property depends on it. By how much a member must be faster for a read of the
group to switch is the tolerance's business, so `Traffic` may switch to any
faster one or to none. `Leaf` and the events only report.

What mihomo and the properties define by recursion over the groups - the groups a
delay test is handed on by (`Through`, `Delay`), the groups nested in one (`Nested`) - is
given as a least set closed under a step, which is what a recursion with a list of
those seen computes, in cyclic graphs too, and which proofs can use.

`wanted` is a history variable: the pin the user, or a setup, last asked for.
`disturbed` says that something was selected while the tests of the moment ran.
`SetupSpec` adds `PatchSelectGroup` to `Spec`; the two are apart because it breaks
`PinStays` (see Findings).

## Runs

| Run | Instance | Shows |
|---|---|---|
| `tun_safety` | 2 callers, 2 dialers (one in an apply), 3 starts, capacity 2 | the safety of the TUN handler |
| `tun_live` | 2 callers, 2 dialers (one in an apply), 2 starts, 3 threads at work at once, capacity 1 | `EveryCallReturns` |
| `runtime` | 3 callers, a profile with groups and one without, 1 port | the safety of the configuration part |
| `dns` | 4 queries, capacity 3 | recording across applies, refinement of `DnsHistory` |
| `bus` | 2 callers, 2 workers, 2 listeners, both streams | the safety of listener, streams and answers |
| `bus_live` | 2 callers, 2 workers, 1 listener, 1 stream | `EveryCallReturns` |
| `group` | 2 tests of 2 nested groups, 3 graphs, 2 sets of delays | order, waits, pins and seats of `testGroups` |
| `group_setup` | 1 test, a setup with 1 selection | violation, see Findings |
| `log` | 2 producers of 3 events, capacity 2 | what the bus loses and counts, refinement of `LossyLog`, and that it flows |
| `sink` | 1 caller, 1 path, 3 files of 2 bytes, lines of 1 or 2 bytes, 8 bytes | order, limits and survival of the lines across failures and kills |
| `slots` | 3 tests, 1 slot | slots, answers and deadlines of `testProxy` |
| `locks` | 3 threads, capacity 1 | that only the listed re-entries can wait in a circle |

What a property says, and of which code, stands above its definition.

Why these bounds are enough to be interesting:

- Three starts of the TUN let a hot path of the first meet a restart and a
  failed start after it; two callers let a stop overlap a start; capacity 2 is
  the smallest in which a unit and the whole differ. In `tun_live` the capacity
  is 1, so that the two dialers overfill it and queue among the closes; two starts
  let a restart wait for `runLock` while an apply that holds it dials through the
  hooks of the TUN before, and a third thread stops or dials. Taking the semaphore
  before `runLock` in `start` (`LockRun_LimitFirst`) strands both there. The
  code's capacity is 4; the safety proofs hold for any.
- Three callers of `Runtime` let a quickSetup, an apply and a start or stop
  overlap; the proofs hold for any number.
- Four queries wrap a ring of three, with one lap still in flight.
- The graphs of `group` are a group in another, a group in two, and a cycle; the
  delays make the later member the faster one, or the only one to answer. Two
  overlapping tests, with the user and traffic in between, are the most that
  meet at one group.
  `group` has the most states, 746,448.
- Two workers are a stream and its restart, or both streams at once. `MayStart`
  bounds the starts by the workers there are: a call that could not start is not
  made, so that the bound strands nobody. `bus_live` has one stream, for the
  size; the streams share nothing but the listener's lock.
- Two producers that send three events each overflow a channel of two with the
  other's room taken in between, and the loop may be dead or in a sink all the
  while.
- Eight bytes in lines of one or two fill three files of two, exactly or past the
  limit, drop the oldest and start the next: a rotation with a rename, an open or a
  flush failing or the process dying in it, and others after it that meet the gap and
  the full file it left. A file of three bytes, one past the limit, and with a
  rotation cut short of five, is as much as `FilesBounded` admits. `sink` takes the
  longest, nearly three minutes.
- Three tests for one slot are one that holds it and two that queue, so that a
  slot can be passed on to one who has just given up.
- Three threads close every circle of two locks with a third call in the way.
  Four have been checked too (1,966,666 states, with the same result); at
  capacity 1 two dials meet at `limit`.

Model values are symmetric where no property or fairness tells them apart
(`Symmetry` in the MC modules); the liveness runs use none. Where a bound leaves
nothing to do, an action `Quiet` says that this is the end. Only `locks` disables
the deadlock check: an app that re-enters in one of the listed ways really stops
the bridge, and `StuckOnlyByReentry` says that nothing else does.

The types are checked in `tun_safety`, `runtime` and `dns` (`DnsTypeOK`), and proved of
every component; the other runs spend the time on more than types.

## Fairness

`TunHandler!Fairness`: goroutines run and upcalls return (weak fairness of every
step that waits for nothing but the semaphore, which is first come, first
served); a Go mutex hands itself to a waiter that starves (strong fairness of
`LockTun` and `LockRun`). Nobody has to call, dial or apply; a dial of an apply
is part of the apply. An upcall that never returns would strand a stop, as the
README of the repository warns the app not to block in one.

`EventBus!Fairness`: the same for its threads; strong fairness for the two
mutexes and the `RWMutex`, whose `Unlock` lets the waiting readers in before the
next writer; strong fairness of `Finish`, because a cancelled worker's backlog
is finite and `select` does not pass over a ready case for ever.

`LogBus!Fairness`: producers run (weak fairness); Go's `select` chooses among the
ready cases at random, so neither the channel nor the ticker is passed over for
ever (strong fairness of `Receive` and `Tick`); a loop that panicked is respawned.
A sink may stall for ever, and `DispatchReturns` holds all the same; only
`PipelineFlows` assumes that sinks return or panic (`SinksReturn`).

`FileSink!Fairness`: the loop goes on, and its `select` comes to the tick. Nothing is
assumed of the app, of kills or of which writes succeed; `BufferIsFlushed` counts
a buffer that is thrown away with its file as gone.

`UrlTestSlots!Fairness`: time passes (both contexts end), calls and goroutines
run. No adapter has to come back: `CallsReturn` holds though all of them stall.

The other modules have no liveness properties and no fairness.

## Proofs

All for every value of the constants, from the assumptions named in the modules:
threads and names are distinct from one another and from `None`, capacities are
positive, profiles are not named like the broken contents, and a log file has at
least one older file beside it (`MaxCount` is 5 in the code), and lines have some
greatest length (`Longest`). Each proof module
begins with its inductive invariant, `Inv`; TLC has checked `Inv` on the run of the
component before it was proved. `PROJECT.json` lists the theorems. Every safety and
action property of every passing run is among them.

- **TunHandlerProofs.** The safety properties of `tun_safety`. None of them is
  inductive: that an upcall finds its reference live depends on who holds the
  semaphore, that on where the owner of `tunLock` is, and that a dial is skipped
  only in a lapse depends on the stage of the handler in place. `Inv` joins
  `Types`, `Owner` (who is past `tunLock.Lock`), `Fence` (the semaphore), `Life`
  (references and handlers no longer in place), `Stage` (what the owner has done
  to the handler, up to `Up` or `Down`), `Dial` (what a dialer may believe) and
  `Descriptors` (a start that has handed its descriptor over, or lost it, does not
  close it again).
- **RuntimeProofs.** The five properties of `runtime`. `Inv` adds `Owner`
  (`runLock`), `Loaded` (a nil configuration is a moment inside an apply),
  `Ordered`, `Serves` (with the lock free only a pending quickSetup excuses
  listeners that lag behind) and `Closes` (while not running neither what is open nor
  what a caller past `FindRunning` is about to open is open, but for `stray`).
- **EventBusProofs.** `UpcallOnLiveRef`, `RefsOwned` and `NeverOverlap`. `Inv` adds
  `Bus` (who holds `eventListenerMu`: while somebody sends, nobody swaps, so that the
  listener in place is the one called), `Hands` (no two hands hold the same
  reference, and none the one in place), `Mutex` and `Running` (what a stream can
  cancel is its own worker, and no other of its workers runs).
- **LogsProofs**, of `LogBus`. `NothingVanishes` is nearly inductive; `Counts` says by how much
  a producer that goes elsewhere changes the sets that are counted.
  `NewcomerLostOnlyInRace` needs `Room`: until somebody else sends, there is room for a
  producer that made some. `BusImplementsLossyLog` is the refinement: `Put` maps to
  `Accept`, `TakeOldest` to `DropOldest` (or a stutter when the channel is empty),
  `RefuseNewcomer` to `DropNewcomer`, `Receive` to `Deliver` and `Tick` to `Announce`;
  dispatching, finding the channel full, counting, routing, a panic and a respawn
  stutter.
- **LogsProofs**, of `DnsLog`. `EachRecordedOnce` from `Flight`, which balances the
  recorders a query has still to return through against its records; and
  `RingKeepsHistory`, the refinement: `SnapshotIs` describes the snapshot slot by
  slot, `AddPushes` shows an `Add` to be a `Push`, `ClearEmpties` a `Clear` to be
  a `Forget`, and every other step stutters.
- **UrlTestSlotsProofs.** `SlotsAccounted` and `NoLateDelay`. A slot that is passed on
  must go to one who waits and has none: `Queue`. `Work` says how far a call and its
  goroutine can be apart, `Answers` where a delay can have come from.
- **GroupTestProofs.** The four properties of `group`, in any graph, cyclic or not, and
  for any number of overlapping tests.

  *Order.* `Walked` says what the stack of visits and the list are in the middle of
  `grouptest.Order`: no name is on them twice (`Once`), every visit is of a group nested
  in those below it (`Chain`), a member that a visit is past has been met (`Past`), and
  each group in a listed one is listed before it, or is one it is nested in, listed or
  still on the stack (`After`). `WalkSkips`, `WalkEnters` and `WalkLists` are the three
  ways `visit` goes on; with the stack gone, `After` is `ChildrenFirst`
  (`OrderKeepsItsPromise`). `NobodyWaitsInCircles` follows with no premise left: the
  earliest name in the order that is not done waits for none.

  *Pins.* `PinStays`, from `Seating` (who is between `pickMu.Lock` and `Unlock`) and
  `Pins` (a pin that is not the user's belongs to the run that holds the lock, and the
  user has none there).

  *Seats.* `SeatedOnFastest` speaks of `Delay`, which reads the picks of groups that other
  runs, other tests and traffic change at any moment. First lemmas about `Delay` alone:
  a group has the delay of what it reads as (`DelayStep`), no name notices that a
  group comes to read as another name of the same delay (`DelayKept`), nor one from
  which the group is not read (`DelayElsewhere`), and from the members of a group in no
  cycle it is not (`TameMembers`). Then the invariant: what was measured of a
  nested group was measured after that one was done (`Awaited`, from the order), is
  therefore true still (`Current`), and a group done is on a member no other beats
  (`Settled`). The three need each other: a group that is already seated reads as
  another member only when that one is as fast, so that what its parents measured
  stays true, and a group not yet seated is in nobody's measurements. A selection by
  the user breaks `Current`, which is why the property excepts `disturbed`.
- **LocksProofs.** `CirclesNeedReentry`, for any number of threads and any capacity. What
  a call holds before each of its steps is a table (`HeldAt`, `SharedAt`); `Framed` and
  `Held` say that a thread is in a call, or in one made from an upcall of it, and has no
  more than the tables say (`Rows` checks the tables against `Steps`).
  `Rank` is the order of the locks, with two places for the event listener
  depending on which side of `Crossed` the app keeps to: whoever waits for a lock
  without the listed re-entries holds only lower ones (`Order`, `Climb`), and in a set of
  threads that wait for one another the highest would wait for nobody (`NoCircle`).
- **FileSinkProofs.** `NewestFirst`, `FilesBounded`, `ClosedOnlyByFailure` and the action
  property `KeepsRecent`, for any number and size of files. `Opened` ties `fileSize` to
  the file and the buffer; `Sorted` adds to `NewestFirst` that every byte is among those
  written, so that a new line is newer than all; `Sizes` that the file written to is
  short of the limit, with room for a line more per rotation that kept it (`kept`);
  `Filled` that, unless the disk failed, the older files are full and the gaps between
  them no more than `kept`. `StepEffect` sorts the steps into those that write no line
  (`OtherStep`: the files keep their bytes) and those that write one (`WriteStep`: into
  the file, or with a rotation), so that each part of `Inv` has two cases to look at.
  `GapsShifted` counts the gaps through a rotation: one more when the file is kept, none
  otherwise, since every gap after it was one before or is that of the file moved. In
  `KeepsRecent` the byte that goes is in the last file; the files before it that are
  left, all but the gaps, are full of newer ones (`RecentStep`).

Only model-checked:

- the liveness properties (`EveryCallReturns` twice, `DispatchReturns`, `PipelineFlows`,
  `BufferIsFlushed`, `CallsReturn`, `SlotComesBack`): liveness under fairness is out of
  this prover's reach. Of the waits in them the safety half is proved where it is the
  hard one: no circle of locks (`CirclesNeedReentry`), no circle of runs
  (`NobodyWaitsInCircles`), no slot lost (`SlotsNeverLost`).

## Findings

One is a run that TLC refutes on purpose (`group_setup`); `PROJECT.json` quotes the
lines.

1. A selection that a setup brings along while a group test seats that very
   group is lost: `patchSelectGroup` (`common.go`) does not hold `pickMu`, which
   "orders a user's pick against a group test re-seating the same group".

The others are in the models as the code has them, and the properties say which
states they except:

2. A TUN start that fails on its address leaks the descriptor it took ownership
   of (`tun.go`): the value `lost` of `TunHandler!fd`, excepted by `DescriptorOwned`.
3. A `quickSetup` that fails leaves inbound listeners open while not running, and
   `stopTun` does not close them; its roll-back may also fall between another
   call's read of `isRunning` and the listeners it then opens: `Runtime!stray`,
   excepted by `OpenWhileStopped`.
4. A setup that cannot read its file re-applies the configuration in force, not
   the default (`common.go`): `RunningServesConfig` holds for that one.
5. Calls from inside an upcall that wait for themselves: `startTUN` and `stopTun` from
   `protect` or `resolverProcess`, and from the `onResult` of
   `sideLoadExternalProvider`, which answers under `runLock`; `setEventListener` from
   an event. And two that wait for each other: `startTUN` or `stopTun` from an event
   together with `setEventListener` from `protect` or that `onResult`. The
   repository's README says (line 169) that every call returns immediately;
   `StuckOnlyByReentry` has the list; `CirclesNeedReentry` proves it complete for any
   number of threads. Each entry is necessary: without it the run fails.
6. The callback's global reference is never released when `invokeAction` is given
   JSON that does not parse (the error path returns before the `defer`) or the
   method `message`: both are excepted by name in `RefsOwned`.
7. A `setLogFilePath` that fails leaves the old path set with its file closed; setting
   that old path again is answered with success and opens nothing
   (`SetPathFails`, then no `SetPath`). `setFileEnabled` does reopen it.

`stopTun` and `startTUN` wait, on the app's thread, for the upcalls of `protect`
in flight; that is by design of `close`.

## Not modelled

mihomo itself, except for what the bridge sees of it: hooks, resolver service,
listeners opened and closed by an apply. Contents of configurations,
log lines and DNS answers. Further:

- the geo updater: mihomo downloads and replaces the databases, the bridge only
  decides when. Of it `Locks` has the locks;
- the level filters of the log sinks, the redirection of the standard streams and
  the crash output, which comes with a path and is written by the runtime;
- the read-only actions, which format an answer: one call, `CallOther`;
- the platform helpers, providers, probes, file operations, the string
  conversions of the JNI shim and the Kotlin facade, which keep no state the
  others depend on;
- a torn read of `resolver.DefaultService` (an interface is two words, and it is
  written with no lock), which is below the models' granularity;
- Java exceptions pending after an upcall: upcalls return normally.

## Plan

Done: all modules of the first plan but `GeoUpdate`, with proofs of every safety and
action property. What could come next:

1. `GeoUpdate`: the loop with its settings read under `runLock` and used after it.
2. Groups replaced by an apply in the middle of a test: `members` then changes for
   those who read it, and `Current` would have to say of which groups.
