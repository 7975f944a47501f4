------------------------------ MODULE GroupTest ------------------------------
(***************************************************************************)
(* testGroups (groups_delay.go, grouptest.go): the named groups and those  *)
(* nested in them are measured at once, a parent measuring a nested group  *)
(* only after that one re-picked; a url-test group with no pin is then     *)
(* seated on its fastest member, while the user pins and unpins members    *)
(* (proxies.go, selection.go) and traffic reads the groups.                *)
(*                                                                         *)
(* A group's fields are mihomo's: pin is its "fixed" member, pick the one  *)
(* it last adopted, which happens only when the group is read.             *)
(***************************************************************************)
EXTENDS Naturals, Sequences, SequencesExt

CONSTANTS
  Tests,     \* calls of testGroups under way at once
  Groups, Nodes,
  UrlTests,  \* the url-test groups; the others are selected by the user
  Graphs,    \* the possible members of the groups, in order
  Requests,  \* the names the app may ask for, groups or not
  Selected,  \* the selections a setup brings along (SelectedMap)
  Latencies, \* the possible delays of the nodes, 0 for one that does not answer
  None       \* the empty name

ASSUME NamesAssumption ==
  /\ UrlTests \subseteq Groups /\ DOMAIN Selected \subseteq Groups
  /\ Groups \cap Nodes = {} /\ Latencies \subseteq [Nodes -> Nat]
  /\ Graphs \subseteq [Groups -> Seq(Groups \cup Nodes) \ {<<>>}]
  /\ Requests \subseteq Seq(Groups \cup Nodes)
  /\ None \notin Groups \cup Nodes \cup (Tests \X (Groups \cup Nodes))

VARIABLES
  members,  \* of each group
  latency,  \* of each node
  pin, pick,
  patched,  \* the groups patchSelectGroup has been to
  pickMu,   \* the run that holds it
  running,  \* the tests under way
  walk,     \* of each test: the calls of visit that grouptest.Order is in
  order,    \* of each test: the groups it runs, in the order of grouptest.Order
  pc,       \* of each test, of each name: where its run is
  delays,   \* of each test, of each group: what was measured of its members
  wanted,   \* history: the pin the user, or the setup, last asked for
  disturbed \* history: was anything selected while these tests ran?

graphVars == <<members, latency>>
callVars  == <<running, walk, order>>
testVars  == <<callVars, pc, delays>>
vars == <<graphVars, pin, pick, patched, pickMu, testVars, wanted, disturbed>>

Names == Groups \cup Nodes

\* The groups among the members of a name.
Children(name) == IF name \in Groups THEN ToSet(members[name]) \cap Groups ELSE {}

\* What a group reads as, and the delay of the node at the end of the picks.
Now(g) == IF pin[g] # None THEN pin[g] ELSE pick[g]

\* The groups read on the way from a name: those in every set that has it and
\* what its groups read as.
Through(name) ==
  {g \in Groups : \A S \in SUBSET Groups :
     /\ name \in Groups => name \in S
     /\ \A h \in S : Now(h) \in Groups => Now(h) \in S
     => g \in S}

Delay(name) ==
  IF name \in Nodes THEN latency[name]
  ELSE LET ends == {g \in Through(name) : Now(g) \in Nodes}
       IN IF ends = {} THEN 0 ELSE latency[Now(CHOOSE g \in ends : TRUE)]

-----------------------------------------------------------------------------
(* grouptest.Fastest.                                                      *)

\* The earliest of the members with the lowest delay, None if none answered.
Fastest(seq, delay) ==
  LET alive == {i \in DOMAIN seq : delay[seq[i]] > 0}
      best  == {i \in alive : \A j \in alive : delay[seq[i]] <= delay[seq[j]]}
  IN IF alive = {} THEN None ELSE seq[CHOOSE i \in best : \A j \in best : i <= j]

-----------------------------------------------------------------------------
Init ==
  /\ members \in Graphs
  /\ latency \in Latencies
  /\ pin = [g \in Groups |-> None]
  /\ pick = [g \in Groups |-> members[g][1]]
  /\ patched = Groups \ DOMAIN Selected
  /\ pickMu = None
  /\ running = {}
  /\ walk = [t \in Tests |-> <<>>]
  /\ order = [t \in Tests |-> <<>>]
  /\ pc = [t \in Tests |-> [n \in Names |-> "none"]]
  /\ delays = [t \in Tests |-> [g \in Groups |-> <<>>]]
  /\ wanted = [g \in Groups |-> None]
  /\ disturbed = FALSE

Goto(t, g, label) == pc' = [pc EXCEPT ![t][g] = label]

TestGroups(t, roots) ==
  /\ t \notin running
  /\ running' = running \cup {t}
  /\ walk' = [walk EXCEPT ![t] = <<[name |-> None, left |-> roots]>>]
  /\ disturbed' = (disturbed /\ running # {})
  /\ UNCHANGED <<graphVars, pin, pick, patched, pickMu, order, pc, delays, wanted>>

-----------------------------------------------------------------------------
(* grouptest.Order: a stack of calls of visit, each with the members it    *)
(* has still to look at, plain ones for nothing; Order itself, at the      *)
(* bottom, has the roots.                                                  *)

Visiting(t) == walk[t] # <<>>

Within(name) == IF name \in Groups THEN members[name] ELSE <<>>

\* Mutant: a name is forgotten when its visit is over.
Seen_OnTheWay(t) == {walk[t][i].name : i \in DOMAIN walk[t]}

\* A name is seen once its visit begins; it is listed when that is over.
Seen(t) == {walk[t][i].name : i \in DOMAIN walk[t]} \cup ToSet(order[t])

Visit(t) ==
  /\ Visiting(t) /\ Last(walk[t]).left # <<>>
  /\ LET parent == Last(walk[t]).name
         name   == Head(Last(walk[t]).left)
         rest   == Append(Front(walk[t]), [name |-> parent, left |-> Tail(Last(walk[t]).left)])
     IN walk' = [walk EXCEPT ![t] =
                   IF name \in Seen(t) \/ (parent # None /\ name \notin Groups) THEN rest
                   ELSE Append(rest, [name |-> name, left |-> Within(name)])]
  /\ UNCHANGED <<graphVars, pin, pick, patched, pickMu, running, order, pc, delays,
                 wanted, disturbed>>

List(t) ==
  /\ Visiting(t) /\ Last(walk[t]).left = <<>> /\ Last(walk[t]).name # None
  /\ order' = [order EXCEPT ![t] = Append(@, Last(walk[t]).name)]
  /\ walk' = [walk EXCEPT ![t] = Front(@)]
  /\ UNCHANGED <<graphVars, pin, pick, patched, pickMu, running, pc, delays,
                 wanted, disturbed>>

\* Order returns, and Run starts a goroutine for each name.
Run(t) ==
  /\ Visiting(t) /\ Last(walk[t]).left = <<>> /\ Last(walk[t]).name = None
  /\ walk' = [walk EXCEPT ![t] = <<>>]
  /\ pc' = [pc EXCEPT ![t] =
              [n \in Names |-> IF n \in ToSet(order[t]) THEN "start" ELSE "none"]]
  /\ UNCHANGED <<graphVars, pin, pick, patched, pickMu, running, order, delays,
                 wanted, disturbed>>

-----------------------------------------------------------------------------
(* grouptest.Run, and what it runs for each name.                          *)

\* A name that is no group is done at once.
NoGroup(t, n) ==
  /\ n \in Nodes /\ pc[t][n] = "start"
  /\ Goto(t, n, "done")
  /\ UNCHANGED <<graphVars, pin, pick, patched, pickMu, callVars, delays, wanted, disturbed>>

Before(t, m, g) ==
  \E i, j \in DOMAIN order[t] : order[t][i] = m /\ order[t][j] = g /\ i < j

\* Mutant: every nested group is waited for, wherever it is in the order.
Await_Always(t, g, m) == pc[t][m] \in {"none", "done"}

\* Mutant: nobody is waited for.
Await_Never(t, g, m) == TRUE

\* grouptest.Run's await: only what comes earlier in the order is waited for.
Await(t, g, m) == Before(t, m, g) => pc[t][m] = "done"

\* testMembers has a goroutine for each member.  The plain ones start at once;
\* a node's delay does not change, so they may as well end together.
MeasureNodes(t, g) ==
  /\ pc[t][g] = "start" /\ g \in Groups
  /\ LET plain == ToSet(members[g]) \cap Nodes IN
       /\ \A m \in plain : Await(t, g, m)
       /\ delays' = [delays EXCEPT ![t][g] = [m \in plain |-> latency[m]]]
  /\ Goto(t, g, "measure")
  /\ UNCHANGED <<graphVars, pin, pick, patched, pickMu, callVars, wanted, disturbed>>

Measure(t, g, m) ==
  /\ pc[t][g] = "measure"
  /\ m \in ToSet(members[g]) \ DOMAIN delays[t][g]
  /\ Await(t, g, m)
  /\ delays' = [delays EXCEPT ![t][g] =
                   [x \in DOMAIN @ \cup {m} |-> IF x = m THEN Delay(m) ELSE @[x]]]
  /\ UNCHANGED <<graphVars, pin, pick, patched, pickMu, callVars, pc, wanted, disturbed>>

Measured(t, g) == pc[t][g] = "measure" /\ DOMAIN delays[t][g] = ToSet(members[g])

\* A group that picks for itself is seated, holding pickMu.
LockPick(t, g) ==
  /\ Measured(t, g) /\ g \in UrlTests /\ pickMu = None
  /\ pickMu' = <<t, g>>
  /\ Goto(t, g, "seat")
  /\ UNCHANGED <<graphVars, pin, pick, patched, callVars, delays, wanted, disturbed>>

NothingToSeat(t, g) ==
  /\ Measured(t, g) /\ g \notin UrlTests
  /\ Goto(t, g, "done")
  /\ UNCHANGED <<graphVars, pin, pick, patched, pickMu, callVars, delays, wanted, disturbed>>

\* The pin is read under the lock: the user may have pinned during the test.
KeepPin(t, g) ==
  /\ pc[t][g] = "seat"
  /\ pin[g] # None \/ Fastest(members[g], delays[t][g]) = None
  /\ Goto(t, g, "unlock")
  /\ UNCHANGED <<graphVars, pin, pick, patched, pickMu, callVars, delays, wanted, disturbed>>

\* Mutant: the pin is not looked at.
SeatPin_Unchecked(t, g) ==
  /\ pc[t][g] = "seat"
  /\ LET best == Fastest(members[g], delays[t][g])
     IN best # None /\ pin' = [pin EXCEPT ![g] = best]
  /\ Goto(t, g, "read")
  /\ UNCHANGED <<graphVars, pick, patched, pickMu, callVars, delays, wanted, disturbed>>

\* grouptest.Seat: pin, read, unpin.
SeatPin(t, g) ==
  /\ pc[t][g] = "seat" /\ pin[g] = None
  /\ LET best == Fastest(members[g], delays[t][g])
     IN best # None /\ pin' = [pin EXCEPT ![g] = best]
  /\ Goto(t, g, "read")
  /\ UNCHANGED <<graphVars, pick, patched, pickMu, callVars, delays, wanted, disturbed>>

SeatRead(t, g) ==
  /\ pc[t][g] = "read"
  /\ pick' = [pick EXCEPT ![g] = Now(g)]
  /\ Goto(t, g, "unpin")
  /\ UNCHANGED <<graphVars, pin, patched, pickMu, callVars, delays, wanted, disturbed>>

SeatUnpin(t, g) ==
  /\ pc[t][g] = "unpin"
  /\ pin' = [pin EXCEPT ![g] = None]
  /\ Goto(t, g, "unlock")
  /\ UNCHANGED <<graphVars, pick, patched, pickMu, callVars, delays, wanted, disturbed>>

UnlockPick(t, g) ==
  /\ pc[t][g] = "unlock"
  /\ pickMu' = None
  /\ Goto(t, g, "done")
  /\ UNCHANGED <<graphVars, pin, pick, patched, callVars, delays, wanted, disturbed>>

Return(t) ==
  /\ t \in running /\ ~Visiting(t) /\ \A n \in ToSet(order[t]) : pc[t][n] = "done"
  /\ running' = running \ {t}
  /\ order' = [order EXCEPT ![t] = <<>>]
  /\ pc' = [pc EXCEPT ![t] = [n \in Names |-> "none"]]
  /\ delays' = [delays EXCEPT ![t] = [g \in Groups |-> <<>>]]
  /\ UNCHANGED <<graphVars, pin, pick, patched, pickMu, walk, wanted, disturbed>>

-----------------------------------------------------------------------------
(* changeProxy, patchSelectGroup, and mihomo itself.                       *)

\* A url-test group is pinned, a select group switched; the empty name takes
\* the pin back, or a select group to its first member.
Select(g, m) ==
  /\ IF g \in UrlTests
     THEN /\ pin' = [pin EXCEPT ![g] = m]
          /\ wanted' = [wanted EXCEPT ![g] = m]
          /\ UNCHANGED pick
     ELSE /\ pick' = [pick EXCEPT ![g] = IF m = None THEN members[g][1] ELSE m]
          /\ UNCHANGED <<pin, wanted>>
  /\ disturbed' = (running # {})

\* selection.Apply refuses a name that is no member: nothing changes then.
ChangeProxy(g, m) ==
  /\ pickMu = None
  /\ m \in ToSet(members[g]) \cup {None}
  /\ Select(g, m)
  /\ UNCHANGED <<graphVars, patched, pickMu, testVars>>

\* The last step of an apply whose groups are in place already; no pickMu.
PatchSelectGroup(g) ==
  /\ g \notin patched
  /\ patched' = patched \cup {g}
  /\ Select(g, Selected[g])
  /\ UNCHANGED <<graphVars, pickMu, testVars>>

\* A connection reads a group, which adopts its pin, or a faster member; by how
\* much faster is the tolerance's business.
Traffic(g) ==
  /\ g \in UrlTests
  /\ \/ pick' = [pick EXCEPT ![g] = Now(g)]
     \/ \E m \in ToSet(members[g]) :
          /\ pin[g] = None /\ Delay(m) > 0
          /\ Delay(pick[g]) = 0 \/ Delay(m) < Delay(pick[g])
          /\ pick' = [pick EXCEPT ![g] = m]
  /\ UNCHANGED <<graphVars, pin, patched, pickMu, testVars, wanted, disturbed>>

-----------------------------------------------------------------------------
Step(t, g) ==
  \/ \E m \in Names : Measure(t, g, m)
  \/ NoGroup(t, g) \/ MeasureNodes(t, g) \/ NothingToSeat(t, g) \/ LockPick(t, g) \/ KeepPin(t, g)
  \/ SeatPin(t, g) \/ SeatRead(t, g) \/ SeatUnpin(t, g) \/ UnlockPick(t, g)

Next ==
  \/ \E t \in Tests :
       \/ \E roots \in Requests : TestGroups(t, roots)
       \/ \E n \in Names : Step(t, n)
       \/ Visit(t) \/ List(t) \/ Run(t) \/ Return(t)
  \/ \E g \in Groups :
       \/ \E m \in Names \cup {None} : ChangeProxy(g, m)
       \/ Traffic(g)

Spec == Init /\ [][Next]_vars

\* An apply may be ending: its groups are in place, its selections are not yet.
NextWithSetup == Next \/ \E g \in Groups : PatchSelectGroup(g)

SetupSpec == Init /\ [][NextWithSetup]_vars

-----------------------------------------------------------------------------
Labels == {"none", "start", "measure", "seat", "read", "unpin", "unlock", "done"}

\* What the variables range over.
TypeOK ==
  /\ members \in Graphs
  /\ latency \in Latencies
  /\ pin \in [Groups -> Names \cup {None}]
  /\ wanted \in [Groups -> Names \cup {None}]
  /\ \A g \in Groups : pick[g] \in ToSet(members[g])
  /\ patched \in SUBSET Groups
  /\ pickMu \in (Tests \X UrlTests) \cup {None}
  /\ running \in SUBSET Tests
  /\ \A t \in Tests :
       /\ order[t] \in Seq(Names)
       /\ walk[t] \in Seq([name : Names \cup {None}, left : Seq(Names)])
       /\ Visiting(t) => t \in running
  /\ pc \in [Tests -> [Names -> Labels]]
  /\ \A t \in Tests, g \in Groups :
       \A m \in DOMAIN delays[t][g] : delays[t][g][m] \in Nat
  /\ disturbed \in BOOLEAN

\* The groups nested in a name, however deep: those in every set that has its
\* children and theirs.
Nested(name) ==
  {m \in Groups : \A S \in SUBSET Groups :
     /\ Children(name) \subseteq S
     /\ \A g \in S : Children(g) \subseteq S
     => m \in S}

\* "Order lists the groups under roots children-first, each once" (grouptest.go):
\* with a group a test runs all that is nested there, nothing twice; a nested
\* group comes after its parent only in a cycle.
ChildrenFirst ==
  \A t \in {u \in running : ~Visiting(u)} :
    /\ order[t] \in Seq(Names) /\ IsInjective(order[t])
    /\ \A j \in DOMAIN order[t] : \A child \in Children(order[t][j]) :
         \E i \in DOMAIN order[t] :
           order[t][i] = child /\ (i < j \/ order[t][j] \in Nested(child))

\* "A pin stays ... and so does a pin set while the test runs" (CHANGELOG.md,
\* 0.3.9): nobody seating a group, every pin is what the user last asked for.
PinStays == pickMu = None => pin = wanted

\* "A parent tests a nested group only after that group re-picked. An unpinned
\* url-test group is then seated on its fastest member" (CHANGELOG.md, 0.3.9):
\* done, a group is on a member no other beats, nested groups at their new picks
\* included, whatever tests overlap - unless the user selected meanwhile.
SeatedOnFastest ==
  \A t \in Tests, g \in UrlTests :
    pc[t][g] = "done" /\ ~disturbed /\ pin[g] = None
      /\ (\A h \in Nested(g) \cup {g} : h \notin Nested(h)) =>
        \A m \in ToSet(members[g]) :
          Delay(m) > 0 => Delay(pick[g]) \in 1 .. Delay(m)

\* testGroups comes back: some run of it always can go on, be it for pickMu alone;
\* no group waits for one that waits for it (TestRunCycleDoesNotDeadlock).
NoCircularWait ==
  \A t \in {u \in running : ~Visiting(u)} :
    \/ \A n \in ToSet(order[t]) : pc[t][n] = "done"
    \/ \E n \in ToSet(order[t]) :
         /\ pc[t][n] # "done"
         /\ pc[t][n] = "measure" => \A m \in ToSet(members[n]) : Await(t, n, m)

=============================================================================
