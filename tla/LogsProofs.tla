----------------------------- MODULE LogsProofs ------------------------------
(***************************************************************************)
(* Proofs about the two bounded logs, LogBus and DnsLog.                   *)
(*                                                                         *)
(* LogBus, for any number of producers, any capacity and any burst: no     *)
(* event vanishes, a newcomer is refused only in a race, and the bus       *)
(* implements LossyLog.  The inductive invariant, Inv, joins to the types  *)
(* and to NothingVanishes                                                  *)
(*                                                                         *)
(*   - Room: as long as nobody sent anything since, there is room in the   *)
(*     channel for a producer that made some, or found some.               *)
(*                                                                         *)
(* DnsLog, for every set of queries and every capacity: the ring buffer    *)
(* implements DnsHistory, and each query is recorded once.  Its inductive  *)
(* invariant, DnsInv, joins to the types                                   *)
(*                                                                         *)
(*   - Flight: what a query in flight is still owed and what was recorded  *)
(*     of it balance.                                                      *)
(***************************************************************************)
EXTENDS LogBus, DnsLog, FiniteSetTheorems, TLAPS

Room ==
  \A p \in Producers \ raced :
    /\ pc[p] \in {"count", "retry"} => ~Full
    /\ pc[p] # "countNew"

Inv == TypeOK /\ NothingVanishes /\ Room

-----------------------------------------------------------------------------
(* How many producers are where.                                           *)

\* One when the condition holds.
One(condition) == IF condition THEN 1 ELSE 0

\* A producer that goes elsewhere changes what is owed, and how many hold an
\* event, by at most itself.
LEMMA Counts ==
  ASSUME TypeOK, NEW p \in Producers, NEW label, Goto(p, label), dropCount' \in Nat
  PROVE  /\ Owed \in Nat /\ Cardinality(Holding) \in Nat
         /\ Owed' = Owed + dropCount' - dropCount
              + One(label \in {"count", "countNew"}) - One(pc[p] \in {"count", "countNew"})
         /\ Cardinality(Holding') = Cardinality(Holding)
              + One(label \in {"send", "full", "count", "retry"})
              - One(pc[p] \in {"send", "full", "count", "retry"})
<1>1. IsFiniteSet(Counting) /\ IsFiniteSet(Holding)
  BY BusAssumption, FS_Subset DEF Counting, Holding
<1>2. Cardinality(Counting) \in Nat /\ Cardinality(Holding) \in Nat
  BY <1>1, FS_CardinalityType
<1>3. \A q \in Producers : pc'[q] = IF q = p THEN label ELSE pc[q]
  BY DEF Goto, TypeOK
<1>4. Counting' = IF label \in {"count", "countNew"} THEN Counting \cup {p} ELSE Counting \ {p}
  BY <1>3 DEF Counting
<1>5. Holding' = IF label \in {"send", "full", "count", "retry"}
                 THEN Holding \cup {p} ELSE Holding \ {p}
  BY <1>3 DEF Holding
<1>6. /\ p \in Counting <=> pc[p] \in {"count", "countNew"}
      /\ p \in Holding <=> pc[p] \in {"send", "full", "count", "retry"}
  BY DEF Counting, Holding
<1>7. /\ Cardinality(Counting \cup {p}) = Cardinality(Counting) + 1 - One(p \in Counting)
      /\ Cardinality(Counting \ {p}) = Cardinality(Counting) - One(p \in Counting)
  <2>1. Cardinality(Counting \cup {p}) = IF p \in Counting THEN Cardinality(Counting) ELSE Cardinality(Counting) + 1
    BY <1>1, FS_AddElement
  <2>2. Cardinality(Counting \ {p}) = IF p \in Counting THEN Cardinality(Counting) - 1 ELSE Cardinality(Counting)
    BY <1>1, FS_RemoveElement
  <2> QED BY <1>2, <2>1, <2>2 DEF One
<1>8. /\ Cardinality(Holding \cup {p}) = Cardinality(Holding) + 1 - One(p \in Holding)
      /\ Cardinality(Holding \ {p}) = Cardinality(Holding) - One(p \in Holding)
  <2>1. Cardinality(Holding \cup {p}) = IF p \in Holding THEN Cardinality(Holding) ELSE Cardinality(Holding) + 1
    BY <1>1, FS_AddElement
  <2>2. Cardinality(Holding \ {p}) = IF p \in Holding THEN Cardinality(Holding) - 1 ELSE Cardinality(Holding)
    BY <1>1, FS_RemoveElement
  <2> QED BY <1>2, <2>1, <2>2 DEF One
<1>9. Cardinality(Counting') = Cardinality(Counting)
        + One(label \in {"count", "countNew"}) - One(pc[p] \in {"count", "countNew"})
  BY <1>2, <1>4, <1>6, <1>7 DEF One
<1>10. Cardinality(Holding') = Cardinality(Holding)
         + One(label \in {"send", "full", "count", "retry"})
         - One(pc[p] \in {"send", "full", "count", "retry"})
  BY <1>2, <1>5, <1>6, <1>8 DEF One
<1>11. Owed' = Owed + dropCount' - dropCount
         + One(label \in {"count", "countNew"}) - One(pc[p] \in {"count", "countNew"})
  BY <1>2, <1>9 DEF Owed, TypeOK, One
<1>12. Owed \in Nat BY <1>2 DEF Owed, TypeOK
<1> QED BY <1>2, <1>10, <1>11, <1>12

\* A producer that begins to dispatch has dispatched one event more.
LEMMA DispatchedOne ==
  ASSUME TypeOK, NEW p \in Producers, Dispatch(p)
  PROVE  Cardinality(Dispatched') = Cardinality(Dispatched) + 1
<1> DEFINE e == <<p, sent[p] + 1>>
<1>1. IsFiniteSet(Events)
  <2>1. IsFiniteSet(1 .. Burst) BY BusAssumption, FS_Interval
  <2> QED BY BusAssumption, <2>1, FS_Product DEF Events
<1>2. IsFiniteSet(Dispatched) BY <1>1, FS_Subset DEF Dispatched
<1>3. \A q \in Producers : sent'[q] = IF q = p THEN sent[p] + 1 ELSE sent[q]
  BY DEF Dispatch, TypeOK
<1>4. e \in Events /\ e \notin Dispatched
  BY BusAssumption DEF Dispatch, TypeOK, Events, Dispatched
<1>5. ASSUME NEW q \in Producers, NEW n \in 1 .. Burst
      PROVE  <<q, n>> \in Dispatched' <=> <<q, n>> \in Dispatched \cup {e}
  BY <1>3, BusAssumption DEF TypeOK, Dispatched, Events
<1>6. Dispatched' \subseteq Producers \X (1 .. Burst) /\ Dispatched \cup {e} \subseteq Producers \X (1 .. Burst)
  BY <1>4 DEF Dispatched, Events
<1>7. Dispatched' = Dispatched \cup {e} BY <1>5, <1>6
<1> QED BY <1>2, <1>4, <1>7, FS_AddElement

-----------------------------------------------------------------------------
(* Every step keeps Inv.                                                   *)

\* The types, of every step.
LEMMA TypesStep == ASSUME TypeOK, [Next]_vars PROVE TypeOK'
<1>event. \A p \in Producers : pc[p] # "idle" => EventOf(p) \in Events
  BY BusAssumption DEF TypeOK, EventOf, Events
<1>none. None \notin Events BY BusAssumption DEF Events
<1> USE BusAssumption DEF TypeOK, Goto, loopVars, producerVars
<1>1. ASSUME NEW p \in Producers, Dispatch(p) PROVE TypeOK' BY <1>1 DEF Dispatch
<1>2. ASSUME NEW p \in Producers, Put(p) PROVE TypeOK'
  <2>1. /\ logDispatchCh' \in Seq(Events)
        /\ Len(logDispatchCh') = Len(logDispatchCh) + 1 /\ Len(logDispatchCh) < Capacity
    BY <1>2, <1>event DEF Put, Full
  <2> QED BY <1>2, <2>1 DEF Put
<1>3. ASSUME NEW p \in Producers, FindFull(p) PROVE TypeOK' BY <1>3 DEF FindFull
<1>4. ASSUME NEW p \in Producers, TakeOldest(p) PROVE TypeOK'
  <2>1. CASE logDispatchCh = <<>> BY <1>4, <2>1 DEF TakeOldest
  <2>2. CASE logDispatchCh # <<>>
    <3>1. /\ logDispatchCh' = Tail(logDispatchCh) /\ pc[p] = "full"
          /\ pc' = [pc EXCEPT ![p] = "count"]
          /\ UNCHANGED <<dropCount, sent, loopVars, raced>>
      BY <1>4, <2>2 DEF TakeOldest
    <3>2. logDispatchCh' \in Seq(Events) /\ Len(logDispatchCh') = Len(logDispatchCh) - 1
      BY <2>2, <3>1
    <3> QED BY <3>1, <3>2
  <2> QED BY <2>1, <2>2
<1>5. ASSUME NEW p \in Producers, CountOldest(p) PROVE TypeOK' BY <1>5 DEF CountOldest
<1>6. ASSUME NEW p \in Producers, RefuseNewcomer(p) PROVE TypeOK' BY <1>6 DEF RefuseNewcomer
<1>7. ASSUME NEW p \in Producers, CountNewcomer(p) PROVE TypeOK' BY <1>7 DEF CountNewcomer
<1>8. CASE Receive
  <2>1. /\ logDispatchCh' \in Seq(Events) /\ Len(logDispatchCh') = Len(logDispatchCh) - 1
        /\ Head(logDispatchCh) \in Events
    BY <1>8 DEF Receive
  <2> QED BY <1>8, <1>none, <2>1 DEF Receive
<1>9. CASE Tick BY <1>9 DEF Tick
<1>10. CASE Route BY <1>10 DEF Route
<1>11. CASE Panic BY <1>11 DEF Panic
<1>12. CASE Respawn BY <1>12 DEF Respawn
<1>13. CASE UNCHANGED vars BY <1>13 DEF vars
<1> QED
  BY <1>1, <1>2, <1>3, <1>4, <1>5, <1>6, <1>7, <1>8, <1>9,
     <1>10, <1>11, <1>12, <1>13
  DEF Next, DispatchStep, LoopStep, Quiet

\* Whoever takes the room that another has made races with it.
LEMMA RoomStep == ASSUME TypeOK, Room, [Next]_vars PROVE Room'
<1> USE BusAssumption DEF TypeOK, Room, Goto, Full, loopVars, producerVars
<1>1. ASSUME NEW p \in Producers, Dispatch(p) PROVE Room' BY <1>1 DEF Dispatch
<1>2. ASSUME NEW p \in Producers, Put(p) PROVE Room' BY <1>2 DEF Put
<1>3. ASSUME NEW p \in Producers, FindFull(p) PROVE Room' BY <1>3 DEF FindFull
<1>4. ASSUME NEW p \in Producers, TakeOldest(p) PROVE Room'
  <2>1. CASE logDispatchCh = <<>> BY <1>4, <2>1 DEF TakeOldest
  <2>2. CASE logDispatchCh # <<>>
    <3>1. Len(logDispatchCh') = Len(logDispatchCh) - 1 BY <1>4, <2>2 DEF TakeOldest
    <3> QED BY <1>4, <2>2, <3>1 DEF TakeOldest
  <2> QED BY <2>1, <2>2
<1>5. ASSUME NEW p \in Producers, CountOldest(p) PROVE Room' BY <1>5 DEF CountOldest
<1>6. ASSUME NEW p \in Producers, RefuseNewcomer(p) PROVE Room' BY <1>6 DEF RefuseNewcomer
<1>7. ASSUME NEW p \in Producers, CountNewcomer(p) PROVE Room' BY <1>7 DEF CountNewcomer
<1>8. CASE Receive
  <2>1. Len(logDispatchCh') = Len(logDispatchCh) - 1 BY <1>8 DEF Receive
  <2> QED BY <1>8, <2>1 DEF Receive
<1>9. CASE Tick BY <1>9 DEF Tick
<1>10. CASE Route BY <1>10 DEF Route
<1>11. CASE Panic BY <1>11 DEF Panic
<1>12. CASE Respawn BY <1>12 DEF Respawn
<1>13. CASE UNCHANGED vars BY <1>13 DEF vars
<1> QED
  BY <1>1, <1>2, <1>3, <1>4, <1>5, <1>6, <1>7, <1>8, <1>9,
     <1>10, <1>11, <1>12, <1>13
  DEF Next, DispatchStep, LoopStep, Quiet

\* Every event that leaves one place of the sum is in another after the step.
LEMMA NothingVanishesStep == ASSUME TypeOK, NothingVanishes, [Next]_vars PROVE NothingVanishes'
<1>nat. Owed \in Nat /\ Cardinality(Holding) \in Nat /\ Cardinality(Counting) \in Nat
  <2>1. Cardinality(Counting) \in Nat /\ Cardinality(Holding) \in Nat
    BY BusAssumption, FS_Subset, FS_CardinalityType DEF Counting, Holding
  <2> QED BY <2>1 DEF Owed, TypeOK
<1>types. /\ Len(logDispatchCh) \in Nat /\ Len(taken) \in Nat
          /\ dropCount \in Nat /\ report \in Nat /\ announced \in Nat /\ swallowed \in Nat
          /\ Announcements \in Nat
  BY DEF TypeOK, Announcements
<1>1. ASSUME NEW p \in Producers, Dispatch(p) PROVE NothingVanishes'
  <2>1. Cardinality(Dispatched') = Cardinality(Dispatched) + 1 BY <1>1, DispatchedOne
  <2>2. Owed' = Owed /\ Cardinality(Holding') = Cardinality(Holding) + 1
    BY <1>1, Counts, <1>nat, <1>types DEF Dispatch, One, loopVars
  <2>3. Announcements' = Announcements /\ UNCHANGED taken BY <1>1 DEF Dispatch, loopVars, Announcements
  <2>4. UNCHANGED logDispatchCh BY <1>1 DEF Dispatch
  <2> QED BY <1>nat, <1>types, <2>1, <2>2, <2>3, <2>4 DEF NothingVanishes
<1>2. ASSUME NEW p \in Producers, Put(p) PROVE NothingVanishes'
  <2>1. UNCHANGED Dispatched BY <1>2 DEF Put, loopVars, Dispatched
  <2>2. Owed' = Owed /\ Cardinality(Holding') = Cardinality(Holding) - 1
    BY <1>2, Counts, <1>nat, <1>types DEF Put, One, loopVars
  <2>3. Announcements' = Announcements /\ UNCHANGED taken BY <1>2 DEF Put, loopVars, Announcements
  <2>4. Len(logDispatchCh') = Len(logDispatchCh) + 1 BY <1>2 DEF Put, TypeOK
  <2> QED BY <1>nat, <1>types, <2>1, <2>2, <2>3, <2>4 DEF NothingVanishes
<1>3. ASSUME NEW p \in Producers, FindFull(p) PROVE NothingVanishes'
  <2>1. UNCHANGED Dispatched BY <1>3 DEF FindFull, loopVars, Dispatched
  <2>2. Owed' = Owed /\ Cardinality(Holding') = Cardinality(Holding)
    BY <1>3, Counts, <1>nat, <1>types DEF FindFull, One, loopVars
  <2>3. Announcements' = Announcements /\ UNCHANGED taken BY <1>3 DEF FindFull, loopVars, Announcements
  <2>4. UNCHANGED logDispatchCh BY <1>3 DEF FindFull
  <2> QED BY <1>nat, <1>types, <2>1, <2>2, <2>3, <2>4 DEF NothingVanishes
<1>4. ASSUME NEW p \in Producers, TakeOldest(p) PROVE NothingVanishes'
  <2>1. UNCHANGED Dispatched BY <1>4 DEF TakeOldest, loopVars, Dispatched
  <2>2. Announcements' = Announcements /\ UNCHANGED taken BY <1>4 DEF TakeOldest, loopVars, Announcements
  <2>3. CASE logDispatchCh = <<>>
    <3>1. Owed' = Owed /\ Cardinality(Holding') = Cardinality(Holding)
      BY <1>4, <2>3, Counts, <1>nat, <1>types DEF TakeOldest, One
    <3>2. UNCHANGED logDispatchCh BY <1>4, <2>3 DEF TakeOldest
    <3> QED BY <1>nat, <1>types, <2>1, <2>2, <3>1, <3>2 DEF NothingVanishes
  <2>4. CASE logDispatchCh # <<>>
    <3>1. Owed' = Owed + 1 /\ Cardinality(Holding') = Cardinality(Holding)
      BY <1>4, <2>4, Counts, <1>nat, <1>types DEF TakeOldest, One
    <3>2. Len(logDispatchCh') = Len(logDispatchCh) - 1 BY <1>4, <2>4 DEF TakeOldest, TypeOK
    <3> DEFINE queued == Cardinality(Holding) + Len(logDispatchCh) + Len(taken)
    <3>3. queued' = queued - 1 /\ queued \in Nat BY <1>nat, <1>types, <2>2, <3>1, <3>2
    <3>4. /\ NothingVanishes <=> Cardinality(Dispatched) = queued + Owed + Announcements
          /\ NothingVanishes' <=> Cardinality(Dispatched') = queued' + Owed' + Announcements'
      BY DEF NothingVanishes
    <3> HIDE DEF queued
    <3> QED BY <1>nat, <1>types, <2>1, <2>2, <3>1, <3>3, <3>4
  <2> QED BY <2>3, <2>4
<1>5. ASSUME NEW p \in Producers, CountOldest(p) PROVE NothingVanishes'
  <2>1. UNCHANGED Dispatched BY <1>5 DEF CountOldest, loopVars, Dispatched
  <2>2. Owed' = Owed /\ Cardinality(Holding') = Cardinality(Holding)
    BY <1>5, Counts, <1>nat, <1>types DEF CountOldest, One, loopVars
  <2>3. Announcements' = Announcements /\ UNCHANGED taken BY <1>5 DEF CountOldest, loopVars, Announcements
  <2>4. UNCHANGED logDispatchCh BY <1>5 DEF CountOldest
  <2> QED BY <1>nat, <1>types, <2>1, <2>2, <2>3, <2>4 DEF NothingVanishes
<1>6. ASSUME NEW p \in Producers, RefuseNewcomer(p) PROVE NothingVanishes'
  <2>1. UNCHANGED Dispatched BY <1>6 DEF RefuseNewcomer, loopVars, Dispatched
  <2>2. Owed' = Owed + 1 /\ Cardinality(Holding') = Cardinality(Holding) - 1
    BY <1>6, Counts, <1>nat, <1>types DEF RefuseNewcomer, One, loopVars
  <2>3. Announcements' = Announcements /\ UNCHANGED taken BY <1>6 DEF RefuseNewcomer, loopVars, Announcements
  <2>4. UNCHANGED logDispatchCh BY <1>6 DEF RefuseNewcomer
  <2> QED BY <1>nat, <1>types, <2>1, <2>2, <2>3, <2>4 DEF NothingVanishes
<1>7. ASSUME NEW p \in Producers, CountNewcomer(p) PROVE NothingVanishes'
  <2>1. UNCHANGED Dispatched BY <1>7 DEF CountNewcomer, loopVars, Dispatched
  <2>2. Owed' = Owed /\ Cardinality(Holding') = Cardinality(Holding)
    BY <1>7, Counts, <1>nat, <1>types DEF CountNewcomer, One, loopVars
  <2>3. Announcements' = Announcements /\ UNCHANGED taken BY <1>7 DEF CountNewcomer, loopVars, Announcements
  <2>4. UNCHANGED logDispatchCh BY <1>7 DEF CountNewcomer
  <2> QED BY <1>nat, <1>types, <2>1, <2>2, <2>3, <2>4 DEF NothingVanishes
<1>8. CASE Receive
  <2>1. UNCHANGED Holding /\ UNCHANGED Counting /\ UNCHANGED Dispatched
    BY <1>8 DEF Receive, producerVars, Counting, Holding, Dispatched
  <2>2. Owed' = Owed /\ Announcements' = Announcements
    BY <1>8, <1>nat, <1>types, <2>1 DEF Receive, Owed, Announcements, TypeOK
  <2>3. Len(logDispatchCh') = Len(logDispatchCh) - 1 /\ Len(taken') = Len(taken) + 1
    BY <1>8 DEF Receive, TypeOK
  <2> QED BY <1>nat, <1>types, <2>1, <2>2, <2>3 DEF NothingVanishes
<1>9. CASE Tick
  <2>1. UNCHANGED Holding /\ UNCHANGED Counting /\ UNCHANGED Dispatched
    BY <1>9 DEF Tick, producerVars, Counting, Holding, Dispatched
  <2>2. Owed' = Owed - dropCount BY <1>9, <1>nat, <1>types, <2>1 DEF Tick, Owed
  <2>3. Announcements' = dropCount + announced + swallowed BY <1>9 DEF Tick, Announcements
  <2>4. Announcements = 0 + announced + swallowed BY <1>9 DEF Tick, TypeOK, Announcements
  <2>5. Announcements' = Announcements + dropCount BY ONLY <1>types, <2>3, <2>4
  <2>6. UNCHANGED <<logDispatchCh, taken>> BY <1>9 DEF Tick
  <2> QED BY <1>nat, <1>types, <2>1, <2>2, <2>5, <2>6 DEF NothingVanishes
<1>10. CASE Route
  <2>1. UNCHANGED Holding /\ UNCHANGED Counting /\ UNCHANGED Dispatched
    BY <1>10 DEF Route, producerVars, Counting, Holding, Dispatched
  <2>2. Owed' = Owed /\ Announcements' = Announcements
    BY <1>10, <1>nat, <1>types, <2>1 DEF Route, Owed, Announcements, TypeOK
  <2>3. UNCHANGED <<logDispatchCh, taken>> BY <1>10 DEF Route
  <2> QED BY <1>nat, <1>types, <2>1, <2>2, <2>3 DEF NothingVanishes
<1>11. CASE Panic
  <2>1. UNCHANGED Holding /\ UNCHANGED Counting /\ UNCHANGED Dispatched
    BY <1>11 DEF Panic, producerVars, Counting, Holding, Dispatched
  <2>2. Owed' = Owed /\ Announcements' = Announcements
    BY <1>11, <1>nat, <1>types, <2>1 DEF Panic, Owed, Announcements, TypeOK
  <2>3. UNCHANGED <<logDispatchCh, taken>> BY <1>11 DEF Panic
  <2> QED BY <1>nat, <1>types, <2>1, <2>2, <2>3 DEF NothingVanishes
<1>12. CASE Respawn
  <2>1. UNCHANGED Holding /\ UNCHANGED Counting /\ UNCHANGED Dispatched
    BY <1>12 DEF Respawn, producerVars, Counting, Holding, Dispatched
  <2>2. Owed' = Owed /\ Announcements' = Announcements
    BY <1>12, <1>nat, <1>types, <2>1 DEF Respawn, Owed, Announcements, TypeOK
  <2>3. UNCHANGED <<logDispatchCh, taken>> BY <1>12 DEF Respawn
  <2> QED BY <1>nat, <1>types, <2>1, <2>2, <2>3 DEF NothingVanishes
<1>13. CASE UNCHANGED vars
  BY <1>13 DEF vars, loopVars, NothingVanishes, Owed, Announcements, Counting, Holding, Dispatched
<1> QED
  BY <1>1, <1>2, <1>3, <1>4, <1>5, <1>6, <1>7, <1>8, <1>9,
     <1>10, <1>11, <1>12, <1>13
  DEF Next, DispatchStep, LoopStep, Quiet

-----------------------------------------------------------------------------
\* Nothing is sent, held or counted at first.
LEMMA InitInv == Init => Inv
<1> SUFFICES ASSUME Init PROVE Inv OBVIOUS
<1>1. TypeOK BY BusAssumption DEF Init, TypeOK
<1>2. Counting = {} /\ Holding = {} BY DEF Init, Counting, Holding
<1>3. Dispatched = {} BY BusAssumption DEF Init, Dispatched, Events
<1>4. NothingVanishes BY <1>2, <1>3, FS_EmptySet DEF Init, NothingVanishes, Owed, Announcements
<1>5. Room BY DEF Init, Room
<1> QED BY <1>1, <1>4, <1>5 DEF Inv

\* Inv holds in every reachable state.
THEOREM InvAlways == Spec => []Inv
<1>1. Inv /\ [Next]_vars => Inv' BY TypesStep, RoomStep, NothingVanishesStep DEF Inv
<1> QED BY InitInv, <1>1, PTL DEF Spec

\* The types, for any number of producers and any capacity.
THEOREM TypesCorrect == Spec => []TypeOK
<1>1. Inv => TypeOK BY DEF Inv
<1> QED BY InvAlways, <1>1, PTL

\* Every event dispatched is held by its producer, in the channel, received, or
\* in a count that is announced or was swallowed by a panic, wherever the other
\* producers and the loop are in the middle of dispatch.
THEOREM NoEventVanishes == Spec => []NothingVanishes
<1>1. Inv => NothingVanishes BY DEF Inv
<1> QED BY InvAlways, <1>1, PTL

\* dispatch refuses its own event only if another producer sent one after this
\* one had made, or found, room.
THEOREM NewcomersKept == Spec => []NewcomerLostOnlyInRace
<1>1. Inv => NewcomerLostOnlyInRace BY DEF Inv, Room, NewcomerLostOnlyInRace
<1> QED BY InvAlways, <1>1, PTL

-----------------------------------------------------------------------------
(* The bus implements LossyLog.                                            *)

\* Every step of a producer and of the loop is one of the lossy log, or none.
LEMMA LossyStep == ASSUME TypeOK, [Next]_vars PROVE [Lossy!Next]_(Lossy!vars)
<1>nat. /\ dropCount \in Nat /\ report \in Nat /\ announced \in Nat /\ swallowed \in Nat
        /\ Cardinality(Counting) \in Nat
  BY BusAssumption, FS_Subset, FS_CardinalityType DEF Counting, TypeOK
<1>event. \A p \in Producers : pc[p] # "idle" => EventOf(p) \in Events
  BY BusAssumption DEF TypeOK, EventOf, Events
<1>1. ASSUME NEW p \in Producers, Dispatch(p) PROVE [Lossy!Next]_(Lossy!vars)
  <2>1. Owed' = Owed BY <1>1, Counts, <1>nat DEF Dispatch, One
  <2> QED BY <1>1, <2>1 DEF Dispatch, loopVars, Lossy!vars, Announcements
<1>2. ASSUME NEW p \in Producers, Put(p) PROVE [Lossy!Next]_(Lossy!vars)
  <2>1. Owed' = Owed BY <1>2, Counts, <1>nat DEF Put, One
  <2>2. EventOf(p) \in Events BY <1>2, <1>event DEF Put
  <2>3. Len(logDispatchCh) < Capacity BY <1>2, BusAssumption DEF Put, Full, TypeOK
  <2>4. Lossy!Accept(EventOf(p))
    BY <1>2, <2>1, <2>3 DEF Put, loopVars, Announcements, Lossy!Accept
  <2> QED BY <2>2, <2>4 DEF Lossy!Next
<1>3. ASSUME NEW p \in Producers, FindFull(p) PROVE [Lossy!Next]_(Lossy!vars)
  <2>1. Owed' = Owed BY <1>3, Counts, <1>nat DEF FindFull, One
  <2> QED BY <1>3, <2>1 DEF FindFull, loopVars, Lossy!vars, Announcements
<1>4. ASSUME NEW p \in Producers, TakeOldest(p) PROVE [Lossy!Next]_(Lossy!vars)
  <2>1. CASE logDispatchCh = <<>>
    <3>1. Owed' = Owed BY <1>4, <2>1, Counts, <1>nat DEF TakeOldest, One
    <3> QED BY <1>4, <2>1, <3>1 DEF TakeOldest, loopVars, Lossy!vars, Announcements
  <2>2. CASE logDispatchCh # <<>>
    <3>1. Owed' = Owed + 1 BY <1>4, <2>2, Counts, <1>nat DEF TakeOldest, One
    <3>2. Lossy!DropOldest
      BY <1>4, <2>2, <3>1 DEF TakeOldest, loopVars, Announcements, Lossy!DropOldest
    <3> QED BY <3>2 DEF Lossy!Next
  <2> QED BY <2>1, <2>2
<1>5. ASSUME NEW p \in Producers, CountOldest(p) PROVE [Lossy!Next]_(Lossy!vars)
  <2>1. Owed' = Owed BY <1>5, Counts, <1>nat DEF CountOldest, One
  <2> QED BY <1>5, <2>1 DEF CountOldest, loopVars, Lossy!vars, Announcements
<1>6. ASSUME NEW p \in Producers, RefuseNewcomer(p) PROVE [Lossy!Next]_(Lossy!vars)
  <2>1. Owed' = Owed + 1 BY <1>6, Counts, <1>nat DEF RefuseNewcomer, One
  <2>2. Lossy!DropNewcomer
    BY <1>6, <2>1 DEF RefuseNewcomer, loopVars, Announcements, Lossy!DropNewcomer
  <2> QED BY <2>2 DEF Lossy!Next
<1>7. ASSUME NEW p \in Producers, CountNewcomer(p) PROVE [Lossy!Next]_(Lossy!vars)
  <2>1. Owed' = Owed BY <1>7, Counts, <1>nat DEF CountNewcomer, One
  <2> QED BY <1>7, <2>1 DEF CountNewcomer, loopVars, Lossy!vars, Announcements
<1>8. CASE Receive
  <2>1. UNCHANGED Counting BY <1>8 DEF Receive, producerVars, Counting
  <2>2. Lossy!Deliver
    BY <1>8, <2>1 DEF Receive, Owed, Announcements, Lossy!Deliver
  <2> QED BY <2>2 DEF Lossy!Next
<1>9. CASE Tick
  <2>1. UNCHANGED Counting BY <1>9 DEF Tick, producerVars, Counting
  <2>2. Owed' = Owed - dropCount BY <1>9, <1>nat, <2>1 DEF Tick, Owed
  <2>3. Announcements' = dropCount + announced + swallowed BY <1>9 DEF Tick, Announcements
  <2>4. Announcements = 0 + announced + swallowed BY <1>9 DEF Tick, TypeOK, Announcements
  <2>5. Announcements' = Announcements + dropCount BY ONLY <1>nat, <2>3, <2>4
  <2>6. dropCount \in 1 .. Owed BY <1>9, <1>nat DEF Tick, Owed
  <2>7. Lossy!Announce(dropCount) BY <1>9, <2>2, <2>5, <2>6 DEF Tick, Lossy!Announce
  <2> QED BY <2>6, <2>7 DEF Lossy!Next
<1>10. CASE Route
  <2>1. UNCHANGED Counting BY <1>10 DEF Route, producerVars, Counting
  <2>2. Owed' = Owed BY <1>10, <2>1 DEF Route, Owed
  <2>3. Announcements' = Announcements BY <1>10, <1>nat DEF Route, Announcements
  <2> QED BY <1>10, <2>2, <2>3 DEF Route, Lossy!vars
<1>11. CASE Panic
  <2>1. UNCHANGED Counting BY <1>11 DEF Panic, producerVars, Counting
  <2>2. Owed' = Owed BY <1>11, <2>1 DEF Panic, Owed
  <2>3. Announcements' = Announcements BY <1>11, <1>nat DEF Panic, Announcements
  <2> QED BY <1>11, <2>2, <2>3 DEF Panic, Lossy!vars
<1>12. CASE Respawn
  <2>1. UNCHANGED Counting BY <1>12 DEF Respawn, producerVars, Counting
  <2>2. Owed' = Owed BY <1>12, <2>1 DEF Respawn, Owed
  <2>3. Announcements' = Announcements BY <1>12, <1>nat DEF Respawn, Announcements
  <2> QED BY <1>12, <2>2, <2>3 DEF Respawn, Lossy!vars
<1>13. CASE UNCHANGED vars
  BY <1>13 DEF vars, loopVars, Owed, Counting, Announcements, Lossy!vars
<1> QED
  BY <1>1, <1>2, <1>3, <1>4, <1>5, <1>6, <1>7, <1>8, <1>9,
     <1>10, <1>11, <1>12, <1>13
  DEF Next, DispatchStep, LoopStep, Quiet

\* dispatch and dispatchLoop together lose nothing but the oldest pending events
\* and refused newcomers, deliver the rest in the order it was accepted, and owe an
\* announcement for every one lost, although they count late and swap the count out.
THEOREM BusImplementsLossyLog == Spec => KeepsLossyLog
<1>1. Init => Lossy!Init
  <2> SUFFICES ASSUME Init PROVE Lossy!Init OBVIOUS
  <2>1. Counting = {} BY DEF Init, Counting
  <2> QED BY <2>1, FS_EmptySet DEF Init, Owed, Announcements, Lossy!Init
<1>2. TypeOK /\ [Next]_vars => [Lossy!Next]_(Lossy!vars) BY LossyStep
<1> QED BY TypesCorrect, <1>1, <1>2, PTL DEF Spec, KeepsLossyLog, Lossy!Spec

-----------------------------------------------------------------------------
(* The recorder of DNS queries.                                            *)

\* A query in flight and what was recorded of it: together at most one record, and
\* exactly one where one is due; the service in place records once.
Flight ==
  /\ service \in {Nil, 0, 1}
  /\ ~applying => service # 0
  /\ \A q \in Queries :
       /\ state[q] = "new" => layers[q] = 0 /\ recorded[q] = 0
       /\ layers[q] + recorded[q] <= 1
       /\ state[q] # "new" /\ due[q] => layers[q] + recorded[q] = 1
       /\ state[q] = "answered" => layers[q] = 0

DnsInv == DnsTypeOK /\ Flight

-----------------------------------------------------------------------------
(* One lap of the ring.                                                    *)

\* An index less than two laps on wraps at most once.
LEMMA Wraps ==
  ASSUME NEW x \in Int, 0 <= x, x < LogCapacity + LogCapacity
  PROVE  x % LogCapacity = IF x < LogCapacity THEN x ELSE x - LogCapacity
BY LogCapacityAssumption

\* The slot next - i, counted around the ring.
Behind(n, i) == IF i <= n THEN n - i ELSE n - i + LogCapacity

Used == IF full THEN LogCapacity ELSE next

\* What Log.Snapshot returns, slot by slot.
LEMMA SnapshotIs ==
  DnsTypeOK => /\ Used \in 0 .. LogCapacity
            /\ Snapshot = [i \in 1 .. Used |-> entries[Behind(next, i)]]
            /\ Len(Snapshot) = Used
<1> SUFFICES ASSUME DnsTypeOK
             PROVE  /\ Used \in 0 .. LogCapacity
                    /\ Snapshot = [i \in 1 .. Used |-> entries[Behind(next, i)]]
                    /\ Len(Snapshot) = Used
  OBVIOUS
<1>1. next \in Nat /\ next < LogCapacity /\ LogCapacity \in Nat /\ Used \in 0 .. LogCapacity
  BY LogCapacityAssumption DEF DnsTypeOK, Slots, Used
<1>2. \A i \in 1 .. Used : (next - i + LogCapacity) % LogCapacity = Behind(next, i)
  <2> TAKE i \in 1 .. Used
  <2>1. (next - i + LogCapacity) % LogCapacity =
          IF next - i + LogCapacity < LogCapacity THEN next - i + LogCapacity ELSE next - i
    BY <1>1, Wraps
  <2> QED BY <1>1, <2>1 DEF Behind
<1>3. Snapshot = [i \in 1 .. Used |-> entries[Behind(next, i)]]
  BY <1>2 DEF Snapshot, Used
<1> QED BY <1>1, <1>3

\* Adding a query to the ring pushes it onto the history.
LEMMA AddPushes ==
  ASSUME DnsTypeOK, DnsTypeOK', NEW q \in Queries, Add(q)
  PROVE  Snapshot' = History!Push(q, Snapshot)
<1>1. /\ next \in Nat /\ next < LogCapacity /\ LogCapacity \in Nat
      /\ next' = IF next + 1 < LogCapacity THEN next + 1 ELSE 0
  <2>1. next \in Nat /\ next < LogCapacity /\ LogCapacity \in Nat \ {0}
    BY LogCapacityAssumption DEF DnsTypeOK, Slots
  <2>2. (next + 1) % LogCapacity = IF next + 1 < LogCapacity THEN next + 1 ELSE 0
    BY <2>1, Wraps
  <2> QED BY <2>1, <2>2 DEF Add
<1>2. Used' = IF Used < LogCapacity THEN Used + 1 ELSE LogCapacity
  <2>1. CASE full
    <3>1. full' BY <2>1 DEF Add
    <3> QED BY <1>1, <2>1, <3>1 DEF Used
  <2>2. CASE ~full /\ next + 1 < LogCapacity
    <3>1. next' # 0 BY <1>1, <2>2
    <3>2. ~full' BY <2>2, <3>1 DEF Add
    <3> QED BY <1>1, <2>2, <3>2 DEF Used
  <2>3. CASE ~full /\ next + 1 = LogCapacity BY <1>1, <2>3 DEF Add, Used
  <2> QED BY <1>1, <2>1, <2>2, <2>3
<1>3. ASSUME NEW i \in 1 .. Used'
      PROVE  entries'[Behind(next', i)] =
               IF i = 1 THEN q ELSE entries[Behind(next, i - 1)]
  <2>1. i \in Nat /\ 1 <= i /\ i <= LogCapacity BY SnapshotIs, <1>1, <1>2
  <2>2. CASE i = 1
    <3>1. Behind(next', i) = next BY <1>1, <2>2 DEF Behind
    <3> QED BY <2>2, <3>1 DEF Add, DnsTypeOK
  <2>3. CASE i # 1
    <3>1. Behind(next', i) = Behind(next, i - 1) BY <1>1, <2>1, <2>3 DEF Behind
    <3>2. Behind(next, i - 1) # next /\ Behind(next, i - 1) \in Slots
      BY <1>1, <2>1, <2>3 DEF Behind, Slots
    <3> QED BY <2>3, <3>1, <3>2 DEF Add, DnsTypeOK
  <2> QED BY <2>2, <2>3
<1>4. Snapshot' = [i \in 1 .. Used' |-> entries'[Behind(next', i)]]
  <2>1. DnsTypeOK' => (Snapshot = [i \in 1 .. Used |-> entries[Behind(next, i)]])'
    BY SnapshotIs, PTL
  <2> QED BY <2>1
<1> QED BY <1>2, <1>3, <1>4, SnapshotIs DEF History!Push

\* Log.Clear leaves nothing to return.
LEMMA ClearEmpties ==
  ASSUME DnsTypeOK', Clear PROVE Snapshot' = << >>
<1>1. DnsTypeOK' => (Snapshot = [i \in 1 .. Used |-> entries[Behind(next, i)]])'
  BY SnapshotIs, PTL
<1>2. Used' = 0 BY DEF Clear, Used
<1> QED BY <1>1, <1>2

-----------------------------------------------------------------------------
\* A new log satisfies the invariant.
LEMMA DnsInitInv == DnsInit => DnsInv
<1> SUFFICES ASSUME DnsInit PROVE DnsInv OBVIOUS
<1>1. entries \in [Slots -> Queries \cup {Nil}] BY DEF DnsInit
<1>2. next \in Slots BY LogCapacityAssumption DEF DnsInit, Slots
<1>3. due \in [Queries -> BOOLEAN] /\ \A q \in Queries : state[q] = "new"
  BY DEF DnsInit
<1>4. Flight BY <1>3, NilAssumption DEF DnsInit, Flight
<1> QED BY <1>1, <1>2, <1>3, <1>4 DEF DnsInit, DnsInv, DnsTypeOK

\* Every step of the recorder keeps next inside the buffer.
LEMMA DnsTypesStep == ASSUME DnsTypeOK, [DnsNext]_dnsVars PROVE DnsTypeOK'
<1> USE LogCapacityAssumption, NilAssumption DEF DnsTypeOK, logVars, queryVars
<1>1. CASE Clear
  <2>1. entries' \in [Slots -> Queries \cup {Nil}] BY <1>1 DEF Clear
  <2>2. next' \in Slots BY <1>1 DEF Clear, Slots
  <2> QED BY <1>1, <2>1, <2>2 DEF Clear
<1>2. CASE ReplaceService BY <1>2 DEF ReplaceService
<1>3. CASE Install BY <1>3 DEF Install
<1>4. ASSUME NEW q \in Queries, Ask(q) PROVE DnsTypeOK' BY <1>4 DEF Ask
<1>5. ASSUME NEW q \in Queries, Record(q) PROVE DnsTypeOK'
  <2>1. next' \in Slots BY <1>5 DEF Record, Add, Slots
  <2>2. full' \in BOOLEAN BY <1>5 DEF Record, Add
  <2> QED BY <1>5, <2>1, <2>2 DEF Record, Add
<1>6. ASSUME NEW q \in Queries, Return(q) PROVE DnsTypeOK' BY <1>6 DEF Return
<1>7. CASE UNCHANGED dnsVars BY <1>7 DEF dnsVars
<1> QED BY <1>1, <1>2, <1>3, <1>4, <1>5, <1>6, <1>7 DEF DnsNext

\* A query in flight still has at most its one record due.
LEMMA FlightStep == ASSUME DnsTypeOK, Flight, [DnsNext]_dnsVars PROVE Flight'
<1> USE NilAssumption DEF DnsTypeOK, Flight, logVars, queryVars
<1>1. CASE Clear BY <1>1 DEF Clear
<1>2. CASE ReplaceService BY <1>2 DEF ReplaceService
<1>3. CASE Install BY <1>3 DEF Install
<1>4. ASSUME NEW q \in Queries, Ask(q) PROVE Flight'
  <2>1. PICK question \in BOOLEAN :
          /\ layers' = [layers EXCEPT ![q] = IF question THEN service ELSE 0]
          /\ due' = [due EXCEPT ![q] = question /\ ~applying]
    BY <1>4 DEF Ask
  <2>2. due'[q] => question /\ ~applying BY <2>1
  <2>3. \A r \in Queries \ {q} : due'[r] = due[r] BY <2>1
  <2>4. layers'[q] \in {0, 1} /\ (due'[q] => layers'[q] = 1)
    BY <1>4, <2>1, <2>2 DEF Ask
  <2>5. \A r \in Queries \ {q} : layers'[r] = layers[r] /\ state'[r] = state[r]
    BY <1>4, <2>1 DEF Ask
  <2>6. state[q] = "new" /\ state'[q] = "asked" BY <1>4 DEF Ask
  <2> QED BY <1>4, <2>3, <2>4, <2>5, <2>6 DEF Ask
<1>5. ASSUME NEW q \in Queries, Record(q) PROVE Flight' BY <1>5 DEF Record
<1>6. ASSUME NEW q \in Queries, Return(q) PROVE Flight' BY <1>6 DEF Return
<1>7. CASE UNCHANGED dnsVars BY <1>7 DEF dnsVars
<1> QED BY <1>1, <1>2, <1>3, <1>4, <1>5, <1>6, <1>7 DEF DnsNext

\* Every state of the recorder (dnsquery.go) satisfies the invariant: the ring
\* is within its buffer, and a query in flight is owed at most one record.
THEOREM DnsInvAlways == DnsSpec => []DnsInv
<1>1. DnsInv /\ [DnsNext]_dnsVars => DnsInv' BY DnsTypesStep, FlightStep DEF DnsInv
<1> QED BY DnsInitInv, <1>1, PTL DEF DnsSpec

\* The ring stays within its buffer.
THEOREM DnsTypesCorrect == DnsSpec => []DnsTypeOK
<1>1. DnsInv => DnsTypeOK BY DEF DnsInv
<1> QED BY DnsInvAlways, <1>1, PTL

\* A query is recorded once: no apply, however placed, has it recorded twice,
\* and only one under way when it is put keeps it from being recorded.
THEOREM EachRecordedOnce == DnsSpec => []RecordedOnce
<1>1. ASSUME DnsInv, NEW q \in Queries
      PROVE  /\ recorded[q] <= 1
             /\ state[q] = "answered" /\ due[q] => recorded[q] = 1
  <2>1. layers[q] \in Nat /\ recorded[q] \in Nat BY <1>1 DEF DnsInv, DnsTypeOK
  <2>2. layers[q] + recorded[q] <= 1 BY <1>1 DEF DnsInv, Flight
  <2>3. ASSUME state[q] = "answered", due[q] PROVE recorded[q] = 1
    <3>1. layers[q] = 0 BY <1>1, <2>3 DEF DnsInv, Flight
    <3>2. layers[q] + recorded[q] = 1 BY <1>1, <2>3 DEF DnsInv, Flight
    <3> QED BY <2>1, <3>1, <3>2
  <2> QED BY <2>1, <2>2, <2>3
<1>2. DnsInv => RecordedOnce BY <1>1 DEF RecordedOnce
<1> QED BY DnsInvAlways, <1>2, PTL

\* The ring buffer with its wrapping index implements the bounded history, for
\* every capacity: Record is a Push, Clear a Forget, everything else a stutter.
THEOREM RingKeepsHistory == DnsSpec => KeepsHistory
<1>1. DnsInit => History!Init
  <2>1. DnsInit => Used = 0 /\ DnsTypeOK
    BY DnsInitInv DEF DnsInit, Used, DnsInv
  <2> QED BY <2>1, SnapshotIs DEF History!Init
<1>2. DnsTypeOK /\ DnsTypeOK' /\ [DnsNext]_dnsVars => [History!Next]_Snapshot
  <2> SUFFICES ASSUME DnsTypeOK, DnsTypeOK', [DnsNext]_dnsVars PROVE [History!Next]_Snapshot
    OBVIOUS
  <2>1. CASE Clear BY <2>1, ClearEmpties DEF History!Next, History!Forget
  <2>2. ASSUME NEW q \in Queries, Record(q) PROVE History!Next
    BY <2>2, AddPushes DEF Record, History!Next, History!Record
  <2>3. CASE UNCHANGED logVars BY <2>3 DEF logVars, Snapshot
  <2>4. Clear \/ (\E q \in Queries : Record(q)) \/ UNCHANGED logVars
    BY DEF DnsNext, dnsVars, ReplaceService, Install, Ask, Return
  <2> QED BY <2>1, <2>2, <2>3, <2>4
<1> QED BY <1>1, <1>2, DnsTypesCorrect, PTL DEF DnsSpec, KeepsHistory, History!Spec

=============================================================================
