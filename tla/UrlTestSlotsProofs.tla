------------------------- MODULE UrlTestSlotsProofs --------------------------
(***************************************************************************)
(* Proofs about UrlTestSlots, for any number of tests and slots.  The      *)
(* inductive invariant, Inv, joins to the types and to SlotsAccounted      *)
(*                                                                         *)
(*   - Queue: who waits is in the queue, once, so that a slot that is      *)
(*     passed on goes to somebody who has none;                            *)
(*   - Work: how far a call and its goroutine can be apart;                *)
(*   - Answers: a delay that is answered came back before the deadline.    *)
(***************************************************************************)
EXTENDS UrlTestSlots, SequenceTheorems, FiniteSetTheorems, TLAPS

Queue ==
  /\ \A i \in 1 .. Len(waiters) : pc[waiters[i]] = "waiting"
  /\ \A i, j \in 1 .. Len(waiters) : waiters[i] = waiters[j] => i = j
  /\ \A t \in Tests : pc[t] = "waiting" => \E i \in 1 .. Len(waiters) : waiters[i] = t

Work ==
  \A t \in Tests :
    /\ pc[t] \in {"idle", "waiting", "granted", "holding"} => worker[t] = "unborn"
    /\ pc[t] \in {"await", "check"} => worker[t] # "unborn"

Answers ==
  /\ late \subseteq over
  /\ \A t \in Tests :
       /\ pc[t] = "check" => ch[t] # None
       /\ ch[t] # None => worker[t] \in {"release", "done"} /\ result[t] = ch[t]
       /\ answer[t] = "ok" => t \notin late /\ ch[t] = "ok"

Inv == TypeOK /\ Queue /\ Work /\ Answers /\ SlotsAccounted

-----------------------------------------------------------------------------
(* The queue.                                                              *)

\* What is left of a sequence when one element is taken out of it.
LEMMA WithoutOne ==
  ASSUME NEW S, NEW s \in Seq(S), NEW i \in 1 .. Len(s)
  PROVE  /\ RemoveAt(s, i) \in Seq(S)
         /\ Len(RemoveAt(s, i)) = Len(s) - 1
         /\ \A j \in 1 .. Len(s) - 1 : RemoveAt(s, i)[j] = IF j < i THEN s[j] ELSE s[j + 1]
<1> DEFINE a == SubSeq(s, 1, i - 1)
           b == SubSeq(s, i + 1, Len(s))
<1>1. Len(s) \in Nat /\ \A j \in 1 .. Len(s) : s[j] \in S OBVIOUS
<1>2. /\ a \in Seq(S) /\ Len(a) = i - 1
      /\ \A j \in 1 .. i - 1 : a[j] = s[j]
  BY <1>1, SubSeqProperties
<1>3. /\ b \in Seq(S) /\ Len(b) = Len(s) - i
      /\ \A j \in 1 .. Len(s) - i : b[j] = s[i + j]
  BY <1>1, SubSeqProperties
<1>4. RemoveAt(s, i) = a \o b BY DEF RemoveAt
<1> HIDE DEF a, b
<1>5. /\ a \o b \in Seq(S) /\ Len(a \o b) = Len(s) - 1
      /\ \A j \in 1 .. Len(s) - 1 : (a \o b)[j] = IF j <= Len(a) THEN a[j] ELSE b[j - Len(a)]
  <2>1. /\ a \o b \in Seq(S) /\ Len(a \o b) = Len(a) + Len(b)
        /\ \A j \in 1 .. Len(a) + Len(b) : (a \o b)[j] = IF j <= Len(a) THEN a[j] ELSE b[j - Len(a)]
    BY <1>2, <1>3, ConcatProperties
  <2>2. Len(a) + Len(b) = Len(s) - 1 BY <1>1, <1>2, <1>3
  <2> QED BY <2>1, <2>2
<1>6. ASSUME NEW j \in 1 .. Len(s) - 1
      PROVE  (a \o b)[j] = IF j < i THEN s[j] ELSE s[j + 1]
  <2>1. CASE j < i BY <1>2, <1>5, <2>1
  <2>2. CASE j >= i
    <3>1. j - (i - 1) \in 1 .. Len(s) - i BY <1>1, <2>2
    <3>2. b[j - (i - 1)] = s[i + (j - (i - 1))] BY <1>3, <3>1
    <3>3. i + (j - (i - 1)) = j + 1 /\ ~(j <= Len(a)) /\ j - Len(a) = j - (i - 1)
      BY <1>1, <1>2, <2>2
    <3> QED BY <1>5, <2>2, <3>2, <3>3
  <2>3. i \in Int /\ j \in Int BY <1>1
  <2>4. j < i \/ j >= i BY <2>3
  <2> QED BY <2>1, <2>2, <2>4
<1> QED BY <1>4, <1>5, <1>6

\* Where the calls are once a slot is given back, or passed on to one who waits.
PassedOn(from) ==
  /\ pc' \in [Tests -> Labels]
  /\ \/ cur' = cur - 1 /\ pc' = from
     \/ \E h \in Tests :
          pc[h] = "waiting" /\ cur' = cur /\ pc' = [from EXCEPT ![h] = "granted"]

\* Release gives the slot back, or passes it on to one who waits.
LEMMA GivenBack ==
  ASSUME TypeOK, Queue, NEW from,
         from \in [Tests -> Labels],
         \A t \in Tests : from[t] = "waiting" <=> pc[t] = "waiting",
         GiveBack(from)
  PROVE  /\ waiters' \in Seq(Tests)
         /\ Queue'
         /\ PassedOn(from)
<1>1. CASE waiters = <<>> BY <1>1 DEF GiveBack, TypeOK, Queue, PassedOn
<1>2. CASE waiters # <<>>
  <2> DEFINE h == Head(waiters)
  <2>1. /\ waiters' = Tail(waiters) /\ cur' = cur
        /\ pc' = [from EXCEPT ![h] = "granted"]
    BY <1>2 DEF GiveBack
  <2>2. /\ h = waiters[1] /\ h \in Tests
        /\ Tail(waiters) \in Seq(Tests) /\ Len(Tail(waiters)) = Len(waiters) - 1
        /\ \A i \in 1 .. Len(waiters) - 1 : Tail(waiters)[i] = waiters[i + 1]
    BY <1>2 DEF TypeOK
  <2>3. Len(waiters) \in Nat /\ Len(waiters) > 0 BY <1>2 DEF TypeOK
  <2>4. pc[h] = "waiting" BY <2>2, <2>3 DEF Queue
  <2> HIDE DEF h
  <2>5. ASSUME NEW i \in 1 .. Len(waiters')
        PROVE  waiters'[i] = waiters[i + 1] /\ i + 1 \in 1 .. Len(waiters) /\ waiters'[i] # h
    BY <2>1, <2>2, <2>3 DEF Queue
  <2>6. \A i \in 1 .. Len(waiters') : pc'[waiters'[i]] = "waiting"
    BY <2>1, <2>2, <2>5 DEF Queue, TypeOK
  <2>7. \A i, j \in 1 .. Len(waiters') : waiters'[i] = waiters'[j] => i = j
    BY <2>3, <2>5 DEF Queue
  <2>8. ASSUME NEW t \in Tests, pc'[t] = "waiting"
        PROVE  \E i \in 1 .. Len(waiters') : waiters'[i] = t
    <3>1. t # h /\ pc[t] = "waiting" BY <2>1, <2>2, <2>8
    <3>2. PICK i \in 1 .. Len(waiters) : waiters[i] = t BY <3>1 DEF Queue
    <3>3. i # 1 BY <2>2, <3>1, <3>2
    <3>4. i - 1 \in 1 .. Len(waiters') BY <2>1, <2>2, <2>3, <3>2, <3>3
    <3>5. waiters'[i - 1] = t BY <2>3, <2>5, <3>2, <3>4
    <3> QED BY <3>4, <3>5
  <2>9. pc' \in [Tests -> Labels] BY <2>1 DEF Labels
  <2> QED BY <2>1, <2>2, <2>4, <2>6, <2>7, <2>8, <2>9 DEF Queue, PassedOn
<1> QED BY <1>1, <1>2

\* A test that occupies a slot is one of those counted.
LEMMA Occupies ==
  ASSUME Inv
  PROVE  /\ IsFiniteSet(Occupied)
         /\ \A t \in Tests :
              pc[t] \in {"granted", "holding"} \/ worker[t] \in {"testing", "send", "release"} => cur > 0
<1>1. IsFiniteSet(Occupied) BY SlotsAssumption, FS_Subset DEF Occupied
<1>2. \A t \in Occupied : Cardinality(Occupied) > 0
  BY <1>1, FS_EmptySet, FS_CardinalityType
<1> QED BY <1>1, <1>2 DEF Inv, SlotsAccounted, Occupied

\* The same, of a test that was granted its slot too late.
LEMMA GiveUpGrant ==
  ASSUME Inv, NEW t \in Tests, RefuseGranted(t)
  PROVE  /\ waiters' \in Seq(Tests) /\ Queue'
         /\ PassedOn([pc EXCEPT ![t] = "answered"])
<1> DEFINE from == [pc EXCEPT ![t] = "answered"]
<1>1. GiveBack(from) BY DEF RefuseGranted
<1>2. from \in [Tests -> Labels]
  BY DEF Inv, TypeOK, Labels
<1>3. \A u \in Tests : from[u] = "waiting" <=> pc[u] = "waiting" BY DEF RefuseGranted, Inv, TypeOK
<1> HIDE DEF from
<1>4. /\ waiters' \in Seq(Tests) /\ Queue'
      /\ PassedOn(from)
  BY <1>1, <1>2, <1>3, GivenBack DEF Inv, PassedOn
<1> QED BY <1>4 DEF from

\* And of a goroutine that is done.
LEMMA GiveUpSlot ==
  ASSUME Inv, NEW t \in Tests, Release(t)
  PROVE  waiters' \in Seq(Tests) /\ Queue' /\ PassedOn(pc)
BY GivenBack DEF Release, Inv, TypeOK, PassedOn

\* Either way no call moves but the one that answers and the one that is passed
\* the slot.
LEMMA CallsMoved ==
  ASSUME Inv, NEW t \in Tests, RefuseGranted(t) \/ Release(t)
  PROVE  \A u \in Tests :
           \/ pc'[u] = pc[u] \/ pc'[u] = "answered"
           \/ pc[u] = "waiting" /\ pc'[u] = "granted"
<1>1. PICK from \in {pc, [pc EXCEPT ![t] = "answered"]} : PassedOn(from)
  BY GiveUpGrant, GiveUpSlot
<1>2. /\ from \in [Tests -> Labels]
      /\ \A u \in Tests : from[u] = pc[u] \/ from[u] = "answered"
  BY DEF Inv, TypeOK, Labels
<1>3. CASE pc' = from BY <1>2, <1>3
<1>4. CASE \E h \in Tests : pc[h] = "waiting" /\ pc' = [from EXCEPT ![h] = "granted"]
  BY <1>2, <1>4
<1> QED BY <1>1, <1>3, <1>4 DEF PassedOn

\* Whoever is granted a slot, or given up, has left the queue; the others keep
\* their places.
LEMMA QueueStep == ASSUME Inv, [Next]_vars PROVE Queue'
<1> USE SlotsAssumption DEF Inv, TypeOK, Labels, Queue, Goto, Answer, callVars, workVars
<1>1. ASSUME NEW t \in Tests, Acquire(t) PROVE Queue'
  <2>1. CASE waiters' = waiters /\ pc' = [pc EXCEPT ![t] = "holding"] BY <1>1, <2>1 DEF Acquire
  <2>2. CASE waiters' = Append(waiters, t) /\ pc' = [pc EXCEPT ![t] = "waiting"]
    <3>1. /\ Len(waiters) \in Nat /\ Len(waiters') = Len(waiters) + 1
          /\ \A i \in 1 .. Len(waiters) : waiters'[i] = waiters[i] /\ waiters[i] # t
          /\ waiters'[Len(waiters) + 1] = t
      BY <1>1, <2>2, AppendProperties DEF Acquire
    <3>2. \A i \in 1 .. Len(waiters') : pc'[waiters'[i]] = "waiting" BY <2>2, <3>1
    <3>3. \A i, j \in 1 .. Len(waiters') : waiters'[i] = waiters'[j] => i = j
      <4>1. \A i, j \in 1 .. Len(waiters) : waiters[i] = waiters[j] => i = j OBVIOUS
      <4> QED BY ONLY <3>1, <4>1
    <3>4. ASSUME NEW u \in Tests, pc'[u] = "waiting"
          PROVE  \E i \in 1 .. Len(waiters') : waiters'[i] = u
      BY <2>2, <3>1, <3>4
    <3> QED BY <3>2, <3>3, <3>4
  <2> QED BY <1>1, <2>1, <2>2 DEF Acquire
<1>2. ASSUME NEW t \in Tests, Wake(t) PROVE Queue' BY <1>2 DEF Wake
<1>3. ASSUME NEW t \in Tests, RefuseGranted(t) PROVE Queue' BY <1>3, GiveUpGrant
<1>4. ASSUME NEW t \in Tests, GiveUp(t) PROVE Queue'
  <2>1. PICK i \in 1 .. Len(waiters) : waiters[i] = t /\ waiters' = RemoveAt(waiters, i)
    BY <1>4 DEF GiveUp
  <2>2. /\ Len(waiters) \in Nat /\ Len(waiters') = Len(waiters) - 1
        /\ \A j \in 1 .. Len(waiters) - 1 : waiters'[j] = IF j < i THEN waiters[j] ELSE waiters[j + 1]
    <3>1. waiters \in Seq(Tests) OBVIOUS
    <3>2. /\ Len(RemoveAt(waiters, i)) = Len(waiters) - 1
          /\ \A j \in 1 .. Len(waiters) - 1 :
               RemoveAt(waiters, i)[j] = IF j < i THEN waiters[j] ELSE waiters[j + 1]
      BY ONLY <3>1, <2>1, WithoutOne
    <3> QED BY <3>1, <3>2, <2>1
  <2>3. pc' = [pc EXCEPT ![t] = "answered"] BY <1>4 DEF GiveUp
  <2> DEFINE old(j) == IF j < i THEN j ELSE j + 1
  <2>4. \A j \in 1 .. Len(waiters') :
          old(j) \in 1 .. Len(waiters) /\ old(j) # i /\ waiters'[j] = waiters[old(j)]
    BY <2>2
  <2>5. \A j \in 1 .. Len(waiters') : waiters'[j] # t BY <2>1, <2>4
  <2>6. \A j \in 1 .. Len(waiters') : pc'[waiters'[j]] = "waiting" BY <2>3, <2>4, <2>5
  <2>7. \A j, k \in 1 .. Len(waiters') : waiters'[j] = waiters'[k] => j = k
    <3>1. \A j, k \in 1 .. Len(waiters') : old(j) = old(k) => j = k BY <2>2
    <3>2. \A x, y \in 1 .. Len(waiters) : waiters[x] = waiters[y] => x = y BY DEF Queue
    <3> HIDE DEF old
    <3> QED BY ONLY <2>4, <3>1, <3>2
  <2>8. ASSUME NEW u \in Tests, pc'[u] = "waiting"
        PROVE  \E j \in 1 .. Len(waiters') : waiters'[j] = u
    <3>1. u # t /\ pc[u] = "waiting" BY <2>3, <2>8
    <3>2. PICK k \in 1 .. Len(waiters) : waiters[k] = u BY <3>1
    <3>3. CASE k < i BY <2>2, <3>2, <3>3
    <3>4. CASE k > i
      <4>1. k - 1 \in 1 .. Len(waiters') /\ ~(k - 1 < i) BY <2>2, <3>4
      <4>2. waiters'[k - 1] = waiters[k - 1 + 1] BY <2>2, <4>1
      <4> QED BY <3>2, <4>1, <4>2
    <3> QED BY <2>1, <3>1, <3>2, <3>3, <3>4
  <2> QED BY <2>6, <2>7, <2>8
<1>5. ASSUME NEW t \in Tests, Start(t) PROVE Queue' BY <1>5 DEF Start
<1>6. ASSUME NEW t \in Tests, TakeResult(t) PROVE Queue' BY <1>6 DEF TakeResult
<1>7. ASSUME NEW t \in Tests, Judge(t) PROVE Queue' BY <1>7 DEF Judge
<1>8. ASSUME NEW t \in Tests, TimeOut(t) PROVE Queue' BY <1>8 DEF TimeOut
<1>9. ASSUME NEW t \in Tests, Send(t) PROVE Queue' BY <1>9 DEF Send
<1>10. ASSUME NEW t \in Tests, Release(t) PROVE Queue' BY <1>10, GiveUpSlot
<1>11. ASSUME NEW t \in Tests, SlotWaitOver(t) PROVE Queue' BY <1>11 DEF SlotWaitOver
<1>12. ASSUME NEW t \in Tests, DeadlinePasses(t) PROVE Queue' BY <1>12 DEF DeadlinePasses
<1>13. ASSUME NEW t \in Tests, NEW r \in {"ok", "failed"}, UrlTestReturns(t, r) PROVE Queue'
  BY <1>13 DEF UrlTestReturns
<1>14. CASE UNCHANGED vars BY <1>14 DEF vars
<1> QED
  BY <1>1, <1>2, <1>3, <1>4, <1>5, <1>6, <1>7, <1>8, <1>9, <1>10,
     <1>11, <1>12, <1>13, <1>14 DEF Next, Quiet, CallStep, WorkerStep, Passes

\* Every step keeps the types.
LEMMA TypesStep == ASSUME Inv, [Next]_vars PROVE TypeOK'
<1>occupied. \A t \in Tests :
               pc[t] \in {"granted", "holding"} \/ worker[t] \in {"testing", "send", "release"} => cur > 0
  BY Occupies
<1>granted. \A t \in Tests : RefuseGranted(t) =>
              waiters' \in Seq(Tests) /\ PassedOn([pc EXCEPT ![t] = "answered"])
  BY GiveUpGrant
<1>released. \A t \in Tests : Release(t) => waiters' \in Seq(Tests) /\ PassedOn(pc)
  BY GiveUpSlot
<1> USE SlotsAssumption DEF Inv, TypeOK, Labels, Goto, Answer, callVars, workVars
<1>1. ASSUME NEW t \in Tests, Acquire(t) PROVE TypeOK'
  <2>1. CASE waiters' = waiters BY <1>1, <2>1 DEF Acquire
  <2>2. CASE waiters' = Append(waiters, t) BY <1>1, <2>2, AppendProperties DEF Acquire
  <2> QED BY <1>1, <2>1, <2>2 DEF Acquire
<1>2. ASSUME NEW t \in Tests, Wake(t) PROVE TypeOK' BY <1>2 DEF Wake
<1>3. ASSUME NEW t \in Tests, RefuseGranted(t) PROVE TypeOK'
  <2>1. cur > 0 BY <1>3, <1>occupied DEF RefuseGranted
  <2>2. waiters' \in Seq(Tests) /\ pc' \in [Tests -> Labels] /\ cur' \in {cur, cur - 1}
    BY <1>3, <1>granted DEF PassedOn
  <2>3. /\ pc[t] = "granted" /\ answer' = [answer EXCEPT ![t] = "failed"]
        /\ UNCHANGED <<slotOver, over, worker, result, ch, late>>
    BY <1>3 DEF RefuseGranted
  <2> QED BY <2>1, <2>2, <2>3
<1>4. ASSUME NEW t \in Tests, GiveUp(t) PROVE TypeOK'
  <2>1. waiters' \in Seq(Tests) BY <1>4, WithoutOne DEF GiveUp
  <2> QED BY <1>4, <2>1 DEF GiveUp
<1>5. ASSUME NEW t \in Tests, Start(t) PROVE TypeOK' BY <1>5 DEF Start
<1>6. ASSUME NEW t \in Tests, TakeResult(t) PROVE TypeOK' BY <1>6 DEF TakeResult
<1>7. ASSUME NEW t \in Tests, Judge(t) PROVE TypeOK' BY <1>7 DEF Judge
<1>8. ASSUME NEW t \in Tests, TimeOut(t) PROVE TypeOK' BY <1>8 DEF TimeOut
<1>9. ASSUME NEW t \in Tests, Send(t) PROVE TypeOK' BY <1>9 DEF Send
<1>10. ASSUME NEW t \in Tests, Release(t) PROVE TypeOK'
  <2>1. cur > 0 BY <1>10, <1>occupied DEF Release
  <2>2. waiters' \in Seq(Tests) /\ pc' \in [Tests -> Labels] /\ cur' \in {cur, cur - 1}
    BY <1>10, <1>released DEF PassedOn
  <2>3. /\ worker[t] = "release" /\ worker' = [worker EXCEPT ![t] = "done"]
        /\ UNCHANGED <<slotOver, over, answer, result, ch, late>>
    BY <1>10 DEF Release
  <2> QED BY <2>1, <2>2, <2>3
<1>11. ASSUME NEW t \in Tests, SlotWaitOver(t) PROVE TypeOK' BY <1>11 DEF SlotWaitOver
<1>12. ASSUME NEW t \in Tests, DeadlinePasses(t) PROVE TypeOK' BY <1>12 DEF DeadlinePasses
<1>13. ASSUME NEW t \in Tests, NEW r \in {"ok", "failed"}, UrlTestReturns(t, r) PROVE TypeOK'
  BY <1>13 DEF UrlTestReturns
<1>14. CASE UNCHANGED vars BY <1>14 DEF vars
<1> QED
  BY <1>1, <1>2, <1>3, <1>4, <1>5, <1>6, <1>7, <1>8, <1>9, <1>10,
     <1>11, <1>12, <1>13, <1>14 DEF Next, Quiet, CallStep, WorkerStep, Passes

\* A call has a goroutine exactly when it has got past Start.
LEMMA WorkStep == ASSUME Inv, [Next]_vars PROVE Work'
<1>moved. \A t \in Tests : RefuseGranted(t) \/ Release(t) =>
            \A u \in Tests :
              \/ pc'[u] = pc[u] \/ pc'[u] = "answered"
              \/ pc[u] = "waiting" /\ pc'[u] = "granted"
  BY CallsMoved
<1> USE SlotsAssumption DEF Inv, TypeOK, Labels, Work, Goto, Answer, callVars, workVars
<1>1. ASSUME NEW t \in Tests, Acquire(t) PROVE Work' BY <1>1 DEF Acquire
<1>2. ASSUME NEW t \in Tests, Wake(t) PROVE Work' BY <1>2 DEF Wake
<1>3. ASSUME NEW t \in Tests, RefuseGranted(t) PROVE Work'
  <2>1. /\ pc[t] = "granted" /\ answer' = [answer EXCEPT ![t] = "failed"]
        /\ UNCHANGED <<slotOver, over, worker, result, ch, late>>
    BY <1>3 DEF RefuseGranted
  <2> QED BY <1>3, <1>moved, <2>1
<1>4. ASSUME NEW t \in Tests, GiveUp(t) PROVE Work' BY <1>4 DEF GiveUp
<1>5. ASSUME NEW t \in Tests, Start(t) PROVE Work' BY <1>5 DEF Start
<1>6. ASSUME NEW t \in Tests, TakeResult(t) PROVE Work' BY <1>6 DEF TakeResult
<1>7. ASSUME NEW t \in Tests, Judge(t) PROVE Work' BY <1>7 DEF Judge
<1>8. ASSUME NEW t \in Tests, TimeOut(t) PROVE Work' BY <1>8 DEF TimeOut
<1>9. ASSUME NEW t \in Tests, Send(t) PROVE Work' BY <1>9 DEF Send
<1>10. ASSUME NEW t \in Tests, Release(t) PROVE Work'
  <2>1. /\ worker[t] = "release" /\ worker' = [worker EXCEPT ![t] = "done"]
        /\ UNCHANGED <<slotOver, over, answer, result, ch, late>>
    BY <1>10 DEF Release
  <2> QED BY <1>10, <1>moved, <2>1
<1>11. ASSUME NEW t \in Tests, SlotWaitOver(t) PROVE Work' BY <1>11 DEF SlotWaitOver
<1>12. ASSUME NEW t \in Tests, DeadlinePasses(t) PROVE Work' BY <1>12 DEF DeadlinePasses
<1>13. ASSUME NEW t \in Tests, NEW r \in {"ok", "failed"}, UrlTestReturns(t, r) PROVE Work'
  BY <1>13 DEF UrlTestReturns
<1>14. CASE UNCHANGED vars BY <1>14 DEF vars
<1> QED
  BY <1>1, <1>2, <1>3, <1>4, <1>5, <1>6, <1>7, <1>8, <1>9, <1>10,
     <1>11, <1>12, <1>13, <1>14 DEF Next, Quiet, CallStep, WorkerStep, Passes

\* What is answered was in the channel before the deadline was over.
LEMMA AnswersStep == ASSUME Inv, [Next]_vars PROVE Answers'
<1>moved. \A t \in Tests : RefuseGranted(t) \/ Release(t) =>
            \A u \in Tests :
              \/ pc'[u] = pc[u] \/ pc'[u] = "answered"
              \/ pc[u] = "waiting" /\ pc'[u] = "granted"
  BY CallsMoved
<1> USE SlotsAssumption DEF Inv, TypeOK, Labels, Work, Answers, Goto, Answer, callVars, workVars
<1>1. ASSUME NEW t \in Tests, Acquire(t) PROVE Answers' BY <1>1 DEF Acquire
<1>2. ASSUME NEW t \in Tests, Wake(t) PROVE Answers' BY <1>2 DEF Wake
<1>3. ASSUME NEW t \in Tests, RefuseGranted(t) PROVE Answers'
  <2>1. /\ pc[t] = "granted" /\ answer' = [answer EXCEPT ![t] = "failed"]
        /\ UNCHANGED <<slotOver, over, worker, result, ch, late>>
    BY <1>3 DEF RefuseGranted
  <2> QED BY <1>3, <1>moved, <2>1
<1>4. ASSUME NEW t \in Tests, GiveUp(t) PROVE Answers' BY <1>4 DEF GiveUp
<1>5. ASSUME NEW t \in Tests, Start(t) PROVE Answers' BY <1>5 DEF Start
<1>6. ASSUME NEW t \in Tests, TakeResult(t) PROVE Answers' BY <1>6 DEF TakeResult
<1>7. ASSUME NEW t \in Tests, Judge(t) PROVE Answers' BY <1>7 DEF Judge
<1>8. ASSUME NEW t \in Tests, TimeOut(t) PROVE Answers' BY <1>8 DEF TimeOut
<1>9. ASSUME NEW t \in Tests, Send(t) PROVE Answers' BY <1>9 DEF Send
<1>10. ASSUME NEW t \in Tests, Release(t) PROVE Answers'
  <2>1. /\ worker[t] = "release" /\ worker' = [worker EXCEPT ![t] = "done"]
        /\ UNCHANGED <<slotOver, over, answer, result, ch, late>>
    BY <1>10 DEF Release
  <2> QED BY <1>10, <1>moved, <2>1
<1>11. ASSUME NEW t \in Tests, SlotWaitOver(t) PROVE Answers' BY <1>11 DEF SlotWaitOver
<1>12. ASSUME NEW t \in Tests, DeadlinePasses(t) PROVE Answers' BY <1>12 DEF DeadlinePasses
<1>13. ASSUME NEW t \in Tests, NEW r \in {"ok", "failed"}, UrlTestReturns(t, r) PROVE Answers'
  BY <1>13 DEF UrlTestReturns
<1>14. CASE UNCHANGED vars BY <1>14 DEF vars
<1> QED
  BY <1>1, <1>2, <1>3, <1>4, <1>5, <1>6, <1>7, <1>8, <1>9, <1>10,
     <1>11, <1>12, <1>13, <1>14 DEF Next, Quiet, CallStep, WorkerStep, Passes

-----------------------------------------------------------------------------
(* The slots.                                                              *)

\* A slot that is given up is no longer its test's, and is counted for nobody or
\* for the one it is passed on to.
LEMMA SlotGivenUp ==
  ASSUME Inv, NEW t \in Tests, RefuseGranted(t) \/ Release(t)
  PROVE  SlotsAccounted'
<1> DEFINE Running == {"testing", "send", "release"}
<1>1. t \in Occupied /\ IsFiniteSet(Occupied)
  BY Occupies DEF Occupied, RefuseGranted, Release
<1>2. PICK from \in [Tests -> Labels] :
        /\ PassedOn(from)
        /\ \A u \in Tests : u # t => from[u] = pc[u] /\ worker'[u] = worker[u]
        /\ from[t] \notin {"granted", "holding"} /\ worker'[t] \notin Running
  <2>1. CASE RefuseGranted(t)
    <3>1. /\ worker' = worker /\ pc[t] = "granted"
          /\ PassedOn([pc EXCEPT ![t] = "answered"])
      BY <2>1, GiveUpGrant DEF RefuseGranted, workVars
    <3>2. worker[t] = "unborn" BY <3>1 DEF Inv, Work
    <3> QED BY <3>1, <3>2 DEF Inv, TypeOK, Labels
  <2>2. CASE Release(t)
    <3>1. /\ worker' = [worker EXCEPT ![t] = "done"] /\ worker[t] = "release"
          /\ PassedOn(pc)
      BY <2>2, GiveUpSlot DEF Release
    <3>2. pc[t] \notin {"granted", "holding"} BY <3>1 DEF Inv, Work
    <3> QED BY <3>1, <3>2 DEF Inv, TypeOK
  <2> QED BY <2>1, <2>2
<1>3. {u \in Tests : from[u] \in {"granted", "holding"} \/ worker'[u] \in Running} = Occupied \ {t}
  BY <1>2 DEF Occupied
<1>4. /\ IsFiniteSet(Occupied \ {t})
      /\ Cardinality(Occupied \ {t}) = Cardinality(Occupied) - 1
  BY <1>1, FS_RemoveElement
<1>5. cur = Cardinality(Occupied) /\ cur <= Capacity /\ cur \in Nat /\ Capacity \in Nat
  BY SlotsAssumption DEF Inv, TypeOK, SlotsAccounted
<1>6. CASE cur' = cur - 1 /\ pc' = from
  <2>1. Occupied' = Occupied \ {t} BY <1>3, <1>6 DEF Occupied
  <2> QED BY <1>4, <1>5, <1>6, <2>1 DEF SlotsAccounted
<1>7. ASSUME NEW h \in Tests, pc[h] = "waiting", cur' = cur, pc' = [from EXCEPT ![h] = "granted"]
      PROVE  SlotsAccounted'
  <2>1. h \notin Occupied BY <1>7 DEF Occupied, Inv, Work
  <2>2. \A u \in Tests : pc'[u] = IF u = h THEN "granted" ELSE from[u] BY <1>2, <1>7
  <2>3. Occupied' = (Occupied \ {t}) \cup {h} BY <1>3, <2>2 DEF Occupied
  <2>4. Cardinality(Occupied') = Cardinality(Occupied \ {t}) + 1
    BY <1>4, <2>1, <2>3, FS_AddElement
  <2> QED BY <1>4, <1>5, <1>7, <2>4 DEF SlotsAccounted
<1> QED BY <1>2, <1>6, <1>7 DEF PassedOn

\* Every other step but Acquire leaves the slots with their tests.
LEMMA SlotsStep == ASSUME Inv, [Next]_vars PROVE SlotsAccounted'
<1>given. \A t \in Tests : RefuseGranted(t) \/ Release(t) => SlotsAccounted'
  BY SlotGivenUp
<1>finite. IsFiniteSet(Occupied) BY Occupies
<1>same. cur' = cur /\ Occupied' = Occupied => SlotsAccounted'
  BY DEF Inv, SlotsAccounted
<1> USE SlotsAssumption DEF Inv, TypeOK, Labels, Work, Goto, Answer, callVars, workVars
<1>1. ASSUME NEW t \in Tests, Acquire(t) PROVE SlotsAccounted'
  <2>1. pc[t] = "idle" /\ worker[t] = "unborn" /\ worker' = worker BY <1>1 DEF Acquire
  <2>2. CASE cur < Capacity /\ cur' = cur + 1 /\ pc' = [pc EXCEPT ![t] = "holding"]
    <3>1. t \notin Occupied /\ Occupied' = Occupied \cup {t} BY <2>1, <2>2 DEF Occupied
    <3>2. Cardinality(Occupied') = Cardinality(Occupied) + 1
      BY <1>finite, <3>1, FS_AddElement
    <3> QED BY <2>2, <3>2 DEF SlotsAccounted
  <2>3. CASE cur' = cur /\ pc' = [pc EXCEPT ![t] = "waiting"]
    BY <1>same, <2>1, <2>3 DEF Occupied
  <2> QED BY <1>1, <2>2, <2>3 DEF Acquire
<1>2. ASSUME NEW t \in Tests, Wake(t) PROVE SlotsAccounted'
  BY <1>2, <1>same DEF Wake, Occupied
<1>3. ASSUME NEW t \in Tests, RefuseGranted(t) PROVE SlotsAccounted'
  BY <1>3, <1>given
<1>4. ASSUME NEW t \in Tests, GiveUp(t) PROVE SlotsAccounted'
  BY <1>4, <1>same DEF GiveUp, Occupied
<1>5. ASSUME NEW t \in Tests, Start(t) PROVE SlotsAccounted'
  BY <1>5, <1>same DEF Start, Occupied
<1>6. ASSUME NEW t \in Tests, TakeResult(t) PROVE SlotsAccounted'
  BY <1>6, <1>same DEF TakeResult, Occupied
<1>7. ASSUME NEW t \in Tests, Judge(t) PROVE SlotsAccounted'
  BY <1>7, <1>same DEF Judge, Occupied
<1>8. ASSUME NEW t \in Tests, TimeOut(t) PROVE SlotsAccounted'
  BY <1>8, <1>same DEF TimeOut, Occupied
<1>9. ASSUME NEW t \in Tests, Send(t) PROVE SlotsAccounted'
  BY <1>9, <1>same DEF Send, Occupied
<1>10. ASSUME NEW t \in Tests, Release(t) PROVE SlotsAccounted'
  BY <1>10, <1>given
<1>11. ASSUME NEW t \in Tests, SlotWaitOver(t) PROVE SlotsAccounted'
  BY <1>11, <1>same DEF SlotWaitOver, Occupied
<1>12. ASSUME NEW t \in Tests, DeadlinePasses(t) PROVE SlotsAccounted'
  BY <1>12, <1>same DEF DeadlinePasses, Occupied
<1>13. ASSUME NEW t \in Tests, NEW r \in {"ok", "failed"}, UrlTestReturns(t, r) PROVE SlotsAccounted'
  BY <1>13, <1>same DEF UrlTestReturns, Occupied
<1>14. CASE UNCHANGED vars BY <1>14, <1>same DEF vars, Occupied
<1> QED
  BY <1>1, <1>2, <1>3, <1>4, <1>5, <1>6, <1>7, <1>8, <1>9, <1>10,
     <1>11, <1>12, <1>13, <1>14 DEF Next, Quiet, CallStep, WorkerStep, Passes

-----------------------------------------------------------------------------
\* Nothing waits, runs or is taken at first.
LEMMA InitInv == Init => Inv
<1> SUFFICES ASSUME Init PROVE Inv OBVIOUS
<1>1. Occupied = {} BY DEF Init, Occupied
<1>2. SlotsAccounted BY <1>1, FS_EmptySet, SlotsAssumption DEF Init, SlotsAccounted
<1>3. TypeOK BY DEF Init, TypeOK, Labels
<1>4. Queue /\ Work /\ Answers BY SlotsAssumption DEF Init, Queue, Work, Answers
<1> QED BY <1>2, <1>3, <1>4 DEF Inv

\* Inv holds in every reachable state.
THEOREM InvAlways == Spec => []Inv
<1>1. Inv /\ [Next]_vars => Inv'
  BY TypesStep, QueueStep, WorkStep, AnswersStep, SlotsStep DEF Inv
<1> QED BY InitInv, <1>1, PTL DEF Spec

\* The types, for any number of tests and slots.
THEOREM TypesCorrect == Spec => []TypeOK
<1>1. Inv => TypeOK BY DEF Inv
<1> QED BY InvAlways, <1>1, PTL

\* The slots taken are always those of tests that were granted one or whose
\* goroutine runs, and never more than Capacity, whichever way a grant races the
\* end of the wait and a result races the deadline.
THEOREM SlotsNeverLost == Spec => []SlotsAccounted
<1>1. Inv => SlotsAccounted BY DEF Inv
<1> QED BY InvAlways, <1>1, PTL

\* No call answers with the delay of a test that came back after its deadline.
THEOREM DelaysInTime == Spec => []NoLateDelay
<1>1. Inv => NoLateDelay BY SlotsAssumption DEF Inv, Answers, NoLateDelay
<1> QED BY InvAlways, <1>1, PTL

=============================================================================
