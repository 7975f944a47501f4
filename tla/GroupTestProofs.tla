--------------------------- MODULE GroupTestProofs ---------------------------
(***************************************************************************)
(* Proofs about GroupTest, for any number of tests, groups and nodes and   *)
(* any graph of them, cyclic ones included.                                *)
(*                                                                         *)
(* Listing is inductive by itself: what is on the stack of visits and what *)
(* is listed, at any moment of grouptest.Order (Walked).  The order is     *)
(* then what Order promises, and no test waits in a circle.                *)
(*                                                                         *)
(* Inv adds what the pins rest on:                                         *)
(*                                                                         *)
(*   - Planned: a test has runs for the names of its order only, and none  *)
(*     when it is not under way;                                           *)
(*   - Seating: the run between pickMu.Lock and Unlock, and no other,      *)
(*     holds pickMu;                                                       *)
(*   - Pins: a pin that is not the user's is that of the run that seats    *)
(*     the group, and the user has none there.                             *)
(*                                                                         *)
(* SeatInv adds what the seats rest on:                                    *)
(*                                                                         *)
(*   - Picks, Measures: picks and measurements are of members;             *)
(*   - Holding: a seating run pins the fastest, and the group adopts it;   *)
(*   - Awaited: what was measured of a nested group was measured after     *)
(*     that one was done;                                                  *)
(*   - Current: what was measured is so still, unless the user selected    *)
(*     meanwhile;                                                          *)
(*   - Settled: a group that is done is on a member no other beats.        *)
(***************************************************************************)
EXTENDS GroupTest, SequenceTheorems, WellFoundedInduction, TLAPS

-----------------------------------------------------------------------------
(* grouptest.Order, call by call: W is the stack of visits, out what is    *)
(* listed.                                                                 *)

Visits == [name : Names \cup {None}, left : Seq(Names)]

\* A name is on the stack or in the list.
Met(W, out, c) ==
  (\E k \in 1 .. Len(W) : W[k].name = c) \/ (\E k \in 1 .. Len(out) : out[k] = c)

\* Order is at the bottom; no name is on the stack or in the list twice.
Once(W, out) ==
  /\ \A i \in 1 .. Len(W) : W[i].name = None <=> i = 1
  /\ \A i, j \in 1 .. Len(W) : W[i].name = W[j].name => i = j
  /\ \A i, j \in 1 .. Len(out) : out[i] = out[j] => i = j
  /\ \A i \in 1 .. Len(W), j \in 1 .. Len(out) : W[i].name # out[j]

\* A visit is for a group nested in those below it, and looks at members of its own.
Chain(W) ==
  /\ \A i \in 2 .. Len(W) : ToSet(W[i].left) \subseteq ToSet(Within(W[i].name))
  /\ \A i \in 2 .. Len(W), j \in 2 .. Len(W) : i < j => W[j].name \in Nested(W[i].name)

\* The groups a visit is past have been met.
Past(W, out) ==
  \A i \in 2 .. Len(W) : \A c \in Children(W[i].name) :
    c \in ToSet(W[i].left) \/ Met(W, out, c)

\* A listed name's group is listed before it, or it is nested in that group.
After(W, out) ==
  \A j \in 1 .. Len(out) : \A c \in Children(out[j]) :
    \/ \E i \in 1 .. Len(out) : out[i] = c /\ (i < j \/ out[j] \in Nested(c))
    \/ \E k \in 2 .. Len(W) : W[k].name = c /\ out[j] \in Nested(c)

Walked(W, out) ==
  /\ W \in Seq(Visits) /\ out \in Seq(Names)
  /\ Once(W, out) /\ Chain(W) /\ Past(W, out) /\ After(W, out)

\* Any graph the code could be given: no group is empty.
GraphOK == members \in [Groups -> Seq(Names) \ {<<>>}]

\* A child is nested, and so are the children of what is nested.
LEMMA NestedIsClosed ==
  ASSUME NEW g
  PROVE  /\ Nested(g) \subseteq Groups
         /\ Children(g) \subseteq Nested(g)
         /\ \A h \in Nested(g) : Children(h) \subseteq Nested(g)
<1>1. \A h : Children(h) \subseteq Groups BY DEF Children
<1> QED BY <1>1 DEF Nested

\* All but the last of a sequence.
LEMMA FrontIs ==
  ASSUME NEW S, NEW s \in Seq(S), s # <<>>
  PROVE  /\ Len(s) \in Nat /\ Len(s) >= 1 /\ s[Len(s)] \in S /\ Last(s) = s[Len(s)]
         /\ Front(s) \in Seq(S) /\ Len(Front(s)) = Len(s) - 1
         /\ \A i \in 1 .. Len(s) - 1 : Front(s)[i] = s[i]
<1>1. Len(s) \in Nat /\ Len(s) >= 1 /\ s[Len(s)] \in S OBVIOUS
<1>2. Front(s) = SubSeq(s, 1, Len(s) - 1) BY DEF Front
<1>3. \A i \in 1 .. Len(s) - 1 : s[i] \in S BY <1>1
<1>4. Len(s) - 1 \in Int /\ Len(s) - 1 - 1 + 1 = Len(s) - 1
      /\ (IF 1 <= Len(s) - 1 THEN Len(s) - 1 - 1 + 1 ELSE 0) = Len(s) - 1
      /\ \A i \in 1 .. Len(s) - 1 : 1 + i - 1 = i
  <2>1. \A n \in Nat : n >= 1 =>
          /\ n - 1 \in Int /\ n - 1 - 1 + 1 = n - 1
          /\ (IF 1 <= n - 1 THEN n - 1 - 1 + 1 ELSE 0) = n - 1
          /\ \A i \in 1 .. n - 1 : 1 + i - 1 = i
    OBVIOUS
  <2> QED BY <1>1, <2>1
<1>5. /\ Front(s) \in Seq(S) /\ Len(Front(s)) = Len(s) - 1
      /\ \A i \in 1 .. Len(s) - 1 : Front(s)[i] = s[1 + i - 1]
  BY <1>2, <1>3, <1>4, SubSeqProperties
<1> QED BY <1>1, <1>4, <1>5 DEF Last

\* What is in the list and on the stack when a visit is over.
LEMMA WalkLists ==
  ASSUME NEW W, NEW out, Walked(W, out), W # <<>>,
         Last(W).left = <<>>, Last(W).name # None
  PROVE  Walked(Front(W), Append(out, Last(W).name))
<1>1. PICK n, m, x, V, o :
        /\ n = Len(W) /\ m = Len(out) /\ x = W[n].name /\ V = Front(W) /\ o = Append(out, x)
  OBVIOUS
<1>2. W \in Seq(Visits) /\ out \in Seq(Names) BY DEF Walked
<1>3. Once(W, out) /\ Chain(W) /\ Past(W, out) /\ After(W, out) BY DEF Walked
<1>4. n \in Nat /\ n >= 1 /\ m \in Nat /\ W[n] \in Visits /\ Last(W) = W[n]
  BY <1>1, <1>2, FrontIs
<1>5. V \in Seq(Visits) /\ Len(V) = n - 1 /\ \A i \in 1 .. n - 1 : V[i] = W[i]
  BY <1>1, <1>2, FrontIs
<1>6. n >= 2 /\ x \in Names BY <1>1, <1>3, <1>4 DEF Once, Visits
<1>7. /\ o \in Seq(Names) /\ Len(o) = m + 1 /\ o[m + 1] = x
      /\ \A i \in 1 .. m : o[i] = out[i]
  BY <1>1, <1>2, <1>4, <1>6
<1>8. ToSet(W[n].left) = {} BY <1>1, <1>4 DEF ToSet
<1>9. ASSUME NEW c, Met(W, out, c) PROVE Met(V, o, c)
  <2>1. CASE \E k \in 1 .. m : out[k] = c BY <1>4, <1>7, <2>1 DEF Met
  <2>2. CASE \E k \in 1 .. n : W[k].name = c BY <1>1, <1>4, <1>5, <1>7, <2>2 DEF Met
  <2> QED BY <1>1, <1>9, <2>1, <2>2 DEF Met
<1>10. Once(V, o)
  <2>1. \A i \in 1 .. n - 1 : V[i].name = None <=> i = 1 BY <1>1, <1>3, <1>4, <1>5 DEF Once
  <2>2. \A i, j \in 1 .. n - 1 : V[i].name = V[j].name => i = j
    BY <1>1, <1>3, <1>4, <1>5 DEF Once
  <2>3. \A j \in 1 .. m : out[j] # x BY <1>1, <1>3, <1>4 DEF Once
  <2>4. \A i, j \in 1 .. m + 1 : o[i] = o[j] => i = j
    <3> SUFFICES ASSUME NEW i \in 1 .. m + 1, NEW j \in 1 .. m + 1, o[i] = o[j] PROVE i = j
      OBVIOUS
    <3>1. \A k \in 1 .. m + 1 : k \in 1 .. m \/ k = m + 1 BY <1>4
    <3>2. CASE i \in 1 .. m /\ j \in 1 .. m BY <1>1, <1>3, <1>7, <3>2 DEF Once
    <3>3. CASE i \in 1 .. m /\ j = m + 1 BY <1>7, <2>3, <3>3
    <3>4. CASE i = m + 1 /\ j \in 1 .. m BY <1>7, <2>3, <3>4
    <3> QED BY <3>1, <3>2, <3>3, <3>4
  <2>5. \A i \in 1 .. n - 1 : V[i].name # x BY <1>1, <1>3, <1>4, <1>5 DEF Once
  <2>6. \A i \in 1 .. n - 1, j \in 1 .. m + 1 : V[i].name # o[j]
    <3>1. ASSUME NEW i \in 1 .. n - 1, NEW j \in 1 .. m PROVE V[i].name # o[j]
      BY <1>1, <1>3, <1>4, <1>5, <1>7 DEF Once
    <3> QED BY <1>4, <1>7, <2>5, <3>1
  <2> QED BY <1>5, <1>7, <2>1, <2>2, <2>4, <2>6 DEF Once
<1>11. Chain(V)
  <2>1. \A i \in 2 .. n - 1 : i \in 1 .. n - 1 /\ i \in 2 .. n BY <1>4
  <2> QED BY <1>1, <1>3, <1>5, <2>1 DEF Chain
<1>12. Past(V, o)
  <2>1. \A i \in 2 .. n - 1 : i \in 1 .. n - 1 /\ i \in 2 .. n BY <1>4
  <2> QED BY <1>1, <1>3, <1>5, <1>9, <2>1 DEF Past
<1>13. After(V, o)
  <2>1. ASSUME NEW j \in 1 .. m, NEW c \in Children(o[j])
        PROVE  \/ \E i \in 1 .. m + 1 : o[i] = c /\ (i < j \/ o[j] \in Nested(c))
               \/ \E k \in 2 .. n - 1 : V[k].name = c /\ o[j] \in Nested(c)
    <3>1. o[j] = out[j] BY <1>7
    <3>2. CASE \E i \in 1 .. m : out[i] = c /\ (i < j \/ out[j] \in Nested(c))
      BY <1>4, <1>7, <3>1, <3>2
    <3>3. CASE \E k \in 2 .. n : W[k].name = c /\ out[j] \in Nested(c)
      BY <1>1, <1>4, <1>5, <1>7, <3>1, <3>3
    <3> QED BY <1>1, <1>3, <3>1, <3>2, <3>3 DEF After
  <2>2. ASSUME NEW c \in Children(x)
        PROVE  \/ \E i \in 1 .. m + 1 : o[i] = c /\ (i < m + 1 \/ x \in Nested(c))
               \/ \E k \in 2 .. n - 1 : V[k].name = c /\ x \in Nested(c)
    <3>1. Met(W, out, c) BY <1>1, <1>3, <1>4, <1>6, <1>8 DEF Past
    <3>2. CASE \E k \in 1 .. m : out[k] = c BY <1>4, <1>7, <3>2
    <3>3. CASE \E k \in 1 .. n : W[k].name = c
      <4>1. PICK k \in 1 .. n : W[k].name = c BY <3>3
      <4>2. CASE k = n
        <5>1. c = x BY <1>1, <4>1, <4>2
        <5>2. x \in Nested(x) BY <5>1, NestedIsClosed
        <5> QED BY <1>4, <1>7, <5>1, <5>2
      <4>3. CASE k = 1
        <5>1. c = None BY <1>1, <1>3, <1>4, <4>1, <4>3 DEF Once
        <5>2. c \in Groups BY DEF Children
        <5> QED BY <5>1, <5>2, NamesAssumption
      <4>4. CASE k \in 2 .. n - 1
        <5>1. x \in Nested(c) BY <1>1, <1>3, <1>4, <1>6, <4>1, <4>4 DEF Chain
        <5> QED BY <1>5, <4>1, <4>4, <5>1
      <4> QED BY <1>4, <4>2, <4>3, <4>4
    <3> QED BY <1>1, <3>1, <3>2, <3>3 DEF Met
  <2>3. ASSUME NEW j \in 1 .. m + 1, NEW c \in Children(o[j])
        PROVE  \/ \E i \in 1 .. m + 1 : o[i] = c /\ (i < j \/ o[j] \in Nested(c))
               \/ \E k \in 2 .. n - 1 : V[k].name = c /\ o[j] \in Nested(c)
    <3>1. CASE j \in 1 .. m BY <2>1, <3>1
    <3>2. CASE j = m + 1
      <4>1. o[j] = x BY <1>7, <3>2
      <4> QED BY <2>2, <3>2, <4>1
    <3> QED BY <1>4, <3>1, <3>2
  <2> QED BY <1>5, <1>7, <2>3 DEF After
<1> QED BY <1>1, <1>4, <1>5, <1>7, <1>10, <1>11, <1>12, <1>13 DEF Walked

\* The stack when a member of the innermost group is looked at, whatever is done
\* with it: that visit has one member less to look at.
Rest(W) == Append(Front(W), [name |-> Last(W).name, left |-> Tail(Last(W).left)])

\* The head and the tail of a sequence have its elements.
LEMMA TailIs ==
  ASSUME NEW S, NEW s \in Seq(S), s # <<>>
  PROVE  Head(s) \in S /\ Tail(s) \in Seq(S) /\ ToSet(s) = {Head(s)} \cup ToSet(Tail(s))
<1>1. /\ Head(s) \in S /\ Tail(s) \in Seq(S) /\ Len(Tail(s)) = Len(s) - 1
      /\ \A i \in 1 .. Len(s) - 1 : Tail(s)[i] = s[i + 1]
      /\ Head(s) = s[1] /\ Len(s) \in Nat /\ Len(s) >= 1
  BY HeadTailProperties
<1>2. DOMAIN s = 1 .. Len(s) /\ DOMAIN Tail(s) = 1 .. Len(s) - 1 BY <1>1
<1>3. ASSUME NEW i \in 1 .. Len(s) PROVE s[i] \in {Head(s)} \cup ToSet(Tail(s))
  <2>1. CASE i = 1 BY <1>1, <2>1
  <2>2. CASE i # 1
    <3>1. i - 1 \in 1 .. Len(s) - 1 /\ (i - 1) + 1 = i BY <1>1, <2>2
    <3> QED BY <1>1, <1>2, <3>1 DEF ToSet
  <2> QED BY <2>1, <2>2
<1>4. ASSUME NEW i \in 1 .. Len(s) - 1 PROVE Tail(s)[i] \in ToSet(s)
  <2>1. i + 1 \in 1 .. Len(s) BY <1>1
  <2> QED BY <1>1, <1>2, <2>1 DEF ToSet
<1>5. Head(s) \in ToSet(s) BY <1>1, <1>2 DEF ToSet
<1> QED BY <1>1, <1>2, <1>3, <1>4, <1>5 DEF ToSet

\* It is the stack that was, but for what the innermost visit has left.
LEMMA RestIs ==
  ASSUME NEW W \in Seq(Visits), W # <<>>, Last(W).left # <<>>
  PROVE  /\ Len(W) \in Nat /\ Len(W) >= 1 /\ Last(W) = W[Len(W)]
         /\ Rest(W) \in Seq(Visits) /\ Len(Rest(W)) = Len(W)
         /\ \A i \in 1 .. Len(W) : Rest(W)[i].name = W[i].name
         /\ \A i \in 1 .. Len(W) - 1 : Rest(W)[i] = W[i]
         /\ Head(Last(W).left) \in Names
         /\ ToSet(W[Len(W)].left) = {Head(Last(W).left)} \cup ToSet(Rest(W)[Len(W)].left)
<1>1. PICK n, f, l, x, new :
        /\ n = Len(W) /\ f = Front(W) /\ l = W[n].left /\ x = W[n].name
        /\ new = [name |-> x, left |-> Tail(l)]
  OBVIOUS
<1>2. /\ n \in Nat /\ n >= 1 /\ W[n] \in Visits /\ Last(W) = W[n]
      /\ f \in Seq(Visits) /\ Len(f) = n - 1
      /\ \A i \in 1 .. n - 1 : f[i] = W[i]
  BY <1>1, FrontIs
<1>3. l \in Seq(Names) /\ l # <<>> /\ x \in Names \cup {None} BY <1>1, <1>2 DEF Visits
<1>4. Head(l) \in Names /\ Tail(l) \in Seq(Names) /\ ToSet(l) = {Head(l)} \cup ToSet(Tail(l))
  BY <1>3, TailIs
<1>5. new \in Visits /\ new.name = x /\ new.left = Tail(l)
  BY <1>1, <1>3, <1>4 DEF Visits
<1>6. PICK R : R = Append(f, new) OBVIOUS
<1>7. R = Rest(W) BY <1>1, <1>2, <1>6 DEF Rest
<1>8. R \in Seq(Visits) /\ Len(R) = n /\ R[n] = new /\ \A i \in 1 .. n - 1 : R[i] = f[i]
  <2>1. Len(f) + 1 = n /\ 1 .. Len(f) = 1 .. n - 1 BY <1>2
  <2> QED BY <1>2, <1>5, <1>6, <2>1, AppendProperties
<1>9. \A i \in 1 .. n - 1 : R[i] = W[i] BY <1>2, <1>8
<1>10. ASSUME NEW i \in 1 .. n PROVE R[i].name = W[i].name
  <2>1. i = n \/ i \in 1 .. n - 1 BY <1>2
  <2> QED BY <1>1, <1>5, <1>8, <1>9, <2>1
<1>11. ToSet(l) = {Head(l)} \cup ToSet(R[n].left) BY <1>4, <1>5, <1>8
<1> QED BY <1>1, <1>2, <1>4, <1>7, <1>8, <1>9, <1>10, <1>11

\* What the stack without that member still is.
LEMMA RestWalked ==
  ASSUME NEW W, NEW out, Walked(W, out), W # <<>>, Last(W).left # <<>>
  PROVE  /\ Rest(W) \in Seq(Visits) /\ out \in Seq(Names)
         /\ Once(Rest(W), out) /\ Chain(Rest(W)) /\ After(Rest(W), out)
         /\ \A c : Met(Rest(W), out, c) <=> Met(W, out, c)
         /\ \A i \in 2 .. Len(Rest(W)) : \A c \in Children(Rest(W)[i].name) :
              c \in ToSet(Rest(W)[i].left) \/ c = Head(Last(W).left) \/ Met(W, out, c)
<1>1. PICK n, m, R, h : n = Len(W) /\ m = Len(out) /\ R = Rest(W) /\ h = Head(Last(W).left)
  OBVIOUS
<1>2. W \in Seq(Visits) /\ out \in Seq(Names) BY DEF Walked
<1>3. Once(W, out) /\ Chain(W) /\ Past(W, out) /\ After(W, out) BY DEF Walked
<1>4. /\ n \in Nat /\ n >= 1 /\ m \in Nat
      /\ R \in Seq(Visits) /\ Len(R) = n
      /\ \A i \in 1 .. n : R[i].name = W[i].name
      /\ \A i \in 1 .. n - 1 : R[i] = W[i]
      /\ ToSet(W[n].left) = {h} \cup ToSet(R[n].left)
  <2>1. /\ Len(W) \in Nat /\ Len(W) >= 1 /\ Last(W) = W[Len(W)]
        /\ Rest(W) \in Seq(Visits) /\ Len(Rest(W)) = Len(W)
        /\ \A i \in 1 .. Len(W) : Rest(W)[i].name = W[i].name
        /\ \A i \in 1 .. Len(W) - 1 : Rest(W)[i] = W[i]
        /\ Head(Last(W).left) \in Names
        /\ ToSet(W[Len(W)].left) = {Head(Last(W).left)} \cup ToSet(Rest(W)[Len(W)].left)
    BY <1>2, RestIs
  <2>2. m \in Nat BY <1>1, <1>2
  <2> QED BY <1>1, <2>1, <2>2
<1>5. \A i \in 2 .. n : i \in 1 .. n /\ (i = n \/ i \in 1 .. n - 1) BY <1>4
<1>6. Once(R, out)
  <2>1. \A i \in 1 .. n : W[i].name = None <=> i = 1 BY <1>1, <1>3 DEF Once
  <2>2. \A i, j \in 1 .. n : W[i].name = W[j].name => i = j BY <1>1, <1>3 DEF Once
  <2>3. \A i, j \in 1 .. m : out[i] = out[j] => i = j BY <1>1, <1>3 DEF Once
  <2>4. \A i \in 1 .. n, j \in 1 .. m : W[i].name # out[j] BY <1>1, <1>3 DEF Once
  <2>5. \A i \in 1 .. n : R[i].name = None <=> i = 1 BY <1>4, <2>1
  <2>6. \A i, j \in 1 .. n : R[i].name = R[j].name => i = j BY <1>4, <2>2
  <2>7. \A i \in 1 .. n, j \in 1 .. m : R[i].name # out[j] BY <1>4, <2>4
  <2> QED BY <1>1, <1>4, <2>3, <2>5, <2>6, <2>7 DEF Once
<1>7. Chain(R)
  <2>1. ASSUME NEW i \in 2 .. n PROVE ToSet(R[i].left) \subseteq ToSet(Within(R[i].name))
    <3>1. ToSet(W[i].left) \subseteq ToSet(Within(W[i].name)) BY <1>1, <1>3 DEF Chain
    <3>2. ToSet(R[i].left) \subseteq ToSet(W[i].left)
      <4>1. CASE i = n BY <1>4, <4>1
      <4>2. CASE i \in 1 .. n - 1 BY <1>4, <4>2
      <4> QED BY <1>5, <4>1, <4>2
    <3> QED BY <1>4, <1>5, <3>1, <3>2
  <2>2. ASSUME NEW i \in 2 .. n, NEW j \in 2 .. n, i < j
        PROVE  R[j].name \in Nested(R[i].name)
    <3>1. W[j].name \in Nested(W[i].name) BY <1>1, <1>3, <2>2 DEF Chain
    <3> QED BY <1>4, <1>5, <3>1
  <2> QED BY <1>4, <2>1, <2>2 DEF Chain
<1>8. After(R, out)
  <2> SUFFICES ASSUME NEW j \in 1 .. m, NEW c \in Children(out[j])
               PROVE  \/ \E i \in 1 .. m : out[i] = c /\ (i < j \/ out[j] \in Nested(c))
                      \/ \E k \in 2 .. n : R[k].name = c /\ out[j] \in Nested(c)
    <3>1. Len(out) = m /\ Len(R) = n BY <1>1, <1>4
    <3> QED BY <3>1 DEF After
  <2>1. \/ \E i \in 1 .. m : out[i] = c /\ (i < j \/ out[j] \in Nested(c))
        \/ \E k \in 2 .. n : W[k].name = c /\ out[j] \in Nested(c)
    BY <1>1, <1>3 DEF After
  <2>2. \A k \in 2 .. n : R[k].name = W[k].name BY <1>4, <1>5
  <2> QED BY <2>1, <2>2
<1>9. \A c : Met(R, out, c) <=> Met(W, out, c)
  <2>1. \A c : (\E k \in 1 .. n : R[k].name = c) <=> (\E k \in 1 .. n : W[k].name = c)
    BY <1>4
  <2> QED BY <1>1, <1>4, <2>1 DEF Met
<1>10. ASSUME NEW i \in 2 .. n, NEW c \in Children(R[i].name)
       PROVE  c \in ToSet(R[i].left) \/ c = h \/ Met(W, out, c)
  <2>1. R[i].name = W[i].name BY <1>4, <1>5
  <2>2. c \in ToSet(W[i].left) \/ Met(W, out, c) BY <1>1, <1>3, <2>1 DEF Past
  <2>3. CASE i = n BY <1>4, <2>2, <2>3
  <2>4. CASE i \in 1 .. n - 1 BY <1>4, <2>2, <2>4
  <2> QED BY <1>5, <2>3, <2>4
<1> QED BY <1>1, <1>2, <1>4, <1>6, <1>7, <1>8, <1>9, <1>10

\* A member that has been met already, or is no group, is for nothing.
LEMMA WalkSkips ==
  ASSUME NEW W, NEW out, Walked(W, out), W # <<>>, Last(W).left # <<>>,
         NEW h, h = Head(Last(W).left),
         Met(W, out, h) \/ h \notin Groups
  PROVE  Walked(Rest(W), out)
<1>0. PICK R : R = Rest(W) OBVIOUS
<1>1. /\ R \in Seq(Visits) /\ out \in Seq(Names)
      /\ Once(R, out) /\ Chain(R) /\ After(R, out)
      /\ \A c : Met(R, out, c) <=> Met(W, out, c)
      /\ \A i \in 2 .. Len(R) : \A c \in Children(R[i].name) :
           c \in ToSet(R[i].left) \/ c = h \/ Met(W, out, c)
  BY <1>0, RestWalked
<1>2. Past(R, out)
  <2> SUFFICES ASSUME NEW i \in 2 .. Len(R), NEW c \in Children(R[i].name)
               PROVE  c \in ToSet(R[i].left) \/ Met(R, out, c)
    BY DEF Past
  <2>1. c \in Groups BY DEF Children
  <2> QED BY <1>1, <2>1
<1> QED BY <1>0, <1>1, <1>2 DEF Walked

\* A group that has not been met is visited, and a name the app asked for.
LEMMA WalkEnters ==
  ASSUME GraphOK, NEW W, NEW out, Walked(W, out), W # <<>>, Last(W).left # <<>>,
         NEW h, h = Head(Last(W).left),
         ~Met(W, out, h), Last(W).name = None \/ h \in Groups
  PROVE  Walked(Append(Rest(W), [name |-> h, left |-> Within(h)]), out)
<1>1. PICK n, m, R, V, new :
        /\ R = Rest(W) /\ n = Len(W) /\ m = Len(out) /\ V = Append(R, new)
        /\ new = [name |-> h, left |-> Within(h)]
  OBVIOUS
<1>2. W \in Seq(Visits) /\ Once(W, out) /\ Chain(W) BY DEF Walked
<1>3. /\ R \in Seq(Visits) /\ out \in Seq(Names)
      /\ Once(R, out) /\ Chain(R) /\ After(R, out)
      /\ \A c : Met(R, out, c) <=> Met(W, out, c)
      /\ \A i \in 2 .. Len(R) : \A c \in Children(R[i].name) :
           c \in ToSet(R[i].left) \/ c = h \/ Met(W, out, c)
  BY <1>1, RestWalked
<1>4. /\ n \in Nat /\ n >= 1 /\ m \in Nat /\ Len(R) = n /\ h \in Names /\ Last(W) = W[n]
      /\ \A i \in 1 .. n : R[i].name = W[i].name
      /\ h \in ToSet(W[n].left)
  <2>1. /\ Len(W) \in Nat /\ Len(W) >= 1 /\ Last(W) = W[Len(W)]
        /\ Rest(W) \in Seq(Visits) /\ Len(Rest(W)) = Len(W)
        /\ \A i \in 1 .. Len(W) : Rest(W)[i].name = W[i].name
        /\ \A i \in 1 .. Len(W) - 1 : Rest(W)[i] = W[i]
        /\ Head(Last(W).left) \in Names
        /\ ToSet(W[Len(W)].left) = {Head(Last(W).left)} \cup ToSet(Rest(W)[Len(W)].left)
    BY <1>2, RestIs
  <2>2. m \in Nat BY <1>1, <1>3
  <2>3. h \in ToSet(W[n].left) BY <1>1, <2>1
  <2> QED BY <1>1, <2>1, <2>2, <2>3
<1>5. h # None /\ Within(h) \in Seq(Names)
  BY <1>4, NamesAssumption DEF Within, GraphOK, Names
<1>6. new \in Visits /\ new.name = h /\ new.left = Within(h) BY <1>1, <1>4, <1>5 DEF Visits
<1>7. /\ V \in Seq(Visits) /\ Len(V) = n + 1 /\ V[n + 1] = new
      /\ \A i \in 1 .. n : V[i] = R[i]
  BY <1>1, <1>3, <1>4, <1>6
<1>8. \A i \in 1 .. n + 1 : i = n + 1 \/ i \in 1 .. n BY <1>4
<1>9. \A i \in 2 .. n + 1 : i = n + 1 \/ (i \in 2 .. n /\ i \in 1 .. n) BY <1>4
<1>10. /\ \A i \in 1 .. n : R[i].name # h
       /\ \A j \in 1 .. m : out[j] # h
  BY <1>1, <1>3, <1>4 DEF Met
<1>11. Once(V, out)
  <2>1. \A i \in 1 .. n + 1 : V[i].name = None <=> i = 1
    BY <1>3, <1>4, <1>5, <1>6, <1>7, <1>8 DEF Once
  <2>2. \A i, j \in 1 .. n + 1 : V[i].name = V[j].name => i = j
    BY <1>3, <1>4, <1>6, <1>7, <1>8, <1>10 DEF Once
  <2>3. \A i \in 1 .. n + 1, j \in 1 .. m : V[i].name # out[j]
    BY <1>1, <1>3, <1>4, <1>6, <1>7, <1>8, <1>10 DEF Once
  <2> QED BY <1>1, <1>3, <1>7, <2>1, <2>2, <2>3 DEF Once
<1>12. ASSUME NEW i \in 2 .. n PROVE h \in Nested(R[i].name)
  <2>1. n >= 2 /\ n \in 2 .. n /\ n \in 1 .. n BY <1>4
  <2>2. W[n].name # None BY <1>1, <1>2, <1>4, <2>1 DEF Once
  <2>3. h \in Groups BY <1>4, <2>2
  <2>4. h \in ToSet(Within(W[n].name)) BY <1>1, <1>2, <1>4, <2>1 DEF Chain
  <2>5. h \in Children(R[n].name)
    <3>1. R[n].name = W[n].name BY <1>4, <2>1
    <3>2. W[n].name \in Groups BY <2>4 DEF Within, ToSet
    <3> QED BY <2>3, <2>4, <3>1, <3>2 DEF Within, Children
  <2>6. CASE i = n BY <2>5, <2>6, NestedIsClosed
  <2>7. CASE i < n
    <3>1. R[n].name \in Nested(R[i].name) BY <1>3, <1>4, <2>1, <2>7 DEF Chain
    <3> QED BY <2>5, <3>1, NestedIsClosed
  <2> QED BY <1>4, <2>6, <2>7
<1>13. Chain(V)
  <2>1. ASSUME NEW i \in 2 .. n + 1 PROVE ToSet(V[i].left) \subseteq ToSet(Within(V[i].name))
    BY <1>3, <1>4, <1>6, <1>7, <1>9 DEF Chain
  <2>2. ASSUME NEW i \in 2 .. n + 1, NEW j \in 2 .. n + 1, i < j
        PROVE  V[j].name \in Nested(V[i].name)
    <3>1. i \in 2 .. n /\ i \in 1 .. n BY <1>4, <2>2
    <3>2. CASE j = n + 1 BY <1>6, <1>7, <1>12, <3>1, <3>2
    <3>3. CASE j \in 2 .. n /\ j \in 1 .. n BY <1>3, <1>4, <1>7, <2>2, <3>1, <3>3 DEF Chain
    <3> QED BY <1>9, <3>2, <3>3
  <2> QED BY <1>7, <2>1, <2>2 DEF Chain
<1>14. ASSUME NEW c, Met(R, out, c) \/ c = h PROVE Met(V, out, c)
  <2>1. \A k \in 1 .. n : k \in 1 .. n + 1 BY <1>4
  <2>2. n + 1 \in 1 .. n + 1 BY <1>4
  <2> QED BY <1>4, <1>6, <1>7, <1>14, <2>1, <2>2 DEF Met
<1>15. Past(V, out)
  <2>1. ASSUME NEW i \in 2 .. n + 1, NEW c \in Children(V[i].name)
        PROVE  c \in ToSet(V[i].left) \/ Met(V, out, c)
    <3>1. CASE i = n + 1
      <4>1. V[i].name = h /\ V[i].left = Within(h) BY <1>6, <1>7, <3>1
      <4> QED BY <4>1 DEF Children, Within
    <3>2. CASE i \in 2 .. n /\ i \in 1 .. n BY <1>3, <1>4, <1>7, <1>14, <3>2
    <3> QED BY <1>9, <3>1, <3>2
  <2> QED BY <1>7, <2>1 DEF Past
<1>16. After(V, out)
  <2> SUFFICES ASSUME NEW j \in 1 .. m, NEW c \in Children(out[j])
               PROVE  \/ \E i \in 1 .. m : out[i] = c /\ (i < j \/ out[j] \in Nested(c))
                      \/ \E k \in 2 .. n + 1 : V[k].name = c /\ out[j] \in Nested(c)
    <3>1. Len(out) = m /\ Len(V) = n + 1 BY <1>1, <1>7
    <3> QED BY <3>1 DEF After
  <2>1. \/ \E i \in 1 .. m : out[i] = c /\ (i < j \/ out[j] \in Nested(c))
        \/ \E k \in 2 .. n : R[k].name = c /\ out[j] \in Nested(c)
    <3>1. Len(out) = m /\ Len(R) = n BY <1>1, <1>4
    <3> QED BY <1>3, <3>1 DEF After
  <2>2. \A k \in 2 .. n : k \in 2 .. n + 1 /\ V[k] = R[k] BY <1>4, <1>7
  <2> QED BY <2>1, <2>2
<1> QED BY <1>1, <1>3, <1>7, <1>11, <1>13, <1>15, <1>16 DEF Walked

\* What the walk is depends on the graph only through its members.
LEMMA SameGraph ==
  ASSUME members' = members
  PROVE  \A W, out : Walked(W, out)' <=> Walked(W, out)
<1>1. \A c : Children(c)' = Children(c) BY DEF Children
<1>2. \A c : Within(c)' = Within(c) BY DEF Within
<1>3. \A c : Nested(c)' = Nested(c) BY <1>1 DEF Nested
<1>4. \A W, out : Once(W, out)' <=> Once(W, out) BY DEF Once
<1>5. \A W, out, c : Met(W, out, c)' <=> Met(W, out, c) BY DEF Met
<1>6. \A W : Chain(W)' <=> Chain(W) BY <1>2, <1>3 DEF Chain
<1>7. \A W, out : Past(W, out)' <=> Past(W, out) BY <1>1, <1>5 DEF Past
<1>8. \A W, out : After(W, out)' <=> After(W, out) BY <1>1, <1>3 DEF After
<1> QED BY <1>4, <1>6, <1>7, <1>8 DEF Walked, Visits

-----------------------------------------------------------------------------
\* Every test walks as Order does; one that is not under way has walked nothing.
Listing ==
  /\ GraphOK /\ latency \in [Nodes -> Nat]
  /\ running \in SUBSET Tests
  /\ walk = [t \in Tests |-> walk[t]] /\ order = [t \in Tests |-> order[t]]
  /\ \A t \in Tests :
       /\ Walked(walk[t], order[t])
       /\ t \notin running => walk[t] = <<>> /\ order[t] = <<>>

\* Nothing is listed where nothing is visited; Order begins with the roots.
LEMMA WalkBegins ==
  /\ Walked(<<>>, <<>>)
  /\ \A roots \in Seq(Names) : Walked(<<[name |-> None, left |-> roots]>>, <<>>)
<1>1. Walked(<<>>, <<>>) BY DEF Walked, Once, Chain, Past, After
<1>2. ASSUME NEW roots \in Seq(Names) PROVE Walked(<<[name |-> None, left |-> roots]>>, <<>>)
  <2>1. PICK W : W = <<[name |-> None, left |-> roots]>> OBVIOUS
  <2>2. [name |-> None, left |-> roots] \in Visits BY DEF Visits
  <2>3. W \in Seq(Visits) /\ Len(W) = 1 /\ W[1].name = None BY <2>1, <2>2
  <2>4. Once(W, <<>>) BY <2>3 DEF Once
  <2>5. Chain(W) BY <2>3 DEF Chain
  <2>6. Past(W, <<>>) BY <2>3 DEF Past
  <2>7. After(W, <<>>) BY <2>3 DEF After
  <2> QED BY <2>1, <2>3, <2>4, <2>5, <2>6, <2>7 DEF Walked
<1> QED BY <1>1, <1>2

\* When Order returns, nothing is under way.
LEMMA WalkEnds ==
  ASSUME NEW W, NEW out, Walked(W, out), W # <<>>, Last(W).name = None
  PROVE  Walked(<<>>, out)
<1>1. W \in Seq(Visits) /\ out \in Seq(Names) /\ Once(W, out) /\ After(W, out) BY DEF Walked
<1>2. Len(W) \in Nat /\ Len(W) >= 1 /\ Last(W) = W[Len(W)] BY <1>1, FrontIs
<1>3. Len(W) = 1
  <2>1. Len(W) \in 1 .. Len(W) /\ W[Len(W)].name = None BY <1>2
  <2> QED BY <1>1, <2>1 DEF Once
<1>4. Once(<<>>, out) BY <1>1 DEF Once
<1>5. Chain(<<>>) /\ Past(<<>>, out) BY DEF Chain, Past
<1>6. After(<<>>, out) BY <1>1, <1>3 DEF After
<1> QED BY <1>1, <1>4, <1>5, <1>6 DEF Walked

\* At first nothing is listed.
LEMMA InitListing == Init => Listing
BY WalkBegins, NamesAssumption DEF Init, Listing, GraphOK, Names

\* A test that does not walk, and does not begin or end, leaves the lists alone.
LEMMA OthersListing ==
  ASSUME [Next]_vars
  PROVE  \/ UNCHANGED <<members, latency, callVars>>
         \/ \E t \in Tests :
              \/ \E roots \in Requests : TestGroups(t, roots)
              \/ Visit(t) \/ List(t) \/ Run(t) \/ Return(t)
<1>1. ASSUME NEW t \in Tests, NEW n \in Names, Step(t, n) PROVE UNCHANGED <<members, latency, callVars>>
  <2>1. (\E m \in Names : Measure(t, n, m)) \/ NoGroup(t, n) \/ MeasureNodes(t, n)
        => UNCHANGED <<members, latency, callVars>>
    BY DEF Measure, NoGroup, MeasureNodes, graphVars
  <2>2. NothingToSeat(t, n) \/ LockPick(t, n) \/ KeepPin(t, n) \/ SeatPin(t, n)
        => UNCHANGED <<members, latency, callVars>>
    BY DEF NothingToSeat, LockPick, KeepPin, SeatPin, graphVars
  <2>3. SeatRead(t, n) \/ SeatUnpin(t, n) \/ UnlockPick(t, n)
        => UNCHANGED <<members, latency, callVars>>
    BY DEF SeatRead, SeatUnpin, UnlockPick, graphVars
  <2> QED BY <1>1, <2>1, <2>2, <2>3 DEF Step
<1>2. ASSUME NEW g \in Groups, Traffic(g) \/ \E m \in Names \cup {None} : ChangeProxy(g, m)
      PROVE UNCHANGED <<members, latency, callVars>>
  BY <1>2 DEF Traffic, ChangeProxy, graphVars, testVars
<1>3. UNCHANGED vars => UNCHANGED <<members, latency, callVars>>
  BY DEF vars, graphVars, testVars
<1> QED BY <1>1, <1>2, <1>3 DEF Next

\* One test's walk goes on, the others' stay what they are.
LEMMA OneWalks ==
  ASSUME Listing, NEW t \in Tests, NEW W, NEW out, Walked(W, out),
         walk' = [walk EXCEPT ![t] = W], order' = [order EXCEPT ![t] = out],
         UNCHANGED <<members, latency>>, running' \in SUBSET Tests,
         \A u \in Tests \ {t} : u \notin running' => u \notin running,
         t \notin running' => W = <<>> /\ out = <<>>
  PROVE  Listing'
<1>1. walk'[t] = W /\ order'[t] = out BY DEF Listing
<1>2. \A u \in Tests \ {t} : walk'[u] = walk[u] /\ order'[u] = order[u] BY DEF Listing
<1>3. \A u \in Tests : Walked(walk'[u], order'[u]) BY <1>1, <1>2 DEF Listing
<1>4. \A u \in Tests : Walked(walk[u], order[u])' BY <1>3, SameGraph
<1>5. \A u \in Tests : u \notin running' => walk'[u] = <<>> /\ order'[u] = <<>>
  BY <1>1, <1>2 DEF Listing
<1> QED BY <1>4, <1>5 DEF Listing, GraphOK

\* Every step leaves the stacks and the lists what Order promises of them.
LEMMA ListingStep == ASSUME Listing, [Next]_vars PROVE Listing'
<1>1. CASE UNCHANGED <<members, latency, callVars>>
  <2>1. \A u \in Tests : Walked(walk[u], order[u])' BY <1>1, SameGraph DEF Listing, callVars
  <2> QED BY <1>1, <2>1 DEF Listing, callVars, GraphOK
<1>2. ASSUME NEW t \in Tests, NEW roots \in Requests, TestGroups(t, roots) PROVE Listing'
  <2>1. roots \in Seq(Names) BY NamesAssumption DEF Names
  <2>2. PICK W : W = <<[name |-> None, left |-> roots]>> OBVIOUS
  <2>3. Walked(W, <<>>) BY <2>1, <2>2, WalkBegins
  <2>4. order' = [order EXCEPT ![t] = <<>>] BY <1>2 DEF TestGroups, Listing
  <2>5. /\ walk' = [walk EXCEPT ![t] = W] /\ running' = running \cup {t}
        /\ UNCHANGED <<members, latency>>
    BY <1>2, <2>2 DEF TestGroups, graphVars
  <2>6. running' \in SUBSET Tests BY <2>5 DEF Listing
  <2> QED BY <2>3, <2>4, <2>5, <2>6, OneWalks
<1>3. ASSUME NEW t \in Tests, Visit(t) PROVE Listing'
  <2>1. PICK W, out, h, R :
          /\ W = walk[t] /\ out = order[t] /\ h = Head(Last(W).left) /\ R = Rest(W)
    OBVIOUS
  <2>2. W # <<>> /\ Last(W).left # <<>> /\ Walked(W, out) /\ t \in running
    BY <1>3, <2>1 DEF Visit, Visiting, Listing
  <2>3. W \in Seq(Visits) /\ out \in Seq(Names) BY <2>2 DEF Walked
  <2>4. h \in Seen(t) <=> Met(W, out, h)
    <3>1. DOMAIN W = 1 .. Len(W) /\ DOMAIN out = 1 .. Len(out) BY <2>3
    <3> QED BY <2>1, <3>1 DEF Seen, Met, ToSet
  <2>5. PICK V : /\ walk' = [walk EXCEPT ![t] = V]
                 /\ V = IF h \in Seen(t) \/ (Last(W).name # None /\ h \notin Groups) THEN R
                        ELSE Append(R, [name |-> h, left |-> Within(h)])
    BY <1>3, <2>1 DEF Visit, Rest
  <2>6. Walked(V, out)
    <3>1. CASE Met(W, out, h) \/ (Last(W).name # None /\ h \notin Groups)
      BY <2>1, <2>2, <2>4, <2>5, <3>1, WalkSkips
    <3>2. CASE ~Met(W, out, h) /\ (Last(W).name = None \/ h \in Groups)
      BY <2>1, <2>2, <2>4, <2>5, <3>2, WalkEnters DEF Listing
    <3> QED BY <3>1, <3>2
  <2>7. order' = [order EXCEPT ![t] = out] /\ UNCHANGED <<members, latency, running>>
    BY <1>3, <2>1 DEF Visit, graphVars, Listing
  <2> QED BY <2>2, <2>5, <2>6, <2>7, OneWalks DEF Listing
<1>4. ASSUME NEW t \in Tests, List(t) PROVE Listing'
  <2>1. PICK W, out, x : W = walk[t] /\ out = order[t] /\ x = Last(W).name OBVIOUS
  <2>2. W # <<>> /\ Last(W).left = <<>> /\ x # None /\ Walked(W, out) /\ t \in running
    BY <1>4, <2>1 DEF List, Visiting, Listing
  <2>3. Walked(Front(W), Append(out, x)) BY <2>1, <2>2, WalkLists
  <2>4. /\ walk' = [walk EXCEPT ![t] = Front(W)] /\ order' = [order EXCEPT ![t] = Append(out, x)]
        /\ UNCHANGED <<members, latency, running>>
    BY <1>4, <2>1 DEF List, graphVars, Listing
  <2> QED BY <2>2, <2>3, <2>4, OneWalks DEF Listing
<1>5. ASSUME NEW t \in Tests, Run(t) PROVE Listing'
  <2>1. PICK W, out : W = walk[t] /\ out = order[t] OBVIOUS
  <2>2. W # <<>> /\ Last(W).name = None /\ Walked(W, out) /\ t \in running
    BY <1>5, <2>1 DEF Run, Visiting, Listing
  <2>3. Walked(<<>>, out) BY <2>2, WalkEnds
  <2>4. /\ walk' = [walk EXCEPT ![t] = <<>>] /\ order' = [order EXCEPT ![t] = out]
        /\ UNCHANGED <<members, latency, running>>
    BY <1>5, <2>1 DEF Run, graphVars, Listing
  <2> QED BY <2>2, <2>3, <2>4, OneWalks DEF Listing
<1>6. ASSUME NEW t \in Tests, Return(t) PROVE Listing'
  <2>1. /\ walk' = [walk EXCEPT ![t] = <<>>] /\ order' = [order EXCEPT ![t] = <<>>]
        /\ UNCHANGED <<members, latency>> /\ running' = running \ {t}
    BY <1>6 DEF Return, Visiting, graphVars, Listing
  <2>2. running' \in SUBSET Tests BY <2>1 DEF Listing
  <2> QED BY <2>1, <2>2, WalkBegins, OneWalks
<1> QED BY <1>1, <1>2, <1>3, <1>4, <1>5, <1>6, OthersListing

\* What the walk has listed when it is over is what Order promises.
LEMMA ListingGives == Listing => ChildrenFirst
<1> SUFFICES ASSUME Listing, NEW t \in running, ~Visiting(t)
             PROVE /\ order[t] \in Seq(Names) /\ IsInjective(order[t])
                   /\ \A j \in DOMAIN order[t] : \A child \in Children(order[t][j]) :
                        \E i \in DOMAIN order[t] :
                          order[t][i] = child /\ (i < j \/ order[t][j] \in Nested(child))
  BY DEF ChildrenFirst
<1>1. PICK out : out = order[t] OBVIOUS
<1>2. Walked(<<>>, out) BY <1>1 DEF Listing, Visiting
<1>3. out \in Seq(Names) /\ Once(<<>>, out) /\ After(<<>>, out) BY <1>2 DEF Walked
<1>4. DOMAIN out = 1 .. Len(out) BY <1>3
<1>5. IsInjective(out) BY <1>3, <1>4 DEF Once, IsInjective
<1>6. \A j \in DOMAIN out : \A child \in Children(out[j]) :
        \E i \in DOMAIN out : out[i] = child /\ (i < j \/ out[j] \in Nested(child))
  BY <1>3, <1>4 DEF After
<1> QED BY <1>1, <1>3, <1>5, <1>6

\* grouptest.Order lists every group after all that is nested in it, each once, but
\* for cycles - in any graph, from any roots, whatever else goes on.
THEOREM OrderKeepsItsPromise == Spec => []ChildrenFirst
<1>1. Listing /\ [Next]_vars => Listing' BY ListingStep
<1> QED BY InitListing, <1>1, ListingGives, PTL DEF Spec

-----------------------------------------------------------------------------
(* Waiting.                                                                *)

\* A set of naturals that is not empty has a least member.
LEMMA Least ==
  ASSUME NEW S \in SUBSET Nat, S # {}
  PROVE  \E i \in S : \A j \in S : i <= j
<1>1. PICK i \in S : \A j \in S : <<j, i>> \notin OpToRel(<, Nat)
  BY NatLessThanWellFounded, WFMin
<1>2. \A j \in S : ~(j < i) BY <1>1 DEF OpToRel
<1> QED BY <1>2

\* grouptest.Run waits only for what is earlier in the order: where the order has
\* each name once, the earliest run that is not done waits for nobody.
LEMMA OrderPreventsCycles == ChildrenFirst => NoCircularWait
<1> SUFFICES ASSUME ChildrenFirst, NEW t \in running, ~Visiting(t),
                    NEW u \in ToSet(order[t]), pc[t][u] # "done"
             PROVE  \E n \in ToSet(order[t]) :
                      /\ pc[t][n] # "done"
                      /\ \A m \in ToSet(members[n]) : Await(t, n, m)
  BY DEF NoCircularWait
<1> DEFINE undone == {i \in DOMAIN order[t] : pc[t][order[t][i]] # "done"}
<1>0. order[t] \in Seq(Names) /\ IsInjective(order[t]) BY DEF ChildrenFirst
<1>1. DOMAIN order[t] = 1 .. Len(order[t]) /\ Len(order[t]) \in Nat BY <1>0
<1>2. undone # {} BY DEF ToSet
<1>3. PICK i \in undone : \A j \in undone : i <= j
  <2>1. undone \in SUBSET Nat BY <1>1
  <2> QED BY <1>2, <2>1, Least
<1>4. ASSUME NEW m, Before(t, m, order[t][i]) PROVE pc[t][m] = "done"
  <2>1. PICK k, j \in DOMAIN order[t] : order[t][k] = m /\ order[t][j] = order[t][i] /\ k < j
    BY <1>4 DEF Before
  <2>2. j = i BY <1>0, <2>1 DEF IsInjective
  <2>3. k \notin undone BY <1>1, <1>3, <2>1, <2>2
  <2> QED BY <2>1, <2>3
<1> QED BY <1>3, <1>4 DEF Await, ToSet

\* A test never waits on itself in a circle, in any graph, cyclic ones included:
\* while a run is left undone, one that is not done waits for nobody.
THEOREM NobodyWaitsInCircles == Spec => []NoCircularWait
BY OrderKeepsItsPromise, OrderPreventsCycles, PTL

-----------------------------------------------------------------------------
(* The pins.                                                               *)

\* The labels, and the domains of the pins.
Shapes ==
  /\ pc \in [Tests -> [Names -> Labels]]
  /\ pin = [g \in Groups |-> pin[g]] /\ wanted = [g \in Groups |-> wanted[g]]

\* Runs are of names in the order of a test that is past Order.
Planned ==
  \A t \in Tests, n \in Names :
    pc[t][n] # "none" <=> t \in running /\ walk[t] = <<>> /\ n \in ToSet(order[t])

\* Whoever is between pickMu.Lock and Unlock has it.
Seating ==
  \A t \in Tests, n \in Names :
    pc[t][n] \in {"seat", "read", "unpin", "unlock"} <=> pickMu = <<t, n>>

\* A pin that is not the user's is a seating run's, where the user has none.
Pins ==
  \A g \in Groups :
    /\ pin[g] # wanted[g] => \E t \in Tests : pc[t][g] \in {"read", "unpin"}
    /\ (\E t \in Tests : pc[t][g] \in {"read", "unpin"}) => wanted[g] = None

\* The inductive invariant that the pins and the order rest on.
Inv == Listing /\ Shapes /\ Planned /\ Seating /\ Pins

-----------------------------------------------------------------------------
\* Nothing runs, and nothing is pinned, at first.
LEMMA InitInv == Init => Inv
BY InitListing, NamesAssumption DEF Init, Inv, Shapes, Planned, Seating, Pins, Names, Labels

\* Every step keeps the labels and the domains.
LEMMA ShapesStep == ASSUME Inv, [Next]_vars PROVE Shapes'
<1> USE DEF Inv, Shapes, Labels, Goto, callVars, testVars
<1>1. ASSUME NEW t \in Tests, NEW roots \in Requests, TestGroups(t, roots) PROVE Shapes'
  BY <1>1 DEF TestGroups
<1>2. ASSUME NEW t \in Tests, NEW n \in Names, NoGroup(t, n) PROVE Shapes'
  BY <1>2 DEF NoGroup
<1>3. ASSUME NEW t \in Tests, NEW n \in Names, MeasureNodes(t, n) PROVE Shapes'
  BY <1>3 DEF MeasureNodes
<1>4. ASSUME NEW t \in Tests, NEW n \in Names, NEW m \in Names, Measure(t, n, m) PROVE Shapes'
  BY <1>4 DEF Measure
<1>5. ASSUME NEW t \in Tests, NEW n \in Names, LockPick(t, n) PROVE Shapes'
  BY <1>5 DEF LockPick, Measured
<1>6. ASSUME NEW t \in Tests, NEW n \in Names, NothingToSeat(t, n) PROVE Shapes'
  BY <1>6 DEF NothingToSeat, Measured
<1>7. ASSUME NEW t \in Tests, NEW n \in Names, KeepPin(t, n) PROVE Shapes'
  BY <1>7 DEF KeepPin
<1>8. ASSUME NEW t \in Tests, NEW n \in Names, SeatPin(t, n) PROVE Shapes'
  BY <1>8 DEF SeatPin
<1>9. ASSUME NEW t \in Tests, NEW n \in Names, SeatRead(t, n) PROVE Shapes'
  BY <1>9 DEF SeatRead
<1>10. ASSUME NEW t \in Tests, NEW n \in Names, SeatUnpin(t, n) PROVE Shapes'
  BY <1>10 DEF SeatUnpin
<1>11. ASSUME NEW t \in Tests, NEW n \in Names, UnlockPick(t, n) PROVE Shapes'
  BY <1>11 DEF UnlockPick
<1>12. ASSUME NEW t \in Tests, Return(t) PROVE Shapes'
  BY <1>12 DEF Return
<1>13. ASSUME NEW g \in Groups, NEW m \in Names \cup {None}, ChangeProxy(g, m) PROVE Shapes'
  BY <1>13 DEF ChangeProxy, Select
<1>14. ASSUME NEW g \in Groups, Traffic(g) PROVE Shapes'
  BY <1>14 DEF Traffic
<1>15. ASSUME NEW t \in Tests, Visit(t) PROVE Shapes'
  BY <1>15 DEF Visit
<1>16. ASSUME NEW t \in Tests, List(t) PROVE Shapes'
  BY <1>16 DEF List
<1>17. ASSUME NEW t \in Tests, Run(t) PROVE Shapes'
  BY <1>17 DEF Run
<1>18. CASE UNCHANGED vars BY <1>18 DEF vars
<1> QED
  BY <1>1, <1>2, <1>3, <1>4, <1>5, <1>6, <1>7, <1>8, <1>9, <1>10, <1>11,
     <1>12, <1>13, <1>14, <1>15, <1>16, <1>17, <1>18 DEF Next, Step

\* Runs begin with their test and end before it.
LEMMA PlannedStep == ASSUME Inv, [Next]_vars PROVE Planned'
<1>0. \A t \in Tests : /\ walk = [u \in Tests |-> walk[u]] /\ order = [u \in Tests |-> order[u]]
                       /\ walk[t] # <<>> => t \in running
                       /\ t \notin running => walk[t] = <<>> /\ order[t] = <<>>
  BY DEF Inv, Listing
<1> USE DEF Inv, Shapes, Planned, Labels, Goto, callVars, testVars
<1>1. ASSUME NEW t \in Tests, NEW roots \in Requests, TestGroups(t, roots) PROVE Planned'
  BY <1>0, <1>1 DEF TestGroups, Visiting, ToSet
<1>2. ASSUME NEW t \in Tests, NEW n \in Names, NoGroup(t, n) PROVE Planned'
  BY <1>2 DEF NoGroup
<1>3. ASSUME NEW t \in Tests, NEW n \in Names, MeasureNodes(t, n) PROVE Planned'
  BY <1>3 DEF MeasureNodes
<1>4. ASSUME NEW t \in Tests, NEW n \in Names, NEW m \in Names, Measure(t, n, m) PROVE Planned'
  BY <1>4 DEF Measure
<1>5. ASSUME NEW t \in Tests, NEW n \in Names, LockPick(t, n) PROVE Planned'
  BY <1>5 DEF LockPick, Measured
<1>6. ASSUME NEW t \in Tests, NEW n \in Names, NothingToSeat(t, n) PROVE Planned'
  BY <1>6 DEF NothingToSeat, Measured
<1>7. ASSUME NEW t \in Tests, NEW n \in Names, KeepPin(t, n) PROVE Planned'
  BY <1>7 DEF KeepPin
<1>8. ASSUME NEW t \in Tests, NEW n \in Names, SeatPin(t, n) PROVE Planned'
  BY <1>8 DEF SeatPin
<1>9. ASSUME NEW t \in Tests, NEW n \in Names, SeatRead(t, n) PROVE Planned'
  BY <1>9 DEF SeatRead
<1>10. ASSUME NEW t \in Tests, NEW n \in Names, SeatUnpin(t, n) PROVE Planned'
  BY <1>10 DEF SeatUnpin
<1>11. ASSUME NEW t \in Tests, NEW n \in Names, UnlockPick(t, n) PROVE Planned'
  BY <1>11 DEF UnlockPick
<1>12. ASSUME NEW t \in Tests, Return(t) PROVE Planned'
  BY <1>0, <1>12 DEF Return, Visiting, ToSet
<1>13. ASSUME NEW g \in Groups, NEW m \in Names \cup {None}, ChangeProxy(g, m) PROVE Planned'
  BY <1>13 DEF ChangeProxy, Select
<1>14. ASSUME NEW g \in Groups, Traffic(g) PROVE Planned'
  BY <1>14 DEF Traffic
<1>15. ASSUME NEW t \in Tests, Visit(t) PROVE Planned'
  <2>1. walk'[t] # <<>>
    <3>1. Walked(walk[t], order[t]) /\ walk[t] # <<>> /\ Last(walk[t]).left # <<>>
      BY <1>15 DEF Visit, Visiting, Inv, Listing
    <3>2. Rest(walk[t]) \in Seq(Visits) BY <3>1, RestWalked
    <3>3. \/ walk' = [walk EXCEPT ![t] = Rest(walk[t])]
          \/ \E v : walk' = [walk EXCEPT ![t] = Append(Rest(walk[t]), v)]
      BY <1>15 DEF Visit, Rest
    <3>4. Rest(walk[t]) # <<>>
      <4>1. Len(Rest(walk[t])) = Len(walk[t]) /\ Len(walk[t]) >= 1
        BY <3>1, RestIs DEF Walked
      <4> QED BY <4>1
    <3> QED BY <1>0, <3>2, <3>3, <3>4
  <2>2. \A u \in Tests \ {t} : walk'[u] = walk[u] BY <1>0, <1>15 DEF Visit
  <2>3. walk[t] # <<>> /\ UNCHANGED <<pc, order, running>> BY <1>15 DEF Visit, Visiting
  <2> QED BY <2>1, <2>2, <2>3
<1>16. ASSUME NEW t \in Tests, List(t) PROVE Planned'
  <2>1. walk'[t] # <<>>
    <3>1. Walked(walk[t], order[t]) /\ walk[t] # <<>> /\ Last(walk[t]).name # None
      BY <1>16 DEF List, Visiting, Inv, Listing
    <3>2. walk[t] \in Seq(Visits) /\ walk[t][1].name = None BY <3>1 DEF Walked, Once
    <3>3. Len(walk[t]) # 1 /\ Len(Front(walk[t])) = Len(walk[t]) - 1
      BY <3>1, <3>2, FrontIs
    <3>4. Len(walk[t]) \in Nat /\ Len(walk[t]) >= 1 /\ Len(Front(walk[t])) # 0
      BY <3>1, <3>2, <3>3, FrontIs
    <3>5. Front(walk[t]) # <<>> BY <3>4
    <3> QED BY <1>0, <1>16, <3>5 DEF List
  <2>2. \A u \in Tests \ {t} : walk'[u] = walk[u] /\ order'[u] = order[u]
    BY <1>0, <1>16 DEF List
  <2>3. walk[t] # <<>> /\ UNCHANGED <<pc, running>> BY <1>16 DEF List, Visiting
  <2> QED BY <2>1, <2>2, <2>3
<1>17. ASSUME NEW t \in Tests, Run(t) PROVE Planned'
  BY <1>0, <1>17 DEF Run, Visiting, ToSet
<1>18. CASE UNCHANGED vars BY <1>18 DEF vars
<1> QED
  BY <1>1, <1>2, <1>3, <1>4, <1>5, <1>6, <1>7, <1>8, <1>9, <1>10, <1>11,
     <1>12, <1>13, <1>14, <1>15, <1>16, <1>17, <1>18 DEF Next, Step

\* pickMu is taken by one run at a time, which gives it back itself.
LEMMA SeatingStep == ASSUME Inv, [Next]_vars PROVE Seating'
<1> USE NamesAssumption DEF Inv, Shapes, Planned, Seating, Labels, Goto, callVars, testVars, Names
<1>1. ASSUME NEW t \in Tests, NEW roots \in Requests, TestGroups(t, roots) PROVE Seating'
  BY <1>1 DEF TestGroups
<1>2. ASSUME NEW t \in Tests, NEW n \in Names, NoGroup(t, n) PROVE Seating'
  BY <1>2 DEF NoGroup
<1>3. ASSUME NEW t \in Tests, NEW n \in Names, MeasureNodes(t, n) PROVE Seating'
  BY <1>3 DEF MeasureNodes
<1>4. ASSUME NEW t \in Tests, NEW n \in Names, NEW m \in Names, Measure(t, n, m) PROVE Seating'
  BY <1>4 DEF Measure
<1>5. ASSUME NEW t \in Tests, NEW n \in Names, LockPick(t, n) PROVE Seating'
  BY <1>5 DEF LockPick, Measured
<1>6. ASSUME NEW t \in Tests, NEW n \in Names, NothingToSeat(t, n) PROVE Seating'
  BY <1>6 DEF NothingToSeat, Measured
<1>7. ASSUME NEW t \in Tests, NEW n \in Names, KeepPin(t, n) PROVE Seating'
  BY <1>7 DEF KeepPin
<1>8. ASSUME NEW t \in Tests, NEW n \in Names, SeatPin(t, n) PROVE Seating'
  BY <1>8 DEF SeatPin
<1>9. ASSUME NEW t \in Tests, NEW n \in Names, SeatRead(t, n) PROVE Seating'
  BY <1>9 DEF SeatRead
<1>10. ASSUME NEW t \in Tests, NEW n \in Names, SeatUnpin(t, n) PROVE Seating'
  BY <1>10 DEF SeatUnpin
<1>11. ASSUME NEW t \in Tests, NEW n \in Names, UnlockPick(t, n) PROVE Seating'
  BY <1>11 DEF UnlockPick
<1>12. ASSUME NEW t \in Tests, Return(t) PROVE Seating'
  <2>1. \A n \in Names : pc[t][n] \in {"none", "done"} BY <1>12 DEF Return, Visiting
  <2>2. \A n \in Names : pc'[t][n] = "none" BY <1>12 DEF Return
  <2>3. \A u \in Tests \ {t} : pc'[u] = pc[u] BY <1>12 DEF Return
  <2>4. UNCHANGED <<pin, wanted, pickMu>> BY <1>12 DEF Return
  <2> QED BY <2>1, <2>2, <2>3, <2>4
<1>13. ASSUME NEW g \in Groups, NEW m \in Names \cup {None}, ChangeProxy(g, m) PROVE Seating'
  BY <1>13 DEF ChangeProxy, Select
<1>14. ASSUME NEW g \in Groups, Traffic(g) PROVE Seating'
  BY <1>14 DEF Traffic
<1>15. ASSUME NEW t \in Tests, Visit(t) PROVE Seating'
  BY <1>15 DEF Visit
<1>16. ASSUME NEW t \in Tests, List(t) PROVE Seating'
  BY <1>16 DEF List
<1>17. ASSUME NEW t \in Tests, Run(t) PROVE Seating'
  BY <1>17 DEF Run, Visiting
<1>18. CASE UNCHANGED vars BY <1>18 DEF vars
<1> QED
  BY <1>1, <1>2, <1>3, <1>4, <1>5, <1>6, <1>7, <1>8, <1>9, <1>10, <1>11,
     <1>12, <1>13, <1>14, <1>15, <1>16, <1>17, <1>18 DEF Next, Step

\* A test pins what has no pin and takes that pin back; the user pins under
\* pickMu, when no test has one.
LEMMA PinsStep == ASSUME Inv, [Next]_vars PROVE Pins'
<1> USE NamesAssumption DEF Inv, Shapes, Planned, Seating, Pins, Labels, Goto, callVars, testVars, Names
<1>1. ASSUME NEW t \in Tests, NEW roots \in Requests, TestGroups(t, roots) PROVE Pins'
  BY <1>1 DEF TestGroups
<1>2. ASSUME NEW t \in Tests, NEW n \in Names, NoGroup(t, n) PROVE Pins'
  BY <1>2 DEF NoGroup
<1>3. ASSUME NEW t \in Tests, NEW n \in Names, MeasureNodes(t, n) PROVE Pins'
  BY <1>3 DEF MeasureNodes
<1>4. ASSUME NEW t \in Tests, NEW n \in Names, NEW m \in Names, Measure(t, n, m) PROVE Pins'
  BY <1>4 DEF Measure
<1>5. ASSUME NEW t \in Tests, NEW n \in Names, LockPick(t, n) PROVE Pins'
  BY <1>5 DEF LockPick, Measured
<1>6. ASSUME NEW t \in Tests, NEW n \in Names, NothingToSeat(t, n) PROVE Pins'
  BY <1>6 DEF NothingToSeat, Measured
<1>7. ASSUME NEW t \in Tests, NEW n \in Names, KeepPin(t, n) PROVE Pins'
  BY <1>7 DEF KeepPin
<1>8. ASSUME NEW t \in Tests, NEW n \in Names, SeatPin(t, n) PROVE Pins'
  BY <1>8 DEF SeatPin
<1>9. ASSUME NEW t \in Tests, NEW n \in Names, SeatRead(t, n) PROVE Pins'
  BY <1>9 DEF SeatRead
<1>10. ASSUME NEW t \in Tests, NEW n \in Names, SeatUnpin(t, n) PROVE Pins'
  BY <1>10 DEF SeatUnpin
<1>11. ASSUME NEW t \in Tests, NEW n \in Names, UnlockPick(t, n) PROVE Pins'
  BY <1>11 DEF UnlockPick
<1>12. ASSUME NEW t \in Tests, Return(t) PROVE Pins'
  <2>1. \A n \in Names : pc[t][n] \in {"none", "done"} BY <1>12 DEF Return, Visiting
  <2>2. \A n \in Names : pc'[t][n] = "none" BY <1>12 DEF Return
  <2>3. \A u \in Tests \ {t} : pc'[u] = pc[u] BY <1>12 DEF Return
  <2>4. UNCHANGED <<pin, wanted, pickMu>> BY <1>12 DEF Return
  <2>5. \A u \in Tests, g \in Groups :
          pc'[u][g] \in {"read", "unpin"} <=> pc[u][g] \in {"read", "unpin"}
    BY <2>1, <2>2, <2>3
  <2> QED BY <2>4, <2>5
<1>13. ASSUME NEW g \in Groups, NEW m \in Names \cup {None}, ChangeProxy(g, m) PROVE Pins'
  BY <1>13 DEF ChangeProxy, Select
<1>14. ASSUME NEW g \in Groups, Traffic(g) PROVE Pins'
  BY <1>14 DEF Traffic
<1>15. ASSUME NEW t \in Tests, Visit(t) PROVE Pins'
  BY <1>15 DEF Visit
<1>16. ASSUME NEW t \in Tests, List(t) PROVE Pins'
  BY <1>16 DEF List
<1>17. ASSUME NEW t \in Tests, Run(t) PROVE Pins'
  BY <1>17 DEF Run, Visiting
<1>18. CASE UNCHANGED vars BY <1>18 DEF vars
<1> QED
  BY <1>1, <1>2, <1>3, <1>4, <1>5, <1>6, <1>7, <1>8, <1>9, <1>10, <1>11,
     <1>12, <1>13, <1>14, <1>15, <1>16, <1>17, <1>18 DEF Next, Step

\* Inv holds in every reachable state.
THEOREM InvAlways == Spec => []Inv
<1>1. Inv /\ [Next]_vars => Inv'
  BY ListingStep, ShapesStep, PlannedStep, SeatingStep, PinsStep DEF Inv
<1> QED BY InitInv, <1>1, PTL DEF Spec

\* With nobody between pickMu.Lock and Unlock every pin is the user's, however
\* tests, pins and traffic interleave.
THEOREM PinsSurviveTests == Spec => []PinStays
<1>1. Inv => PinStays
  <2> SUFFICES ASSUME Inv, pickMu = None PROVE pin = wanted BY DEF PinStays
  <2>1. \A t \in Tests, n \in Names : <<t, n>> # None BY NamesAssumption DEF Names
  <2>2. \A t \in Tests, g \in Groups : pc[t][g] \notin {"read", "unpin"}
    BY <2>1 DEF Inv, Seating, Names
  <2>3. \A g \in Groups : pin[g] = wanted[g] BY <2>2 DEF Inv, Pins
  <2> QED BY <2>3 DEF Inv, Shapes
<1> QED BY InvAlways, <1>1, PTL

-----------------------------------------------------------------------------
(* Delays: now is what the groups read as, lat what the nodes answer in.   *)

\* The groups read on the way from a name (Through).
ThroughOf(now, name) ==
  {g \in Groups : \A S \in SUBSET Groups :
     /\ name \in Groups => name \in S
     /\ \A h \in S : now[h] \in Groups => now[h] \in S
     => g \in S}

\* Those of them that read as a node.
Ends(now, name) == {g \in ThroughOf(now, name) : now[g] \in Nodes}

EndDelay(now, lat, ends) == IF ends = {} THEN 0 ELSE lat[now[CHOOSE g \in ends : TRUE]]

\* Delay, of the picks and the latencies alone.
DelayOf(now, lat, name) ==
  IF name \in Nodes THEN lat[name] ELSE EndDelay(now, lat, Ends(now, name))

Nows == [g \in Groups |-> Now(g)]

\* A set that has a name, if that is a group, and what its groups read as.
Closed(now, name, S) ==
  /\ S \subseteq Groups
  /\ name \in Groups => name \in S
  /\ \A h \in S : now[h] \in Groups => now[h] \in S

\* The least of them is what is read on the way.
LEMMA ThroughIsLeast ==
  ASSUME NEW now, NEW n
  PROVE  /\ Closed(now, n, ThroughOf(now, n))
         /\ \A S : Closed(now, n, S) => ThroughOf(now, n) \subseteq S
<1>1. ThroughOf(now, n) = {g \in Groups : \A S \in SUBSET Groups : Closed(now, n, S) => g \in S}
  BY DEF ThroughOf, Closed
<1>2. \A S : Closed(now, n, S) => ThroughOf(now, n) \subseteq S BY <1>1 DEF Closed
<1>3. ASSUME n \in Groups PROVE n \in ThroughOf(now, n) BY <1>1, <1>3 DEF Closed
<1>4. ASSUME NEW h \in ThroughOf(now, n), now[h] \in Groups PROVE now[h] \in ThroughOf(now, n)
  <2> SUFFICES ASSUME NEW S \in SUBSET Groups, Closed(now, n, S) PROVE now[h] \in S
    BY <1>1, <1>4
  <2>1. h \in S BY <1>2
  <2> QED BY <1>4, <2>1 DEF Closed
<1> QED BY <1>1, <1>2, <1>3, <1>4 DEF Closed

\* What is read on the way from a group: itself, and what is on the way from what
\* it reads as.
LEMMA ThroughStep ==
  ASSUME NEW now, NEW n \in Groups
  PROVE  /\ now[n] \in Groups => ThroughOf(now, n) = {n} \cup ThroughOf(now, now[n])
         /\ now[n] \notin Groups => ThroughOf(now, n) = {n}
<1>1. Closed(now, n, ThroughOf(now, n)) BY ThroughIsLeast
<1>2. ASSUME now[n] \in Groups PROVE ThroughOf(now, n) = {n} \cup ThroughOf(now, now[n])
  <2>1. Closed(now, now[n], ThroughOf(now, now[n])) BY ThroughIsLeast
  <2>2. Closed(now, n, {n} \cup ThroughOf(now, now[n])) BY <1>2, <2>1 DEF Closed
  <2>3. Closed(now, now[n], ThroughOf(now, n)) BY <1>1 DEF Closed
  <2>4. ThroughOf(now, n) \subseteq {n} \cup ThroughOf(now, now[n]) BY <2>2, ThroughIsLeast
  <2>5. ThroughOf(now, now[n]) \subseteq ThroughOf(now, n) BY <2>3, ThroughIsLeast
  <2>6. n \in ThroughOf(now, n) BY <1>1 DEF Closed
  <2> QED BY <2>4, <2>5, <2>6
<1>3. ASSUME now[n] \notin Groups PROVE ThroughOf(now, n) = {n}
  <2>1. Closed(now, n, {n}) BY <1>3 DEF Closed
  <2>2. ThroughOf(now, n) \subseteq {n} BY <2>1, ThroughIsLeast
  <2> QED BY <1>1, <2>2 DEF Closed
<1> QED BY <1>2, <1>3

\* A group has the delay of what it reads as.
LEMMA DelayStep ==
  ASSUME NEW now, NEW lat, NEW n \in Groups, now[n] \in Names
  PROVE  DelayOf(now, lat, n) = DelayOf(now, lat, now[n])
<1>1. n \notin Nodes BY NamesAssumption
<1>2. CASE now[n] \in Nodes
  <2>1. ThroughOf(now, n) = {n} BY <1>2, ThroughStep, NamesAssumption
  <2>2. PICK ends : ends = Ends(now, n) OBVIOUS
  <2>3. ends = {n} BY <1>2, <2>1, <2>2 DEF Ends
  <2>4. (CHOOSE g \in ends : TRUE) = n BY <2>3
  <2>5. EndDelay(now, lat, ends) = lat[now[n]] BY <2>3, <2>4 DEF EndDelay
  <2> QED BY <1>1, <1>2, <2>2, <2>5 DEF DelayOf
<1>3. CASE now[n] \in Groups
  <2>1. ThroughOf(now, n) = {n} \cup ThroughOf(now, now[n]) BY <1>3, ThroughStep
  <2>2. now[n] \notin Nodes BY <1>3, NamesAssumption
  <2>3. Ends(now, n) = Ends(now, now[n]) BY <2>1, <2>2 DEF Ends
  <2> QED BY <1>1, <2>2, <2>3 DEF DelayOf
<1> QED BY <1>2, <1>3 DEF Names

\* So has whatever it is read on the way from.
LEMMA DelayOnTheWay ==
  ASSUME NEW now, NEW lat, NEW n, NEW h \in ThroughOf(now, n),
         \A g \in Groups : now[g] \in Names
  PROVE  n \in Groups => DelayOf(now, lat, n) = DelayOf(now, lat, h)
<1> SUFFICES ASSUME n \in Groups PROVE DelayOf(now, lat, n) = DelayOf(now, lat, h) OBVIOUS
<1> DEFINE S == {g \in ThroughOf(now, n) : DelayOf(now, lat, g) = DelayOf(now, lat, n)}
<1>1. Closed(now, n, ThroughOf(now, n)) BY ThroughIsLeast
<1>2. n \in S BY <1>1 DEF Closed
<1>3. ASSUME NEW g \in S, now[g] \in Groups PROVE now[g] \in S
  <2>1. now[g] \in ThroughOf(now, n) /\ g \in Groups BY <1>1, <1>3 DEF Closed
  <2>2. DelayOf(now, lat, g) = DelayOf(now, lat, now[g]) BY <2>1, DelayStep
  <2> QED BY <2>1, <2>2
<1>4. Closed(now, n, S) BY <1>1, <1>2, <1>3 DEF Closed
<1>5. ThroughOf(now, n) \subseteq S BY <1>4, ThroughIsLeast
<1> QED BY <1>5

\* A name from which a group is not read does not notice what that group reads as.
LEMMA DelayElsewhere ==
  ASSUME NEW now, NEW new, NEW lat, NEW h, NEW n \in Names,
         \A g \in Groups \ {h} : new[g] = now[g],
         h \notin ThroughOf(now, n)
  PROVE  /\ ThroughOf(new, n) = ThroughOf(now, n)
         /\ DelayOf(new, lat, n) = DelayOf(now, lat, n)
<1>1. Closed(now, n, ThroughOf(now, n)) BY ThroughIsLeast
<1>2. Closed(new, n, ThroughOf(new, n)) BY ThroughIsLeast
<1>3. Closed(new, n, ThroughOf(now, n))
  <2>1. \A g \in ThroughOf(now, n) : new[g] = now[g] BY <1>1 DEF Closed
  <2> QED BY <1>1, <2>1 DEF Closed
<1>4. ThroughOf(new, n) \subseteq ThroughOf(now, n) BY <1>3, ThroughIsLeast
<1>5. \A g \in ThroughOf(new, n) : new[g] = now[g] BY <1>1, <1>4 DEF Closed
<1>6. Closed(now, n, ThroughOf(new, n)) BY <1>2, <1>5 DEF Closed
<1>7. ThroughOf(new, n) = ThroughOf(now, n) BY <1>4, <1>6, ThroughIsLeast
<1>8. PICK ends : ends = Ends(now, n) OBVIOUS
<1>9. ends = Ends(new, n) BY <1>5, <1>7, <1>8 DEF Ends
<1>10. EndDelay(new, lat, ends) = EndDelay(now, lat, ends)
  <2>1. CASE ends = {} BY <2>1 DEF EndDelay
  <2>2. CASE ends # {}
    <3>1. PICK e : e = CHOOSE g \in ends : TRUE OBVIOUS
    <3>2. e \in ends BY <2>2, <3>1
    <3>3. new[e] = now[e] BY <1>5, <1>7, <1>8, <3>2 DEF Ends
    <3> QED BY <2>2, <3>1, <3>3 DEF EndDelay
  <2> QED BY <2>1, <2>2
<1> QED BY <1>7, <1>8, <1>9, <1>10 DEF DelayOf

\* Nobody notices when a group comes to read as another name of the same delay.
LEMMA DelayKept ==
  ASSUME NEW now, NEW new, NEW lat, NEW h \in Groups,
         \A g \in Groups : now[g] \in Names /\ new[g] \in Names,
         \A g \in Groups \ {h} : new[g] = now[g],
         h \notin ThroughOf(now, now[h]), h \notin ThroughOf(now, new[h]),
         DelayOf(now, lat, now[h]) = DelayOf(now, lat, new[h])
  PROVE  \A n \in Names : DelayOf(new, lat, n) = DelayOf(now, lat, n)
<1>1. DelayOf(new, lat, h) = DelayOf(now, lat, h)
  <2>1. DelayOf(new, lat, h) = DelayOf(new, lat, new[h]) BY DelayStep
  <2>2. DelayOf(new, lat, new[h]) = DelayOf(now, lat, new[h]) BY DelayElsewhere
  <2>3. DelayOf(now, lat, h) = DelayOf(now, lat, now[h]) BY DelayStep
  <2> QED BY <2>1, <2>2, <2>3
<1> SUFFICES ASSUME NEW n \in Names PROVE DelayOf(new, lat, n) = DelayOf(now, lat, n) OBVIOUS
<1>2. CASE h \notin ThroughOf(now, n) BY <1>2, DelayElsewhere
<1>3. CASE h \notin ThroughOf(new, n)
  <2>1. DelayOf(now, lat, n) = DelayOf(new, lat, n) BY <1>3, DelayElsewhere
  <2> QED BY <2>1
<1>4. CASE h \in ThroughOf(now, n) /\ h \in ThroughOf(new, n)
  <2>1. CASE n \in Groups
    <3>1. DelayOf(now, lat, n) = DelayOf(now, lat, h) BY <1>4, <2>1, DelayOnTheWay
    <3>2. DelayOf(new, lat, n) = DelayOf(new, lat, h) BY <1>4, <2>1, DelayOnTheWay
    <3> QED BY <1>1, <3>1, <3>2
  <2>2. CASE n \in Nodes BY <2>2 DEF DelayOf
  <2> QED BY <2>1, <2>2 DEF Names
<1> QED BY <1>2, <1>3, <1>4

\* A delay is a number of milliseconds.
LEMMA DelayIsNat ==
  ASSUME NEW now, NEW lat \in [Nodes -> Nat], NEW n
  PROVE  DelayOf(now, lat, n) \in Nat
<1>1. CASE n \in Nodes BY <1>1 DEF DelayOf
<1>2. CASE n \notin Nodes
  <2>1. PICK ends : ends = Ends(now, n) OBVIOUS
  <2>2. CASE ends = {} BY <1>2, <2>1, <2>2 DEF DelayOf, EndDelay
  <2>3. CASE ends # {}
    <3>1. PICK e : e = CHOOSE g \in ends : TRUE OBVIOUS
    <3>2. e \in ends BY <2>3, <3>1
    <3>3. now[e] \in Nodes BY <2>1, <3>2 DEF Ends
    <3> QED BY <1>2, <2>1, <2>3, <3>1, <3>3 DEF DelayOf, EndDelay
  <2> QED BY <2>2, <2>3
<1> QED BY <1>1, <1>2

\* The module's delays are these.
LEMMA DelayIs ==
  /\ \A n : Delay(n) = DelayOf(Nows, latency, n)
  /\ \A n : Delay(n)' = DelayOf(Nows', latency', n)
<1>1. \A n : Delay(n) = DelayOf(Nows, latency, n)
  <2> SUFFICES ASSUME NEW n PROVE Delay(n) = DelayOf(Nows, latency, n) OBVIOUS
  <2>1. \A g \in Groups : Nows[g] = Now(g) BY DEF Nows
  <2>2. Through(n) = ThroughOf(Nows, n) BY <2>1 DEF Through, ThroughOf
  <2>3. PICK ends : ends = {g \in Through(n) : Now(g) \in Nodes} OBVIOUS
  <2>4. ends \subseteq Groups BY <2>3 DEF Through
  <2>5. ends = Ends(Nows, n)
    <3>1. \A g \in ThroughOf(Nows, n) : Nows[g] = Now(g) BY <2>1 DEF ThroughOf
    <3> QED BY <2>2, <2>3, <3>1 DEF Ends
  <2>6. CASE ends = {} BY <2>3, <2>5, <2>6 DEF Delay, DelayOf, EndDelay
  <2>7. CASE ends # {}
    <3>1. PICK e : e = CHOOSE g \in ends : TRUE OBVIOUS
    <3>2. e \in Groups BY <2>4, <2>7, <3>1
    <3>3. Nows[e] = Now(e) BY <2>1, <3>2
    <3>4. EndDelay(Nows, latency, ends) = latency[Now(e)] BY <2>7, <3>1, <3>3 DEF EndDelay
    <3>5. n \notin Nodes => Delay(n) = latency[Now(e)] BY <2>3, <2>7, <3>1 DEF Delay
    <3> QED BY <2>5, <3>4, <3>5 DEF Delay, DelayOf
  <2> QED BY <2>6, <2>7
<1>2. \A n : Delay(n)' = DelayOf(Nows', latency', n)
  <2> SUFFICES ASSUME NEW n PROVE Delay(n)' = DelayOf(Nows', latency', n) OBVIOUS
  <2>1. \A g \in Groups : Nows'[g] = Now(g)' BY DEF Nows
  <2>2. Through(n)' = ThroughOf(Nows', n) BY <2>1 DEF Through, ThroughOf
  <2>3. PICK ends : ends = {g \in Through(n)' : Now(g)' \in Nodes} OBVIOUS
  <2>4. ends \subseteq Groups BY <2>3 DEF Through
  <2>5. ends = Ends(Nows', n)
    <3>1. \A g \in ThroughOf(Nows', n) : Nows'[g] = Now(g)' BY <2>1 DEF ThroughOf
    <3> QED BY <2>2, <2>3, <3>1 DEF Ends
  <2>6. CASE ends = {} BY <2>3, <2>5, <2>6 DEF Delay, DelayOf, EndDelay
  <2>7. CASE ends # {}
    <3>1. PICK e : e = CHOOSE g \in ends : TRUE OBVIOUS
    <3>2. e \in Groups BY <2>4, <2>7, <3>1
    <3>3. Nows'[e] = Now(e)' BY <2>1, <3>2
    <3>4. EndDelay(Nows', latency', ends) = latency'[Now(e)'] BY <2>7, <3>1, <3>3 DEF EndDelay
    <3>5. n \notin Nodes => Delay(n)' = latency'[Now(e)'] BY <2>3, <2>7, <3>1 DEF Delay
    <3> QED BY <2>5, <3>4, <3>5 DEF Delay, DelayOf
  <2> QED BY <2>6, <2>7
<1> QED BY <1>1, <1>2

-----------------------------------------------------------------------------
(* What is nested, and who is read on the way from whom.                   *)

\* Nested is the least set closed under children.
LEMMA NestedIsLeast ==
  ASSUME NEW g, NEW S \in SUBSET Groups,
         Children(g) \subseteq S, \A h \in S : Children(h) \subseteq S
  PROVE  Nested(g) \subseteq S
BY DEF Nested

\* What is nested in a nested group is nested.
LEMMA NestedNests == ASSUME NEW g, NEW h \in Nested(g) PROVE Nested(h) \subseteq Nested(g)
BY NestedIsClosed, NestedIsLeast

\* A group that is in no cycle, nor has one below it.
Tame(g) == \A h \in Nested(g) \cup {g} : h \notin Nested(h)

\* Then nothing below it is in one.
LEMMA TameBelow == ASSUME NEW g, Tame(g), NEW h \in Nested(g) PROVE Tame(h) /\ h # g
BY NestedNests DEF Tame

\* The picks are members.
Picks ==
  /\ pick = [g \in Groups |-> pick[g]] /\ pin = [g \in Groups |-> pin[g]]
  /\ \A g \in Groups : pick[g] \in ToSet(members[g]) /\ pin[g] \in ToSet(members[g]) \cup {None}

\* Then so is what a group reads as.
LEMMA NowIsMember ==
  ASSUME GraphOK, Picks, NEW g \in Groups
  PROVE  /\ Nows[g] = Now(g) /\ Now(g) \in ToSet(members[g]) /\ Now(g) \in Names
         /\ Now(g) \in Groups => Now(g) \in Children(g)
<1>1. Now(g) \in ToSet(members[g]) BY DEF Picks, Now
<1>2. ToSet(members[g]) \subseteq Names
  <2>1. members[g] \in Seq(Names) BY DEF GraphOK
  <2> QED BY <2>1 DEF ToSet
<1> QED BY <1>1, <1>2 DEF Nows, Children

\* On the way from a name only what is nested in it is read.
LEMMA ThroughNested ==
  ASSUME GraphOK, Picks, NEW n \in Names
  PROVE  ThroughOf(Nows, n) \subseteq {n} \cup Nested(n)
<1> DEFINE S == ({n} \cap Groups) \cup Nested(n)
<1>1. S \subseteq Groups BY NestedIsClosed
<1>2. ASSUME NEW h \in S, Nows[h] \in Groups PROVE Nows[h] \in S
  <2>1. Nows[h] \in Children(h) BY <1>1, <1>2, NowIsMember
  <2>2. Children(h) \subseteq Nested(n) BY NestedIsClosed
  <2> QED BY <2>1, <2>2
<1>3. Closed(Nows, n, S) BY <1>1, <1>2 DEF Closed
<1> QED BY <1>3, ThroughIsLeast

\* A group in no cycle is not read on the way from its own members.
LEMMA TameMembers ==
  ASSUME GraphOK, Picks, NEW g \in Groups, Tame(g), NEW m \in ToSet(members[g])
  PROVE  g \notin ThroughOf(Nows, m) /\ m \in Names
<1>1. members[g] \in Seq(Names) BY DEF GraphOK
<1>2. m \in Names BY <1>1 DEF ToSet
<1>3. CASE m \in Groups
  <2>1. m \in Nested(g) BY <1>3, NestedIsClosed DEF Children
  <2>2. g \notin {m} \cup Nested(m) BY <2>1, NestedNests DEF Tame
  <2> QED BY <1>2, <2>2, ThroughNested
<1>4. CASE m \in Nodes
  <2>1. Closed(Nows, m, {}) BY <1>4, NamesAssumption DEF Closed
  <2>2. ThroughOf(Nows, m) \subseteq {} BY <2>1, ThroughIsLeast
  <2> QED BY <1>2, <2>2
<1> QED BY <1>2, <1>3, <1>4 DEF Names

\* The member a group is seated on, if any has a delay: one no other beats.
LEMMA FastestIs ==
  ASSUME NEW seq \in Seq(Names), NEW delay, \A m \in ToSet(seq) : delay[m] \in Nat
  PROVE  /\ Fastest(seq, delay) = None => \A m \in ToSet(seq) : delay[m] = 0
         /\ Fastest(seq, delay) # None =>
              /\ Fastest(seq, delay) \in ToSet(seq) /\ delay[Fastest(seq, delay)] > 0
              /\ \A m \in ToSet(seq) : delay[m] > 0 => delay[Fastest(seq, delay)] <= delay[m]
<1>1. PICK alive : alive = {i \in DOMAIN seq : delay[seq[i]] > 0} OBVIOUS
<1>2. PICK best : best = {i \in alive : \A j \in alive : delay[seq[i]] <= delay[seq[j]]} OBVIOUS
<1>3. PICK F : F = Fastest(seq, delay) OBVIOUS
<1>4. F = IF alive = {} THEN None ELSE seq[CHOOSE i \in best : \A j \in best : i <= j]
  BY <1>1, <1>2, <1>3 DEF Fastest
<1>5. DOMAIN seq \subseteq Nat /\ \A i \in DOMAIN seq : seq[i] \in Names /\ seq[i] \in ToSet(seq)
  BY DEF ToSet
<1>6. \A m \in ToSet(seq) : \E i \in DOMAIN seq : m = seq[i] BY DEF ToSet
<1>7. CASE alive = {}
  <2>1. \A i \in DOMAIN seq : delay[seq[i]] = 0 BY <1>1, <1>5, <1>7
  <2>2. F = None BY <1>4, <1>7
  <2> QED BY <1>3, <1>6, <2>1, <2>2
<1>8. CASE alive # {}
  <2>1. {delay[seq[i]] : i \in alive} \in SUBSET Nat /\ {delay[seq[i]] : i \in alive} # {}
    BY <1>1, <1>5, <1>8
  <2>2. best # {}
    <3>1. PICK d \in {delay[seq[i]] : i \in alive} : \A e \in {delay[seq[i]] : i \in alive} : d <= e
      BY <2>1, Least
    <3> QED BY <1>2, <3>1
  <2>3. best \in SUBSET Nat BY <1>1, <1>2, <1>5
  <2>4. PICK c : c = CHOOSE i \in best : \A j \in best : i <= j OBVIOUS
  <2>5. c \in best
    <3>1. \E i \in best : \A j \in best : i <= j BY <2>2, <2>3, Least
    <3> QED BY <2>4, <3>1
  <2>6. F = seq[c] BY <1>4, <1>8, <2>4
  <2>7. c \in DOMAIN seq /\ delay[F] > 0 BY <1>1, <1>2, <2>5, <2>6
  <2>8. F \in ToSet(seq) /\ F # None BY <1>5, <2>6, <2>7, NamesAssumption DEF Names
  <2>9. ASSUME NEW m \in ToSet(seq), delay[m] > 0 PROVE delay[F] <= delay[m]
    <3>1. PICK i \in DOMAIN seq : m = seq[i] BY <1>6
    <3> QED BY <1>1, <1>2, <2>5, <2>6, <2>9, <3>1
  <2> QED BY <1>3, <2>7, <2>8, <2>9
<1> QED BY <1>7, <1>8

-----------------------------------------------------------------------------
(* What is measured and picked.                                            *)

\* Where a run holds pickMu.
Seats == {"seat", "read", "unpin", "unlock"}

\* What is measured is of members, all of them once the measuring is over; only a
\* url-test group is seated.
Measures ==
  /\ delays = [t \in Tests |-> [g \in Groups |-> delays[t][g]]]
  /\ \A t \in Tests, n \in Nodes : pc[t][n] \in {"none", "start", "done"}
  /\ \A t \in Tests, g \in Groups :
       /\ pc[t][g] \in Seats => g \in UrlTests
       /\ DOMAIN delays[t][g] \subseteq ToSet(members[g])
       /\ pc[t][g] \in Seats \cup {"done"} => DOMAIN delays[t][g] = ToSet(members[g])
       /\ \A m \in DOMAIN delays[t][g] : delays[t][g][m] \in Nat

\* Between pin and unpin a group is pinned to the fastest, which it then adopts.
Holding ==
  \A t \in Tests, g \in Groups :
    /\ pc[t][g] \in {"read", "unpin"} =>
         pin[g] # None /\ pin[g] = Fastest(members[g], delays[t][g])
    /\ pc[t][g] = "unpin" => pick[g] = pin[g]

\* With what is measured and picked.
Data == Inv /\ Picks /\ Measures /\ Holding

\* The first member is one; nothing is measured yet.
LEMMA InitData == Init => Data
<1> SUFFICES ASSUME Init PROVE Data OBVIOUS
<1>1. Inv BY InitInv
<1>2. Picks
  <2>1. \A g \in Groups : members[g] \in Seq(Names) /\ members[g] # <<>>
    BY <1>1 DEF Inv, Listing, GraphOK
  <2>2. \A g \in Groups : members[g][1] \in ToSet(members[g])
    <3> SUFFICES ASSUME NEW g \in Groups PROVE members[g][1] \in ToSet(members[g]) OBVIOUS
    <3>1. 1 \in DOMAIN members[g] BY <2>1
    <3> QED BY <3>1 DEF ToSet
  <2> QED BY <2>2 DEF Init, Picks
<1>3. Measures
  <2>1. \A t \in Tests, g \in Groups : delays[t][g] = <<>> BY DEF Init
  <2>2. \A t \in Tests, n \in Names : pc[t][n] = "none" BY DEF Init
  <2>3. delays = [t \in Tests |-> [g \in Groups |-> delays[t][g]]] BY DEF Init
  <2>4. DOMAIN <<>> = {} OBVIOUS
  <2> QED BY <2>1, <2>2, <2>3, <2>4 DEF Measures, Seats, Names
<1>4. Holding BY DEF Init, Holding, Names
<1> QED BY <1>1, <1>2, <1>3, <1>4 DEF Data

\* The graph, and what the nodes answer in, never change.
LEMMA GraphStays == ASSUME [Next]_vars PROVE UNCHANGED <<members, latency>>
<1>1. ASSUME NEW t \in Tests,
             \/ \E roots \in Requests : TestGroups(t, roots)
             \/ Visit(t) \/ List(t) \/ Run(t) \/ Return(t)
      PROVE  UNCHANGED <<members, latency>>
  BY <1>1 DEF TestGroups, Visit, List, Run, Return, graphVars
<1> QED BY <1>1, OthersListing

\* A member chosen is a member, be it the fastest, the user's or a faster one.
LEMMA PicksStep == ASSUME Data, [Next]_vars PROVE Picks'
<1>0. members' = members BY GraphStays
<1>1. \A g \in Groups : members[g] \in Seq(Names) /\ members[g][1] \in ToSet(members[g])
  <2> SUFFICES ASSUME NEW g \in Groups
               PROVE  members[g] \in Seq(Names) /\ members[g][1] \in ToSet(members[g])
    OBVIOUS
  <2>1. members[g] \in Seq(Names) /\ members[g] # <<>> BY DEF Data, Inv, Listing, GraphOK
  <2>2. 1 \in DOMAIN members[g] BY <2>1
  <2> QED BY <2>1, <2>2 DEF ToSet
<1>2. CASE UNCHANGED <<pin, pick>> BY <1>0, <1>2 DEF Data, Picks
<1>3. ASSUME NEW t \in Tests, NEW g \in Names, SeatPin(t, g) PROVE Picks'
  <2>1. g \in Groups BY <1>3 DEF SeatPin, Data, Measures, Names
  <2>2. PICK best : best = Fastest(members[g], delays[t][g]) OBVIOUS
  <2>3. best # None /\ pin' = [pin EXCEPT ![g] = best] /\ pick' = pick BY <1>3, <2>2 DEF SeatPin
  <2>4. \A m \in ToSet(members[g]) : delays[t][g][m] \in Nat
    BY <1>3, <2>1 DEF SeatPin, Data, Measures, Seats
  <2>5. best \in ToSet(members[g]) BY <1>1, <2>1, <2>2, <2>3, <2>4, FastestIs
  <2> QED BY <1>0, <2>1, <2>3, <2>5 DEF Data, Picks
<1>4. ASSUME NEW t \in Tests, NEW g \in Names, SeatRead(t, g) PROVE Picks'
  <2>1. g \in Groups BY <1>4 DEF SeatRead, Data, Measures, Names
  <2>2. Now(g) \in ToSet(members[g]) BY <2>1, NowIsMember DEF Data, Inv, Listing
  <2>3. pin' = pin /\ pick' = [pick EXCEPT ![g] = Now(g)] BY <1>4 DEF SeatRead
  <2> QED BY <1>0, <2>1, <2>2, <2>3 DEF Data, Picks
<1>5. ASSUME NEW t \in Tests, NEW g \in Names, SeatUnpin(t, g) PROVE Picks'
  <2>1. pick' = pick /\ pin' = [pin EXCEPT ![g] = None] BY <1>5 DEF SeatUnpin
  <2> QED BY <1>0, <2>1 DEF Data, Picks
<1>6. ASSUME NEW g \in Groups, NEW m \in Names \cup {None}, ChangeProxy(g, m) PROVE Picks'
  <2>1. m \in ToSet(members[g]) \cup {None} BY <1>6 DEF ChangeProxy
  <2>2. CASE g \in UrlTests
    <3>1. pin' = [pin EXCEPT ![g] = m] /\ pick' = pick BY <1>6, <2>2 DEF ChangeProxy, Select
    <3> QED BY <1>0, <2>1, <3>1 DEF Data, Picks
  <2>3. CASE g \notin UrlTests
    <3>1. pin' = pin /\ pick' = [pick EXCEPT ![g] = IF m = None THEN members[g][1] ELSE m]
      BY <1>6, <2>3 DEF ChangeProxy, Select
    <3> QED BY <1>0, <1>1, <2>1, <3>1 DEF Data, Picks
  <2> QED BY <2>2, <2>3
<1>7. ASSUME NEW g \in Groups, Traffic(g) PROVE Picks'
  <2>1. Now(g) \in ToSet(members[g]) BY NowIsMember DEF Data, Inv, Listing
  <2>2. pin' = pin /\ \E m \in ToSet(members[g]) : pick' = [pick EXCEPT ![g] = m]
    BY <1>7, <2>1 DEF Traffic
  <2> QED BY <1>0, <2>2 DEF Data, Picks
<1>8. ASSUME NEW t \in Tests, NEW g \in Names, Step(t, g),
             ~SeatPin(t, g), ~SeatRead(t, g), ~SeatUnpin(t, g)
      PROVE  UNCHANGED <<pin, pick>>
  BY <1>8 DEF Step, Measure, NoGroup, MeasureNodes, NothingToSeat, LockPick, KeepPin, UnlockPick
<1>9. ASSUME NEW t \in Tests,
             \/ \E roots \in Requests : TestGroups(t, roots)
             \/ Visit(t) \/ List(t) \/ Run(t) \/ Return(t)
      PROVE  UNCHANGED <<pin, pick>>
  BY <1>9 DEF TestGroups, Visit, List, Run, Return
<1>10. UNCHANGED vars => UNCHANGED <<pin, pick>> BY DEF vars
<1> QED BY <1>2, <1>3, <1>4, <1>5, <1>6, <1>7, <1>8, <1>9, <1>10 DEF Next

\* One run goes on.
LEMMA OneMeasures ==
  ASSUME Data, members' = members, NEW t \in Tests, NEW g \in Groups, NEW label \in Labels, NEW d,
         pc' = [pc EXCEPT ![t][g] = label],
         delays' = [delays EXCEPT ![t][g] = d],
         DOMAIN d \subseteq ToSet(members[g]),
         label \in Seats => g \in UrlTests,
         label \in Seats \cup {"done"} => DOMAIN d = ToSet(members[g]),
         \A m \in DOMAIN d : d[m] \in Nat
  PROVE  Measures'
<1>1. /\ pc'[t][g] = label /\ delays'[t][g] = d
      /\ \A u \in Tests, n \in Names : <<u, n>> # <<t, g>> => pc'[u][n] = pc[u][n]
      /\ \A u \in Tests, h \in Groups : <<u, h>> # <<t, g>> => delays'[u][h] = delays[u][h]
  BY DEF Data, Inv, Shapes, Measures, Names
<1>2. delays' = [u \in Tests |-> [h \in Groups |-> delays'[u][h]]]
  BY DEF Data, Measures
<1>3. \A u \in Tests, n \in Nodes : <<u, n>> # <<t, g>> BY NamesAssumption
<1>4. \A u \in Tests, n \in Nodes : pc'[u][n] \in {"none", "start", "done"}
  BY <1>1, <1>3 DEF Data, Measures, Names
<1>5. ASSUME NEW u \in Tests, NEW h \in Groups
      PROVE  /\ pc'[u][h] \in Seats => h \in UrlTests
             /\ DOMAIN delays'[u][h] \subseteq ToSet(members[h])
             /\ pc'[u][h] \in Seats \cup {"done"} => DOMAIN delays'[u][h] = ToSet(members[h])
             /\ \A m \in DOMAIN delays'[u][h] : delays'[u][h][m] \in Nat
  <2>1. CASE <<u, h>> = <<t, g>> BY <1>1, <2>1
  <2>2. CASE <<u, h>> # <<t, g>> BY <1>1, <2>2 DEF Data, Measures, Names
  <2> QED BY <2>1, <2>2
<1> QED BY <1>2, <1>4, <1>5 DEF Measures

\* Measuring stays within the members, and is over when there is one left of each.
LEMMA MeasuresStep == ASSUME Data, [Next]_vars PROVE Measures'
<1>0. members' = members BY GraphStays
<1>a. /\ \A g \in Groups : members[g] \in Seq(Names) /\ latency \in [Nodes -> Nat]
  BY DEF Data, Inv, Listing, GraphOK
<1>b. \A u \in Tests, h \in Groups : delays = [delays EXCEPT ![u][h] = delays[u][h]]
  BY DEF Data, Measures
<1>c. ASSUME NEW u \in Tests, NEW h \in Groups
      PROVE  /\ DOMAIN delays[u][h] \subseteq ToSet(members[h])
             /\ \A m \in DOMAIN delays[u][h] : delays[u][h][m] \in Nat
             /\ pc[u][h] \in Seats \cup {"done"} => DOMAIN delays[u][h] = ToSet(members[h])
             /\ pc[u][h] \in Seats => h \in UrlTests
  BY DEF Data, Measures
<1>1. CASE UNCHANGED <<pc, delays>> BY <1>0, <1>1 DEF Data, Measures
<1>2. ASSUME NEW t \in Tests, NEW n \in Names, NoGroup(t, n) PROVE Measures'
  <2>1. n \in Nodes /\ delays' = delays /\ pc' = [pc EXCEPT ![t][n] = "done"]
    BY <1>2 DEF NoGroup, Goto
  <2>2. \A u \in Tests, h \in Groups : pc'[u][h] = pc[u][h]
    BY <2>1, NamesAssumption DEF Data, Inv, Shapes, Names
  <2>3. \A u \in Tests, m \in Nodes : pc'[u][m] \in {"none", "start", "done"}
    BY <2>1 DEF Data, Inv, Shapes, Measures, Names
  <2> QED BY <1>0, <2>1, <2>2, <2>3 DEF Data, Measures
<1>3. ASSUME NEW t \in Tests, NEW g \in Names, MeasureNodes(t, g) PROVE Measures'
  <2>1. PICK d : d = [m \in ToSet(members[g]) \cap Nodes |-> latency[m]] OBVIOUS
  <2>2. g \in Groups /\ pc' = [pc EXCEPT ![t][g] = "measure"] /\ delays' = [delays EXCEPT ![t][g] = d]
    BY <1>3, <2>1 DEF MeasureNodes, Goto
  <2>3. DOMAIN d \subseteq ToSet(members[g]) /\ \A m \in DOMAIN d : d[m] \in Nat
    <3>1. DOMAIN d = ToSet(members[g]) \cap Nodes /\ \A m \in DOMAIN d : d[m] = latency[m]
      BY <2>1
    <3>2. \A m \in Nodes : latency[m] \in Nat BY DEF Data, Inv, Listing
    <3> QED BY <3>1, <3>2
  <2> QED BY <1>0, <2>2, <2>3, OneMeasures DEF Labels, Seats
<1>4. ASSUME NEW t \in Tests, NEW g \in Names, NEW m \in Names, Measure(t, g, m) PROVE Measures'
  <2>1. PICK d : d = [x \in DOMAIN delays[t][g] \cup {m} |->
                        IF x = m THEN Delay(m) ELSE delays[t][g][x]]
    OBVIOUS
  <2>2. /\ pc[t][g] = "measure" /\ pc' = pc /\ m \in ToSet(members[g])
        /\ delays' = [delays EXCEPT ![t][g] = d]
    BY <1>4, <2>1 DEF Measure, Data, Measures
  <2>3. g \in Groups BY <2>2 DEF Data, Measures, Names
  <2>4. pc' = [pc EXCEPT ![t][g] = "measure"] BY <2>2 DEF Data, Inv, Shapes
  <2>5. Delay(m) \in Nat BY <1>a, <2>3, DelayIs, DelayIsNat
  <2>6. DOMAIN d = DOMAIN delays[t][g] \cup {m}
        /\ \A x \in DOMAIN d : d[x] = IF x = m THEN Delay(m) ELSE delays[t][g][x]
    BY <2>1
  <2>7. DOMAIN d \subseteq ToSet(members[g]) /\ \A x \in DOMAIN d : d[x] \in Nat
    BY <1>c, <2>2, <2>3, <2>5, <2>6
  <2> QED BY <1>0, <2>2, <2>3, <2>4, <2>7, OneMeasures DEF Labels, Seats
<1>5. ASSUME NEW t \in Tests, NEW g \in Names, LockPick(t, g) \/ NothingToSeat(t, g)
      PROVE  Measures'
  <2>1. PICK label \in {"seat", "done"} :
          /\ pc[t][g] = "measure" /\ DOMAIN delays[t][g] = ToSet(members[g])
          /\ pc' = [pc EXCEPT ![t][g] = label] /\ delays' = delays
          /\ label \in Seats => g \in UrlTests
    BY <1>5 DEF Seats, LockPick, NothingToSeat, Measured, Goto
  <2>2. g \in Groups BY <2>1 DEF Data, Measures, Names
  <2>3. delays' = [delays EXCEPT ![t][g] = delays[t][g]] BY <1>b, <2>1, <2>2
  <2>4. label \in Labels BY DEF Labels
  <2>5. PICK d : d = delays[t][g] OBVIOUS
  <2>6. DOMAIN d = ToSet(members[g]) /\ \A m \in DOMAIN d : d[m] \in Nat
    BY <1>c, <2>1, <2>2, <2>5
  <2> QED BY <1>0, <2>1, <2>2, <2>3, <2>4, <2>5, <2>6, OneMeasures
<1>6. ASSUME NEW t \in Tests, NEW g \in Names, NEW label \in Labels,
             pc[t][g] \in Seats, pc' = [pc EXCEPT ![t][g] = label], delays' = delays
      PROVE  Measures'
  <2>1. g \in Groups BY <1>6 DEF Data, Measures, Names, Seats
  <2>2. delays' = [delays EXCEPT ![t][g] = delays[t][g]] BY <1>b, <1>6, <2>1
  <2>3. PICK d : d = delays[t][g] OBVIOUS
  <2>4. DOMAIN d = ToSet(members[g]) /\ \A m \in DOMAIN d : d[m] \in Nat
    BY <1>6, <1>c, <2>1, <2>3
  <2>5. g \in UrlTests BY <1>6, <1>c, <2>1
  <2> QED BY <1>0, <1>6, <2>1, <2>2, <2>3, <2>4, <2>5, OneMeasures
<1>7. ASSUME NEW t \in Tests, NEW g \in Names,
             \/ KeepPin(t, g) \/ SeatPin(t, g) \/ SeatRead(t, g) \/ SeatUnpin(t, g) \/ UnlockPick(t, g)
      PROVE  Measures'
  <2>1. /\ pc[t][g] \in Seats /\ delays' = delays
        /\ \E label \in {"read", "unpin", "unlock", "done"} : pc' = [pc EXCEPT ![t][g] = label]
    BY <1>7 DEF KeepPin, SeatPin, SeatRead, SeatUnpin, UnlockPick, Goto, Seats
  <2> QED BY <1>6, <2>1 DEF Labels
<1>8. ASSUME NEW t \in Tests, Run(t) PROVE Measures'
  <2>1. /\ pc' = [pc EXCEPT ![t] = [n \in Names |-> IF n \in ToSet(order[t]) THEN "start" ELSE "none"]]
        /\ delays' = delays
    BY <1>8 DEF Run
  <2>2. \A n \in Names : pc'[t][n] \in {"none", "start"} BY <2>1 DEF Data, Inv, Shapes
  <2>3. \A u \in Tests \ {t}, n \in Names : pc'[u][n] = pc[u][n] BY <2>1 DEF Data, Inv, Shapes
  <2> QED BY <1>0, <2>1, <2>2, <2>3 DEF Data, Measures, Seats, Names
<1>9. ASSUME NEW t \in Tests, Return(t) PROVE Measures'
  <2>1. /\ pc' = [pc EXCEPT ![t] = [n \in Names |-> "none"]]
        /\ delays' = [delays EXCEPT ![t] = [g \in Groups |-> <<>>]]
    BY <1>9 DEF Return
  <2>2. \A n \in Names : pc'[t][n] = "none" BY <2>1 DEF Data, Inv, Shapes
  <2>3. \A u \in Tests \ {t}, n \in Names : pc'[u][n] = pc[u][n] BY <2>1 DEF Data, Inv, Shapes
  <2>4. \A g \in Groups : delays'[t][g] = <<>> BY <2>1 DEF Data, Measures
  <2>5. \A u \in Tests \ {t} : delays'[u] = delays[u] BY <2>1 DEF Data, Measures
  <2>6. delays' = [u \in Tests |-> [g \in Groups |-> delays'[u][g]]] BY <2>1 DEF Data, Measures
  <2>7. DOMAIN <<>> = {} OBVIOUS
  <2>8. ASSUME NEW u \in Tests, NEW g \in Groups
        PROVE  /\ pc'[u][g] \in Seats => g \in UrlTests
               /\ DOMAIN delays'[u][g] \subseteq ToSet(members[g])
               /\ pc'[u][g] \in Seats \cup {"done"} => DOMAIN delays'[u][g] = ToSet(members[g])
               /\ \A m \in DOMAIN delays'[u][g] : delays'[u][g][m] \in Nat
    <3>1. CASE u = t BY <2>2, <2>4, <2>7, <3>1 DEF Seats, Names
    <3>2. CASE u # t BY <1>c, <2>3, <2>5, <3>2 DEF Names
    <3> QED BY <3>1, <3>2
  <2>9. \A u \in Tests, n \in Nodes : pc'[u][n] \in {"none", "start", "done"}
    BY <2>2, <2>3 DEF Data, Measures, Names
  <2> QED BY <1>0, <2>6, <2>8, <2>9 DEF Measures
<1>10. ASSUME NEW t \in Tests,
              (\E roots \in Requests : TestGroups(t, roots)) \/ Visit(t) \/ List(t)
       PROVE  UNCHANGED <<pc, delays>>
  BY <1>10 DEF TestGroups, Visit, List
<1>11. ASSUME NEW g \in Groups, Traffic(g) \/ \E m \in Names \cup {None} : ChangeProxy(g, m)
       PROVE  UNCHANGED <<pc, delays>>
  BY <1>11 DEF Traffic, ChangeProxy, testVars
<1>12. UNCHANGED vars => UNCHANGED <<pc, delays>> BY DEF vars, testVars
<1>13. ASSUME NEW t \in Tests, NEW n \in Names, Step(t, n) PROVE Measures'
  BY <1>2, <1>3, <1>4, <1>5, <1>7, <1>13 DEF Step
<1> QED BY <1>1, <1>8, <1>9, <1>10, <1>11, <1>12, <1>13 DEF Next

\* Only the run that holds pickMu is at the pin.
LEMMA OneHolds ==
  ASSUME Inv, NEW t \in Tests, NEW g \in Names, pc[t][g] \in Seats,
         NEW u \in Tests, NEW h \in Names, pc[u][h] \in Seats
  PROVE  u = t /\ h = g
<1>1. pickMu = <<t, g>> /\ pickMu = <<u, h>> BY DEF Inv, Seating, Seats
<1> QED BY <1>1

\* Where nobody comes to the pin, and who is there keeps what is his, nothing is lost.
LEMMA HoldingKept ==
  ASSUME Data, members' = members,
         \A u \in Tests, h \in Groups : pc'[u][h] \in {"read", "unpin"} =>
           /\ pc[u][h] = pc'[u][h] /\ delays'[u][h] = delays[u][h] /\ pin'[h] = pin[h]
           /\ pick'[h] = pick[h] \/ pick'[h] = pin[h]
  PROVE  Holding'
<1> SUFFICES ASSUME NEW u \in Tests, NEW h \in Groups, pc'[u][h] \in {"read", "unpin"}
             PROVE  /\ pin'[h] # None /\ pin'[h] = Fastest(members'[h], delays'[u][h])
                    /\ pc'[u][h] = "unpin" => pick'[h] = pin'[h]
  BY DEF Holding
<1> QED BY DEF Data, Holding

\* The run at the pin seats the group alone.
LEMMA HoldingStep == ASSUME Data, [Next]_vars PROVE Holding'
<1>0. members' = members BY GraphStays
<1>1. ASSUME NEW t \in Tests, NEW g \in Names, SeatPin(t, g) PROVE Holding'
  <2>1. pc[t][g] = "seat" /\ g \in Groups BY <1>1 DEF SeatPin, Data, Measures, Names
  <2>2. PICK best : best = Fastest(members[g], delays[t][g]) OBVIOUS
  <2>3. /\ best # None /\ pin' = [pin EXCEPT ![g] = best] /\ delays' = delays
        /\ pc' = [pc EXCEPT ![t][g] = "read"]
    BY <1>1, <2>2 DEF SeatPin, Goto
  <2>4. pin'[g] = best BY <2>1, <2>3 DEF Data, Picks
  <2>5. ASSUME NEW u \in Tests, NEW h \in Groups, pc'[u][h] \in {"read", "unpin"}
        PROVE  u = t /\ h = g /\ pc'[u][h] = "read"
    <3>1. pc'[t][g] = "read" BY <2>1, <2>3 DEF Data, Inv, Shapes
    <3>2. CASE <<u, h>> = <<t, g>> BY <3>1, <3>2
    <3>3. CASE <<u, h>> # <<t, g>>
      <4>1. pc[u][h] \in {"read", "unpin"} BY <2>3, <2>5, <3>3 DEF Data, Inv, Shapes, Names
      <4> QED BY <2>1, <3>3, <4>1, OneHolds DEF Data, Seats, Names
    <3> QED BY <3>2, <3>3
  <2> SUFFICES ASSUME NEW u \in Tests, NEW h \in Groups, pc'[u][h] \in {"read", "unpin"}
               PROVE  /\ pin'[h] # None /\ pin'[h] = Fastest(members'[h], delays'[u][h])
                      /\ pc'[u][h] = "unpin" => pick'[h] = pin'[h]
    BY DEF Holding, Fastest
  <2> QED BY <1>0, <2>2, <2>3, <2>4, <2>5
<1>2. ASSUME NEW t \in Tests, NEW g \in Names, SeatRead(t, g) PROVE Holding'
  <2>1. pc[t][g] = "read" /\ g \in Groups BY <1>2 DEF SeatRead, Data, Measures, Names
  <2>2. pin[g] # None /\ pin[g] = Fastest(members[g], delays[t][g]) BY <2>1 DEF Data, Holding
  <2>3. /\ pick' = [pick EXCEPT ![g] = pin[g]] /\ pin' = pin /\ delays' = delays
        /\ pc' = [pc EXCEPT ![t][g] = "unpin"]
    BY <1>2, <2>2 DEF SeatRead, Goto, Now
  <2>4. pick'[g] = pin[g] BY <2>1, <2>3 DEF Data, Picks
  <2>5. ASSUME NEW u \in Tests, NEW h \in Groups, pc'[u][h] \in {"read", "unpin"}
        PROVE  u = t /\ h = g
    <3>1. CASE <<u, h>> = <<t, g>> BY <3>1
    <3>2. CASE <<u, h>> # <<t, g>>
      <4>1. pc[u][h] \in {"read", "unpin"} BY <2>3, <2>5, <3>2 DEF Data, Inv, Shapes, Names
      <4> QED BY <2>1, <3>2, <4>1, OneHolds DEF Data, Seats, Names
    <3> QED BY <3>1, <3>2
  <2> SUFFICES ASSUME NEW u \in Tests, NEW h \in Groups, pc'[u][h] \in {"read", "unpin"}
               PROVE  /\ pin'[h] # None /\ pin'[h] = Fastest(members'[h], delays'[u][h])
                      /\ pc'[u][h] = "unpin" => pick'[h] = pin'[h]
    BY DEF Holding, Fastest
  <2> QED BY <1>0, <2>2, <2>3, <2>4, <2>5
<1>3. ASSUME NEW t \in Tests, NEW g \in Names, SeatUnpin(t, g) PROVE Holding'
  <2>1. pc[t][g] = "unpin" BY <1>3 DEF SeatUnpin
  <2>2. pc' = [pc EXCEPT ![t][g] = "unlock"] BY <1>3 DEF SeatUnpin, Goto
  <2>3. ASSUME NEW u \in Tests, NEW h \in Groups, pc'[u][h] \in {"read", "unpin"} PROVE FALSE
    <3>1. pc'[t][g] = "unlock" BY <2>2 DEF Data, Inv, Shapes
    <3>2. <<u, h>> # <<t, g>> BY <2>3, <3>1
    <3>3. pc[u][h] \in {"read", "unpin"} BY <2>2, <2>3, <3>2 DEF Data, Inv, Shapes, Names
    <3> QED BY <2>1, <3>2, <3>3, OneHolds DEF Data, Seats, Names
  <2> QED BY <1>0, <2>3, HoldingKept
<1>4. ASSUME NEW t \in Tests, NEW g \in Names,
             NothingToSeat(t, g) \/ LockPick(t, g) \/ KeepPin(t, g) \/ UnlockPick(t, g) \/ NoGroup(t, g)
      PROVE  Holding'
  <2>1. /\ UNCHANGED <<pin, pick, delays>>
        /\ \E label \in {"seat", "unlock", "done"} : pc' = [pc EXCEPT ![t][g] = label]
    BY <1>4 DEF NothingToSeat, LockPick, KeepPin, UnlockPick, NoGroup, Goto
  <2>2. \A u \in Tests, h \in Groups : pc'[u][h] \in {"read", "unpin"} => pc[u][h] = pc'[u][h]
    BY <2>1 DEF Data, Inv, Shapes, Names
  <2> QED BY <1>0, <2>1, <2>2, HoldingKept
<1>5. ASSUME NEW t \in Tests, NEW g \in Names, MeasureNodes(t, g) \/ \E m \in Names : Measure(t, g, m)
      PROVE  Holding'
  <2>1. /\ UNCHANGED <<pin, pick>> /\ pc[t][g] \in {"start", "measure"}
        /\ pc' = [pc EXCEPT ![t][g] = "measure"]
        /\ \E d : delays' = [delays EXCEPT ![t][g] = d]
    <3>1. CASE MeasureNodes(t, g) BY <3>1 DEF MeasureNodes, Goto
    <3>2. ASSUME NEW m \in Names, Measure(t, g, m)
          PROVE  /\ UNCHANGED <<pin, pick, pc>> /\ pc[t][g] = "measure"
                 /\ \E d : delays' = [delays EXCEPT ![t][g] = d]
      BY <3>2 DEF Measure
    <3>3. pc[t][g] = "measure" => pc = [pc EXCEPT ![t][g] = "measure"] BY DEF Data, Inv, Shapes
    <3> QED BY <1>5, <3>1, <3>2, <3>3
  <2>2. ASSUME NEW u \in Tests, NEW h \in Groups, pc'[u][h] \in {"read", "unpin"}
        PROVE  pc[u][h] = pc'[u][h] /\ delays'[u][h] = delays[u][h]
    <3>1. pc'[t][g] = "measure" BY <2>1 DEF Data, Inv, Shapes
    <3>2. <<u, h>> # <<t, g>> BY <2>2, <3>1
    <3>3. pc[u][h] = pc'[u][h] BY <2>1, <3>2 DEF Data, Inv, Shapes, Names
    <3>4. delays'[u][h] = delays[u][h] BY <2>1, <3>2 DEF Data, Measures
    <3> QED BY <3>3, <3>4
  <2> QED BY <1>0, <2>1, <2>2, HoldingKept
<1>6. ASSUME NEW g \in Groups, NEW m \in Names \cup {None}, ChangeProxy(g, m) PROVE Holding'
  <2>1. pickMu = None /\ UNCHANGED <<pc, delays>> BY <1>6 DEF ChangeProxy, testVars
  <2>2. \A u \in Tests, h \in Groups : pc[u][h] \notin {"read", "unpin"}
    <3>1. \A u \in Tests, h \in Groups : <<u, h>> # None BY NamesAssumption
    <3> QED BY <2>1, <3>1 DEF Data, Inv, Seating, Names
  <2> QED BY <1>0, <2>1, <2>2, HoldingKept
<1>7. ASSUME NEW g \in Groups, Traffic(g) PROVE Holding'
  <2>1. UNCHANGED <<pc, delays, pin>> BY <1>7 DEF Traffic, testVars
  <2>2. ASSUME NEW u \in Tests, NEW h \in Groups, pc[u][h] \in {"read", "unpin"}
        PROVE  pick'[h] = pick[h] \/ pick'[h] = pin[h]
    <3>1. pin[h] # None BY <2>2 DEF Data, Holding
    <3>2. CASE h = g
      <4>1. pick' = [pick EXCEPT ![h] = pin[h]] BY <1>7, <3>1, <3>2 DEF Traffic, Now
      <4> QED BY <4>1 DEF Data, Picks
    <3>3. CASE h # g BY <1>7, <3>3 DEF Traffic, Data, Picks
    <3> QED BY <3>2, <3>3
  <2> QED BY <1>0, <2>1, <2>2, HoldingKept
<1>8. ASSUME NEW t \in Tests, Run(t) PROVE Holding'
  <2>1. UNCHANGED <<pin, pick, delays>> BY <1>8 DEF Run
  <2>2. \A u \in Tests, h \in Groups : pc'[u][h] \in {"read", "unpin"} => pc[u][h] = pc'[u][h]
    BY <1>8 DEF Run, Data, Inv, Shapes, Names
  <2> QED BY <1>0, <2>1, <2>2, HoldingKept
<1>9. ASSUME NEW t \in Tests, Return(t) PROVE Holding'
  <2>1. UNCHANGED <<pin, pick>> BY <1>9 DEF Return
  <2>2. \A h \in Groups : pc'[t][h] = "none" BY <1>9 DEF Return, Data, Inv, Shapes, Names
  <2>3. \A u \in Tests \ {t} : pc'[u] = pc[u] /\ delays'[u] = delays[u]
    BY <1>9 DEF Return, Data, Inv, Shapes, Measures
  <2> QED BY <1>0, <2>1, <2>2, <2>3, HoldingKept
<1>10. ASSUME NEW t \in Tests,
              (\E roots \in Requests : TestGroups(t, roots)) \/ Visit(t) \/ List(t)
       PROVE  UNCHANGED <<pc, delays, pin, pick>>
  BY <1>10 DEF TestGroups, Visit, List
<1>11. CASE UNCHANGED <<pc, delays, pin, pick>> BY <1>0, <1>11, HoldingKept
<1>12. UNCHANGED vars => UNCHANGED <<pc, delays, pin, pick>> BY DEF vars, testVars
<1>13. ASSUME NEW t \in Tests, NEW n \in Names, Step(t, n) PROVE Holding'
  BY <1>1, <1>2, <1>3, <1>4, <1>5, <1>13 DEF Step
<1> QED BY <1>6, <1>7, <1>8, <1>9, <1>10, <1>11, <1>12, <1>13 DEF Next

\* Every step keeps Data.
LEMMA DataStep == ASSUME Data, [Next]_vars PROVE Data'
<1>1. Inv' BY ListingStep, ShapesStep, PlannedStep, SeatingStep, PinsStep DEF Data, Inv
<1> QED BY <1>1, PicksStep, MeasuresStep, HoldingStep DEF Data

-----------------------------------------------------------------------------
(* The seats.                                                              *)

\* The run of a group has begun.
Going(t, g) == pc[t][g] \notin {"none", "start"}

\* What a group in no cycle has measured of its nested groups was measured after
\* those were done.
Awaited ==
  \A t \in Tests, g \in Groups : Tame(g) /\ Going(t, g) =>
    \A m \in DOMAIN delays[t][g] \cap Groups : pc[t][m] = "done"

\* What it measured is so still, unless the user selected meanwhile.
Current ==
  ~disturbed => \A t \in Tests, g \in Groups : Tame(g) /\ Going(t, g) =>
    \A m \in DOMAIN delays[t][g] : delays[t][g][m] = Delay(m)

\* A group is on a member no other beats.
Optimal(g) == \A m \in ToSet(members[g]) : Delay(m) > 0 => Delay(pick[g]) \in 1 .. Delay(m)

\* A group that is seated, and that the user has not pinned, is on its fastest.
Settled ==
  ~disturbed => \A t \in Tests, g \in UrlTests :
    Tame(g) /\ wanted[g] = None /\ pc[t][g] \in {"unlock", "done"} => Optimal(g)

\* The inductive invariant that the seats rest on.
SeatInv == Data /\ Awaited /\ Current /\ Settled

\* Nothing goes on at first.
LEMMA InitSeatInv == Init => SeatInv
<1> SUFFICES ASSUME Init PROVE SeatInv OBVIOUS
<1>1. \A t \in Tests, n \in Names : pc[t][n] = "none" BY DEF Init
<1>2. \A t \in Tests, g \in Groups : ~Going(t, g) /\ pc[t][g] \notin {"unlock", "done"}
  BY <1>1 DEF Going, Names
<1> QED BY <1>2, InitData, NamesAssumption DEF SeatInv, Awaited, Current, Settled

\* The graph stays, and what is nested where with it.
LEMMA TameStays ==
  ASSUME members' = members
  PROVE  \A g : /\ Children(g)' = Children(g) /\ Nested(g)' = Nested(g)
                /\ Tame(g)' <=> Tame(g)
<1>1. \A g : Children(g)' = Children(g) BY DEF Children
<1>2. \A g : Nested(g)' = Nested(g) BY <1>1 DEF Nested
<1> QED BY <1>1, <1>2 DEF Tame

\* Before a group in no cycle looks at a nested one, that is done.
LEMMA AwaitedFirst ==
  ASSUME Inv, NEW t \in Tests, NEW g \in Groups, Tame(g), pc[t][g] # "none",
         NEW m \in Children(g), Await(t, g, m)
  PROVE  pc[t][m] = "done"
<1>1. t \in running /\ ~Visiting(t) /\ g \in ToSet(order[t])
  BY DEF Inv, Planned, Names, Visiting
<1>2. ChildrenFirst BY ListingGives DEF Inv
<1>3. PICK j \in DOMAIN order[t] : order[t][j] = g BY <1>1 DEF ToSet
<1>4. PICK i \in DOMAIN order[t] : order[t][i] = m /\ (i < j \/ g \in Nested(m))
  BY <1>1, <1>2, <1>3 DEF ChildrenFirst
<1>5. m \in Nested(g) BY NestedIsClosed
<1>6. g \notin Nested(m)
  <2> SUFFICES ASSUME g \in Nested(m) PROVE FALSE OBVIOUS
  <2>1. g \in Nested(g) BY <1>5, NestedNests
  <2> QED BY <2>1 DEF Tame
<1>7. Before(t, m, g) BY <1>3, <1>4, <1>6 DEF Before
<1> QED BY <1>7 DEF Await

\* Who went on keeps what he has, and what he waited for stays done.
LEMMA AwaitedKept ==
  ASSUME Data, Awaited, members' = members,
         \A u \in Tests, h \in Groups : Going(u, h)' =>
           /\ Going(u, h) /\ delays'[u][h] = delays[u][h]
           /\ \A m \in Groups : pc[u][m] = "done" => pc'[u][m] = "done"
  PROVE  Awaited'
<1>1. \A g : Tame(g)' <=> Tame(g) BY TameStays
<1> SUFFICES ASSUME NEW u \in Tests, NEW h \in Groups, Tame(h), Going(u, h)',
                    NEW m \in DOMAIN delays'[u][h] \cap Groups
             PROVE  pc'[u][m] = "done"
  BY <1>1 DEF Awaited
<1> QED BY DEF Awaited

\* No step of a run overtakes what it waits for.
LEMMA AwaitedStep == ASSUME Data, Awaited, [Next]_vars PROVE Awaited'
<1>0. members' = members BY GraphStays
<1>a. \A g : Tame(g)' <=> Tame(g) BY <1>0, TameStays
<1>1. ASSUME NEW t \in Tests, NEW g \in Groups, MeasureNodes(t, g) PROVE Awaited'
  <2>1. /\ pc[t][g] = "start" /\ pc' = [pc EXCEPT ![t][g] = "measure"]
        /\ delays' = [delays EXCEPT ![t][g] = [m \in ToSet(members[g]) \cap Nodes |-> latency[m]]]
    BY <1>1 DEF MeasureNodes, Goto
  <2> SUFFICES ASSUME NEW u \in Tests, NEW h \in Groups, Tame(h), Going(u, h)',
                      NEW m \in DOMAIN delays'[u][h] \cap Groups
               PROVE  pc'[u][m] = "done"
    BY <1>a DEF Awaited
  <2>2. CASE <<u, h>> = <<t, g>>
    <3>1. DOMAIN delays'[t][g] = ToSet(members[g]) \cap Nodes BY <2>1 DEF Data, Measures
    <3> QED BY <2>2, <3>1, NamesAssumption
  <2>3. CASE <<u, h>> # <<t, g>>
    <3>1. Going(u, h) /\ delays'[u][h] = delays[u][h]
      BY <2>1, <2>3 DEF Data, Measures, Inv, Shapes, Going, Names
    <3>2. pc[u][m] = "done" BY <3>1 DEF Awaited
    <3> QED BY <2>1, <3>2 DEF Data, Inv, Shapes, Names
  <2> QED BY <2>2, <2>3
<1>2. ASSUME NEW t \in Tests, NEW g \in Groups, NEW x \in Names, Measure(t, g, x) PROVE Awaited'
  <2>1. /\ pc[t][g] = "measure" /\ pc' = pc /\ x \in ToSet(members[g]) /\ Await(t, g, x)
        /\ delays' = [delays EXCEPT ![t][g] =
                        [y \in DOMAIN delays[t][g] \cup {x} |->
                           IF y = x THEN Delay(x) ELSE delays[t][g][y]]]
    BY <1>2 DEF Measure, Data, Measures
  <2> SUFFICES ASSUME NEW u \in Tests, NEW h \in Groups, Tame(h), Going(u, h)',
                      NEW m \in DOMAIN delays'[u][h] \cap Groups
               PROVE  pc[u][m] = "done"
    BY <1>a, <2>1 DEF Awaited
  <2>2. Going(u, h) BY <2>1 DEF Going
  <2>3. CASE <<u, h>> = <<t, g>> /\ m = x
    <3>1. x \in Children(g) BY <2>1, <2>3 DEF Children
    <3> QED BY <2>1, <2>3, <3>1, AwaitedFirst DEF Data
  <2>4. CASE <<u, h>> # <<t, g>> \/ m # x
    <3>1. m \in DOMAIN delays[u][h]
      <4>1. CASE <<u, h>> = <<t, g>>
        <5>1. DOMAIN delays'[t][g] = DOMAIN delays[t][g] \cup {x} BY <2>1 DEF Data, Measures
        <5> QED BY <2>4, <4>1, <5>1
      <4>2. CASE <<u, h>> # <<t, g>> BY <2>1, <4>2 DEF Data, Measures
      <4> QED BY <4>1, <4>2
    <3> QED BY <2>2, <3>1 DEF Awaited
  <2> QED BY <2>3, <2>4
<1>3. ASSUME NEW t \in Tests, NEW g \in Names,
             pc[t][g] # "done", Going(t, g) \/ g \in Nodes, delays' = delays,
             NEW label \in {"seat", "read", "unpin", "unlock", "done"},
             pc' = [pc EXCEPT ![t][g] = label]
      PROVE  Awaited'
  <2>1. \A u \in Tests, h \in Groups : Going(u, h)' => Going(u, h)
    BY <1>3, NamesAssumption DEF Going, Data, Inv, Shapes, Names
  <2>2. \A u \in Tests, m \in Groups : pc[u][m] = "done" => pc'[u][m] = "done"
    BY <1>3 DEF Data, Inv, Shapes, Names
  <2> QED BY <1>0, <1>3, <2>1, <2>2, AwaitedKept
<1>4. ASSUME NEW t \in Tests, NEW g \in Names,
             \/ NothingToSeat(t, g) \/ LockPick(t, g) \/ KeepPin(t, g) \/ SeatPin(t, g)
             \/ SeatRead(t, g) \/ SeatUnpin(t, g) \/ UnlockPick(t, g) \/ NoGroup(t, g)
      PROVE  Awaited'
  <2>1. /\ pc[t][g] # "done" /\ (Going(t, g) \/ g \in Nodes) /\ delays' = delays
        /\ \E label \in {"seat", "read", "unpin", "unlock", "done"} :
             pc' = [pc EXCEPT ![t][g] = label]
    BY <1>4 DEF NothingToSeat, LockPick, KeepPin, SeatPin, SeatRead, SeatUnpin, UnlockPick,
                NoGroup, Goto, Measured, Going
  <2> QED BY <1>3, <2>1
<1>5. ASSUME NEW t \in Tests, NEW g \in Names, MeasureNodes(t, g) \/ \E m \in Names : Measure(t, g, m)
      PROVE  g \in Groups
  BY <1>5 DEF MeasureNodes, Measure, Data, Measures, Names
<1>6. ASSUME NEW t \in Tests, NEW g \in Names, Step(t, g) PROVE Awaited'
  BY <1>1, <1>2, <1>4, <1>5, <1>6 DEF Step
<1>7. CASE UNCHANGED <<pc, delays>>
  <2>1. \A u \in Tests, h \in Groups : Going(u, h)' => Going(u, h) BY <1>7 DEF Going
  <2> QED BY <1>0, <1>7, <2>1, AwaitedKept
<1>8. ASSUME NEW t \in Tests, Run(t) \/ Return(t) PROVE Awaited'
  <2>1. \A h \in Groups : ~Going(t, h)'
    <3>1. CASE Run(t) BY <3>1 DEF Run, Going, Data, Inv, Shapes, Names
    <3>2. CASE Return(t) BY <3>2 DEF Return, Going, Data, Inv, Shapes, Names
    <3> QED BY <1>8, <3>1, <3>2
  <2>2. \A u \in Tests \ {t} : pc'[u] = pc[u] /\ delays'[u] = delays[u]
    BY <1>8 DEF Run, Return, Data, Inv, Shapes, Measures
  <2>3. \A u \in Tests \ {t}, h \in Groups : Going(u, h)' => Going(u, h) BY <2>2 DEF Going
  <2> QED BY <1>0, <2>1, <2>2, <2>3, AwaitedKept
<1>9. ASSUME NEW t \in Tests,
              (\E roots \in Requests : TestGroups(t, roots)) \/ Visit(t) \/ List(t)
       PROVE  UNCHANGED <<pc, delays>>
  BY <1>9 DEF TestGroups, Visit, List
<1>10. ASSUME NEW g \in Groups, Traffic(g) \/ \E m \in Names \cup {None} : ChangeProxy(g, m)
       PROVE  UNCHANGED <<pc, delays>>
  BY <1>10 DEF Traffic, ChangeProxy, testVars
<1>11. UNCHANGED vars => UNCHANGED <<pc, delays>> BY DEF vars, testVars
<1> QED BY <1>6, <1>7, <1>8, <1>9, <1>10, <1>11 DEF Next

\* Where a group in no cycle is done, so is all that is nested in it.
LEMMA DoneBelow ==
  ASSUME Data, Awaited, NEW t \in Tests, NEW g \in Groups, Tame(g), pc[t][g] = "done"
  PROVE  \A h \in Nested(g) : pc[t][h] = "done"
<1> DEFINE S == {h \in Nested(g) : pc[t][h] = "done"}
<1>1. ASSUME NEW h \in Groups, Tame(h), pc[t][h] = "done", NEW m \in Children(h)
      PROVE  pc[t][m] = "done"
  <2>1. m \in DOMAIN delays[t][h] \cap Groups BY <1>1 DEF Data, Measures, Children
  <2> QED BY <1>1, <2>1 DEF Awaited, Going
<1>2. Children(g) \subseteq S BY <1>1, NestedIsClosed
<1>3. ASSUME NEW h \in S PROVE Children(h) \subseteq S
  <2>1. Tame(h) /\ h \in Groups BY TameBelow, NestedIsClosed
  <2> QED BY <1>1, <2>1, NestedIsClosed
<1>4. S \in SUBSET Groups BY NestedIsClosed
<1>5. Nested(g) \subseteq S BY <1>2, <1>3, <1>4, NestedIsLeast
<1> QED BY <1>5

\* What is measured of a group in no cycle is not read through a group that is in
\* one, nor through one that is done nowhere.
LEMMA Unread ==
  ASSUME Data, Awaited, NEW h \in Groups, ~(Tame(h) /\ \E u \in Tests : pc[u][h] = "done"),
         NEW t \in Tests, NEW g \in Groups, Tame(g), Going(t, g), NEW m \in DOMAIN delays[t][g]
  PROVE  h \notin ThroughOf(Nows, m) /\ m \in Names
<1>1. GraphOK /\ Picks BY DEF Data, Inv, Listing
<1>2. m \in ToSet(members[g]) BY DEF Data, Measures
<1>3. m \in Names BY <1>1, <1>2, TameMembers
<1>4. CASE m \in Nodes
  <2>1. Closed(Nows, m, {}) BY <1>4, NamesAssumption DEF Closed
  <2>2. ThroughOf(Nows, m) \subseteq {} BY <2>1, ThroughIsLeast
  <2> QED BY <1>3, <2>2
<1>5. CASE m \in Groups
  <2>1. m \in Children(g) /\ m \in Nested(g) BY <1>2, <1>5, NestedIsClosed DEF Children
  <2>2. Tame(m) /\ pc[t][m] = "done" BY <1>5, <2>1, TameBelow DEF Awaited
  <2>3. \A x \in {m} \cup Nested(m) : Tame(x) /\ pc[t][x] = "done"
    BY <1>5, <2>2, TameBelow, DoneBelow
  <2>4. h \notin {m} \cup Nested(m) BY <2>3
  <2> QED BY <1>1, <1>3, <2>4, ThroughNested
<1> QED BY <1>3, <1>4, <1>5 DEF Names

\* What is measured of groups in no cycle stays what it is.
Steady ==
  \A t \in Tests, g \in Groups : Tame(g) /\ Going(t, g) =>
    \A m \in DOMAIN delays[t][g] : Delay(m)' = Delay(m)

\* One group comes to read as another member.
LEMMA OneReseated ==
  ASSUME Data, Awaited, UNCHANGED <<members, latency>>, NEW h \in Groups,
         \A g \in Groups \ {h} : Now(g)' = Now(g), Now(h)' \in ToSet(members[h]),
         Tame(h) /\ (\E u \in Tests : pc[u][h] = "done") => Delay(Now(h)') = Delay(Now(h))
  PROVE  Steady
<1>1. PICK now, new, lat : now = Nows /\ new = Nows' /\ lat = latency OBVIOUS
<1>2. \A g \in Groups : now[g] = Now(g) /\ new[g] = Now(g)' BY <1>1 DEF Nows
<1>3. \A n : Delay(n) = DelayOf(now, lat, n) BY <1>1, DelayIs
<1>4. \A n : Delay(n)' = DelayOf(new, lat, n) BY <1>1, DelayIs
<1>5. GraphOK /\ Picks BY DEF Data, Inv, Listing
<1>6. \A g \in Groups : Now(g) \in ToSet(members[g]) /\ ToSet(members[g]) \subseteq Names
  <2>1. \A g \in Groups : members[g] \in Seq(Names) BY <1>5 DEF GraphOK
  <2>2. \A g \in Groups : ToSet(members[g]) \subseteq Names BY <2>1 DEF ToSet
  <2> QED BY <1>5, <2>2, NowIsMember
<1>7. \A g \in Groups : now[g] \in Names /\ new[g] \in Names BY <1>2, <1>6
<1>8. \A g \in Groups \ {h} : new[g] = now[g] BY <1>2
<1>9. CASE Tame(h) /\ \E u \in Tests : pc[u][h] = "done"
  <2>1. DelayOf(now, lat, now[h]) = DelayOf(now, lat, new[h]) BY <1>2, <1>3, <1>9
  <2>2. h \notin ThroughOf(now, now[h]) /\ h \notin ThroughOf(now, new[h])
    BY <1>1, <1>2, <1>5, <1>6, <1>9, TameMembers
  <2>3. \A n \in Names : DelayOf(new, lat, n) = DelayOf(now, lat, n)
    BY <1>7, <1>8, <2>1, <2>2, DelayKept
  <2>4. \A t \in Tests, g \in Groups : DOMAIN delays[t][g] \subseteq Names
    BY <1>6 DEF Data, Measures
  <2> QED BY <1>3, <1>4, <2>3, <2>4 DEF Steady
<1>10. CASE ~(Tame(h) /\ \E u \in Tests : pc[u][h] = "done")
  <2> SUFFICES ASSUME NEW t \in Tests, NEW g \in Groups, Tame(g), Going(t, g),
                      NEW m \in DOMAIN delays[t][g]
               PROVE  Delay(m)' = Delay(m)
    BY DEF Steady
  <2>1. h \notin ThroughOf(now, m) /\ m \in Names BY <1>1, <1>10, Unread
  <2>2. DelayOf(new, lat, m) = DelayOf(now, lat, m) BY <1>8, <2>1, DelayElsewhere
  <2> QED BY <1>3, <1>4, <2>2
<1> QED BY <1>9, <1>10

\* Nothing read changes.
LEMMA NoneReseated ==
  ASSUME UNCHANGED <<members, latency>>, \A g \in Groups : Now(g)' = Now(g)
  PROVE  \A n : Delay(n)' = Delay(n)
<1>1. Nows' = Nows BY DEF Nows
<1> QED BY <1>1, DelayIs

\* The fastest is one no other beats, as long as what was measured is so.
LEMMA FastestOptimal ==
  ASSUME Data, Current, ~disturbed, NEW t \in Tests, NEW g \in Groups, Tame(g),
         pc[t][g] \in Seats, NEW F, F = Fastest(members[g], delays[t][g])
  PROVE  /\ F = None => \A m \in ToSet(members[g]) : Delay(m) = 0
         /\ F # None => /\ F \in ToSet(members[g]) /\ Delay(F) > 0
                        /\ \A m \in ToSet(members[g]) : Delay(m) > 0 => Delay(F) \in 1 .. Delay(m)
         /\ \A m : Delay(m) \in Nat
<1>1. PICK seq, d : seq = members[g] /\ d = delays[t][g] OBVIOUS
<1>2. seq \in Seq(Names) BY <1>1 DEF Data, Inv, Listing, GraphOK
<1>3. DOMAIN d = ToSet(seq) /\ \A m \in DOMAIN d : d[m] \in Nat BY <1>1 DEF Data, Measures
<1>4. \A m \in ToSet(seq) : d[m] = Delay(m) BY <1>1, <1>3 DEF Current, Going, Seats
<1>5. \A m : Delay(m) \in Nat
  <2>1. latency \in [Nodes -> Nat] BY DEF Data, Inv, Listing
  <2> QED BY <2>1, DelayIs, DelayIsNat
<1>6. /\ F = None => \A m \in ToSet(seq) : d[m] = 0
      /\ F # None => /\ F \in ToSet(seq) /\ d[F] > 0
                     /\ \A m \in ToSet(seq) : d[m] > 0 => d[F] <= d[m]
  BY <1>1, <1>2, <1>3, FastestIs
<1>7. F = None => \A m \in ToSet(seq) : Delay(m) = 0 BY <1>4, <1>6
<1>8. F # None => /\ F \in ToSet(seq) /\ Delay(F) > 0
                  /\ \A m \in ToSet(seq) : Delay(m) > 0 => Delay(F) \in 1 .. Delay(m)
  BY <1>4, <1>5, <1>6
<1> QED BY <1>1, <1>5, <1>7, <1>8

\* A pin that is nobody's is what the user wants, unless the run at the seat has it.
LEMMA NoPin ==
  ASSUME Inv, NEW g \in Groups
  PROVE  /\ pin[g] = None => wanted[g] = None
         /\ wanted[g] = None /\ pin[g] # None => \E t \in Tests : pc[t][g] \in {"read", "unpin"}
         /\ \A t \in Tests : pc[t][g] \in {"seat", "unlock"} => pin[g] = wanted[g]
<1>1. pin[g] = None => wanted[g] = None BY DEF Inv, Pins
<1>2. wanted[g] = None /\ pin[g] # None => \E t \in Tests : pc[t][g] \in {"read", "unpin"}
  BY DEF Inv, Pins
<1>3. ASSUME NEW t \in Tests, pc[t][g] \in {"seat", "unlock"} PROVE pin[g] = wanted[g]
  <2> SUFFICES ASSUME pin[g] # wanted[g] PROVE FALSE OBVIOUS
  <2>1. PICK u \in Tests : pc[u][g] \in {"read", "unpin"} BY DEF Inv, Pins
  <2>2. u = t BY <1>3, <2>1, OneHolds DEF Seats, Names
  <2> QED BY <1>3, <2>1, <2>2
<1> QED BY <1>1, <1>2, <1>3

\* A step of a run that is at no pin leaves what the groups read as alone.
LEMMA OthersRead ==
  /\ \A t \in Tests, g \in Names :
       Step(t, g) /\ ~SeatPin(t, g) /\ ~SeatRead(t, g) /\ ~SeatUnpin(t, g)
         => UNCHANGED <<pin, pick, wanted, disturbed>>
  /\ \A t \in Tests : Visit(t) \/ List(t) \/ Run(t) \/ Return(t)
         => UNCHANGED <<pin, pick, wanted, disturbed>>
  /\ \A t \in Tests, r \in Requests : TestGroups(t, r) => UNCHANGED <<pin, pick, wanted, pc>>
  /\ UNCHANGED vars => UNCHANGED <<pin, pick, wanted, disturbed>>
<1>1. ASSUME NEW t \in Tests, NEW g \in Names, Step(t, g),
             ~SeatPin(t, g), ~SeatRead(t, g), ~SeatUnpin(t, g)
      PROVE  UNCHANGED <<pin, pick, wanted, disturbed>>
  BY <1>1 DEF Step, Measure, NoGroup, MeasureNodes, NothingToSeat, LockPick, KeepPin, UnlockPick
<1>2. ASSUME NEW t \in Tests, Visit(t) \/ List(t) \/ Run(t) \/ Return(t)
      PROVE  UNCHANGED <<pin, pick, wanted, disturbed>>
  BY <1>2 DEF Visit, List, Run, Return
<1>3. \A t \in Tests, r \in Requests : TestGroups(t, r) => UNCHANGED <<pin, pick, wanted, pc>>
  BY DEF TestGroups
<1> QED BY <1>1, <1>2, <1>3 DEF vars

\* Undisturbed, what is measured stays what it is.
LEMMA SteadyStep ==
  ASSUME SeatInv, ~disturbed, [Next]_vars, ~disturbed'
  PROVE  Steady
<1>0. UNCHANGED <<members, latency>> BY GraphStays
<1>1. Data /\ Awaited /\ Current /\ Settled /\ Inv BY DEF SeatInv, Data
<1>2. CASE UNCHANGED <<pin, pick>>
  <2>1. \A g \in Groups : Now(g)' = Now(g) BY <1>2 DEF Now
  <2> QED BY <1>0, <2>1, NoneReseated DEF Steady
<1>3. ASSUME NEW t \in Tests, NEW g \in Names, SeatPin(t, g) PROVE Steady
  <2>1. pc[t][g] = "seat" /\ g \in Groups BY <1>1, <1>3 DEF SeatPin, Data, Measures, Names
  <2>2. PICK best : best = Fastest(members[g], delays[t][g]) OBVIOUS
  <2>3. best # None /\ pin' = [pin EXCEPT ![g] = best] /\ pick' = pick /\ pin[g] = None
    BY <1>3, <2>2 DEF SeatPin
  <2>4. Now(g)' = best /\ Now(g) = pick[g] BY <1>1, <2>1, <2>3 DEF Now, Data, Picks
  <2>5. \A h \in Groups \ {g} : Now(h)' = Now(h) BY <2>3 DEF Now
  <2>6. best \in ToSet(members[g]) /\ pick[g] \in ToSet(members[g])
    <3>1. pin'[g] \in ToSet(members[g]) \cup {None} BY <1>0, <1>1, <2>1, PicksStep DEF Picks
    <3> QED BY <1>1, <2>1, <2>3, <3>1 DEF Data, Picks
  <2>7. ASSUME Tame(g), \E u \in Tests : pc[u][g] = "done" PROVE Delay(best) = Delay(pick[g])
    <3>1. g \in UrlTests /\ wanted[g] = None
      BY <1>1, <2>1, <2>3, NoPin DEF Data, Measures, Seats
    <3>2. Optimal(g) BY <1>1, <2>7, <3>1 DEF Settled
    <3>3. /\ Delay(best) > 0 /\ Delay(best) \in Nat /\ Delay(pick[g]) \in Nat
          /\ \A m \in ToSet(members[g]) : Delay(m) > 0 => Delay(best) \in 1 .. Delay(m)
      BY <1>1, <2>1, <2>2, <2>3, <2>7, FastestOptimal DEF Seats
    <3>4. Delay(pick[g]) \in 1 .. Delay(best) BY <2>6, <3>2, <3>3 DEF Optimal
    <3>5. Delay(best) \in 1 .. Delay(pick[g]) BY <2>6, <3>3, <3>4
    <3> QED BY <3>3, <3>4, <3>5
  <2> QED BY <1>0, <1>1, <2>1, <2>4, <2>5, <2>6, <2>7, OneReseated
<1>4. ASSUME NEW t \in Tests, NEW g \in Names, SeatRead(t, g) PROVE Steady
  <2>1. pc[t][g] = "read" /\ g \in Groups BY <1>1, <1>4 DEF SeatRead, Data, Measures, Names
  <2>2. pin[g] # None BY <1>1, <2>1 DEF Data, Holding
  <2>3. pin' = pin /\ pick' = [pick EXCEPT ![g] = Now(g)] BY <1>4 DEF SeatRead
  <2>4. \A h \in Groups : Now(h)' = Now(h) BY <2>2, <2>3 DEF Now
  <2> QED BY <1>0, <2>4, NoneReseated DEF Steady
<1>5. ASSUME NEW t \in Tests, NEW g \in Names, SeatUnpin(t, g) PROVE Steady
  <2>1. pc[t][g] = "unpin" /\ g \in Groups BY <1>1, <1>5 DEF SeatUnpin, Data, Measures, Names
  <2>2. pin[g] # None /\ pick[g] = pin[g] BY <1>1, <2>1 DEF Data, Holding
  <2>3. pick' = pick /\ pin' = [pin EXCEPT ![g] = None] BY <1>5 DEF SeatUnpin
  <2>4. \A h \in Groups : Now(h)' = Now(h) BY <1>1, <2>2, <2>3 DEF Now, Data, Picks
  <2> QED BY <1>0, <2>4, NoneReseated DEF Steady
<1>6. ASSUME NEW g \in Groups, NEW m \in Names \cup {None}, ChangeProxy(g, m) PROVE Steady
  <2>1. running = {} BY <1>6 DEF ChangeProxy, Select
  <2>2. \A t \in Tests, h \in Groups : ~Going(t, h) BY <1>1, <2>1 DEF Inv, Planned, Going, Names
  <2> QED BY <2>2 DEF Steady
<1>7. ASSUME NEW g \in Groups, Traffic(g) PROVE Steady
  <2>1. pin' = pin BY <1>7 DEF Traffic
  <2>2. CASE pick' = [pick EXCEPT ![g] = Now(g)]
    <3>1. \A h \in Groups : Now(h)' = Now(h) BY <1>1, <2>1, <2>2 DEF Now, Data, Picks
    <3> QED BY <1>0, <3>1, NoneReseated DEF Steady
  <2>3. ASSUME NEW m \in ToSet(members[g]), pin[g] = None, Delay(m) > 0,
               Delay(pick[g]) = 0 \/ Delay(m) < Delay(pick[g]),
               pick' = [pick EXCEPT ![g] = m]
        PROVE  Steady
    <3>1. Now(g)' = m BY <1>1, <2>1, <2>3 DEF Now, Data, Picks
    <3>2. \A h \in Groups \ {g} : Now(h)' = Now(h) BY <1>1, <2>1, <2>3 DEF Now, Data, Picks
    <3>3. ~(Tame(g) /\ \E u \in Tests : pc[u][g] = "done")
      <4> SUFFICES ASSUME Tame(g), \E u \in Tests : pc[u][g] = "done" PROVE FALSE OBVIOUS
      <4>1. g \in UrlTests /\ wanted[g] = None BY <1>1, <1>7, <2>3, NoPin DEF Traffic
      <4>2. Optimal(g) BY <1>1, <4>1 DEF Settled
      <4>3. Delay(pick[g]) \in 1 .. Delay(m) BY <2>3, <4>2 DEF Optimal
      <4>4. Delay(m) \in Nat
        <5>1. latency \in [Nodes -> Nat] BY <1>1 DEF Inv, Listing
        <5> QED BY <5>1, DelayIs, DelayIsNat
      <4> QED BY <2>3, <4>3, <4>4
    <3> QED BY <1>0, <1>1, <3>1, <3>2, <3>3, OneReseated
  <2> QED BY <1>7, <2>2, <2>3 DEF Traffic
<1> QED BY <1>2, <1>3, <1>4, <1>5, <1>6, <1>7, OthersRead DEF Next

\* What undoes a disturbance comes when nothing is under way.
LEMMA Undisturbed ==
  ASSUME Inv, [Next]_vars, ~disturbed', disturbed \/ wanted' # wanted
  PROVE  \A t \in Tests, n \in Names : pc[t][n] = "none" /\ pc'[t][n] = "none"
<1>1. running = {} /\ pc' = pc
  <2>1. ASSUME NEW t \in Tests, NEW r \in Requests, TestGroups(t, r) PROVE running = {} /\ pc' = pc
    BY <2>1, OthersRead DEF TestGroups
  <2>2. ASSUME NEW g \in Groups, NEW m \in Names \cup {None}, ChangeProxy(g, m)
        PROVE  running = {} /\ pc' = pc
    BY <2>2 DEF ChangeProxy, Select, testVars
  <2>3. ASSUME NEW g \in Groups, Traffic(g) PROVE FALSE BY <2>3 DEF Traffic
  <2>4. ASSUME NEW t \in Tests, NEW n \in Names, Step(t, n) PROVE FALSE
    <3>1. SeatPin(t, n) \/ SeatRead(t, n) \/ SeatUnpin(t, n) => UNCHANGED <<wanted, disturbed>>
      BY DEF SeatPin, SeatRead, SeatUnpin
    <3> QED BY <2>4, <3>1, OthersRead
  <2> QED BY <2>1, <2>2, <2>3, <2>4, OthersRead DEF Next
<1> QED BY <1>1 DEF Inv, Planned

\* What was measured is so after a step that measures nothing.
LEMMA CurrentKept ==
  ASSUME SeatInv, Steady, ~disturbed, members' = members,
         \A u \in Tests, h \in Groups : Going(u, h)' =>
           Going(u, h) /\ delays'[u][h] = delays[u][h]
  PROVE  Current'
<1>1. \A g : Tame(g)' <=> Tame(g) BY TameStays
<1> SUFFICES ASSUME NEW u \in Tests, NEW h \in Groups, Tame(h), Going(u, h)',
                    NEW m \in DOMAIN delays'[u][h]
             PROVE  delays'[u][h][m] = Delay(m)'
  BY <1>1 DEF Current
<1>2. delays[u][h][m] = Delay(m) BY DEF SeatInv, Current
<1>3. Delay(m)' = Delay(m) BY DEF Steady
<1> QED BY <1>2, <1>3

\* What a run measures is so, and no other step makes it untrue.
LEMMA CurrentStep == ASSUME SeatInv, [Next]_vars PROVE Current'
<1> SUFFICES ASSUME ~disturbed' PROVE Current' BY DEF Current
<1>0. UNCHANGED <<members, latency>> BY GraphStays
<1>a. \A g : Tame(g)' <=> Tame(g) BY <1>0, TameStays
<1>b. Data /\ Current /\ Inv BY DEF SeatInv, Data
<1>c. CASE disturbed
  <2>1. \A u \in Tests, h \in Groups : ~Going(u, h)'
    BY <1>b, <1>c, Undisturbed DEF Going, Names
  <2> QED BY <2>1 DEF Current
<1> SUFFICES ASSUME ~disturbed PROVE Current' BY <1>c
<1>d. Steady BY SteadyStep
<1>1. ASSUME NEW t \in Tests, NEW g \in Groups, MeasureNodes(t, g) PROVE Current'
  <2>1. PICK d : d = [m \in ToSet(members[g]) \cap Nodes |-> latency[m]] OBVIOUS
  <2>2. /\ pc' = [pc EXCEPT ![t][g] = "measure"] /\ delays' = [delays EXCEPT ![t][g] = d]
        /\ UNCHANGED <<pin, pick>>
    BY <1>1, <2>1 DEF MeasureNodes, Goto
  <2>3. \A m : Delay(m)' = Delay(m)
    <3>1. \A h \in Groups : Now(h)' = Now(h) BY <2>2 DEF Now
    <3> QED BY <1>0, <3>1, NoneReseated
  <2> SUFFICES ASSUME NEW u \in Tests, NEW h \in Groups, Tame(h), Going(u, h)',
                      NEW m \in DOMAIN delays'[u][h]
               PROVE  delays'[u][h][m] = Delay(m)
    BY <1>a, <2>3 DEF Current
  <2>4. CASE <<u, h>> = <<t, g>>
    <3>1. delays'[u][h] = d BY <1>b, <2>2, <2>4 DEF Data, Measures
    <3>2. m \in Nodes /\ d[m] = latency[m] BY <2>1, <3>1
    <3> QED BY <3>1, <3>2 DEF Delay
  <2>5. CASE <<u, h>> # <<t, g>>
    <3>1. Going(u, h) /\ delays'[u][h] = delays[u][h]
      BY <1>b, <2>2, <2>5 DEF Data, Measures, Inv, Shapes, Going, Names
    <3> QED BY <1>b, <3>1 DEF Current
  <2> QED BY <2>4, <2>5
<1>2. ASSUME NEW t \in Tests, NEW g \in Groups, NEW x \in Names, Measure(t, g, x) PROVE Current'
  <2>1. /\ pc[t][g] = "measure" /\ UNCHANGED <<pc, pin, pick>>
        /\ delays' = [delays EXCEPT ![t][g] =
                        [y \in DOMAIN delays[t][g] \cup {x} |->
                           IF y = x THEN Delay(x) ELSE delays[t][g][y]]]
    BY <1>b, <1>2 DEF Measure, Data, Measures
  <2>3. \A m : Delay(m)' = Delay(m)
    <3>1. \A h \in Groups : Now(h)' = Now(h) BY <2>1 DEF Now
    <3> QED BY <1>0, <3>1, NoneReseated
  <2> SUFFICES ASSUME NEW u \in Tests, NEW h \in Groups, Tame(h), Going(u, h)',
                      NEW m \in DOMAIN delays'[u][h]
               PROVE  delays'[u][h][m] = Delay(m)
    BY <1>a, <2>3 DEF Current
  <2>4. Going(u, h) BY <2>1 DEF Going
  <2>5. CASE <<u, h>> = <<t, g>>
    <3>1. delays'[t][g] = [y \in DOMAIN delays[t][g] \cup {x} |->
                             IF y = x THEN Delay(x) ELSE delays[t][g][y]]
      BY <1>b, <2>1 DEF Data, Measures
    <3>2. m \in DOMAIN delays[t][g] => delays[t][g][m] = Delay(m) BY <1>b, <2>4, <2>5 DEF Current
    <3> QED BY <2>5, <3>1, <3>2
  <2>6. CASE <<u, h>> # <<t, g>>
    <3>1. delays'[u][h] = delays[u][h] BY <1>b, <2>1, <2>6 DEF Data, Measures
    <3> QED BY <1>b, <2>4, <3>1 DEF Current
  <2> QED BY <2>5, <2>6
<1>3. ASSUME NEW t \in Tests, NEW g \in Names,
             \/ NothingToSeat(t, g) \/ LockPick(t, g) \/ KeepPin(t, g) \/ SeatPin(t, g)
             \/ SeatRead(t, g) \/ SeatUnpin(t, g) \/ UnlockPick(t, g) \/ NoGroup(t, g)
      PROVE  Current'
  <2>1. /\ Going(t, g) \/ g \in Nodes
        /\ delays' = delays
        /\ \E label : pc' = [pc EXCEPT ![t][g] = label]
    BY <1>3 DEF NothingToSeat, LockPick, KeepPin, SeatPin, SeatRead, SeatUnpin, UnlockPick,
                NoGroup, Goto, Measured, Going
  <2>2. \A u \in Tests, h \in Groups : Going(u, h)' => Going(u, h)
    BY <1>b, <2>1, NamesAssumption DEF Going, Data, Inv, Shapes, Names
  <2> QED BY <1>0, <1>d, <2>1, <2>2, CurrentKept
<1>4. ASSUME NEW t \in Tests, NEW g \in Names, MeasureNodes(t, g) \/ \E m \in Names : Measure(t, g, m)
      PROVE  g \in Groups
  BY <1>4, <1>b DEF MeasureNodes, Measure, Data, Measures, Names
<1>5. ASSUME NEW t \in Tests, NEW g \in Names, Step(t, g) PROVE Current'
  BY <1>1, <1>2, <1>3, <1>4, <1>5 DEF Step
<1>6. CASE UNCHANGED <<pc, delays>>
  <2>1. \A u \in Tests, h \in Groups : Going(u, h)' => Going(u, h) BY <1>6 DEF Going
  <2> QED BY <1>0, <1>d, <1>6, <2>1, CurrentKept
<1>7. ASSUME NEW t \in Tests, Run(t) \/ Return(t) PROVE Current'
  <2>1. \A h \in Groups : ~Going(t, h)'
    <3>1. CASE Run(t) BY <1>b, <3>1 DEF Run, Going, Data, Inv, Shapes, Names
    <3>2. CASE Return(t) BY <1>b, <3>2 DEF Return, Going, Data, Inv, Shapes, Names
    <3> QED BY <1>7, <3>1, <3>2
  <2>2. \A u \in Tests \ {t} : pc'[u] = pc[u] /\ delays'[u] = delays[u]
    BY <1>b, <1>7 DEF Run, Return, Data, Inv, Shapes, Measures
  <2>3. \A u \in Tests \ {t}, h \in Groups : Going(u, h)' => Going(u, h) BY <2>2 DEF Going
  <2> QED BY <1>0, <1>d, <2>1, <2>2, <2>3, CurrentKept
<1>8. ASSUME NEW t \in Tests,
              (\E roots \in Requests : TestGroups(t, roots)) \/ Visit(t) \/ List(t)
       PROVE  UNCHANGED <<pc, delays>>
  BY <1>8 DEF TestGroups, Visit, List
<1>9. ASSUME NEW g \in Groups, Traffic(g) \/ \E m \in Names \cup {None} : ChangeProxy(g, m)
       PROVE  UNCHANGED <<pc, delays>>
  BY <1>9 DEF Traffic, ChangeProxy, testVars
<1>10. UNCHANGED vars => UNCHANGED <<pc, delays>> BY DEF vars, testVars
<1> QED BY <1>5, <1>6, <1>7, <1>8, <1>9, <1>10 DEF Next

\* A group seated on the fastest is, and stays while nothing read changes.
LEMMA SeatedOptimal ==
  ASSUME SeatInv, Steady, ~disturbed, members' = members, NEW g \in Groups, Tame(g),
         NEW t \in Tests, pc[t][g] \in Seats,
         pick'[g] # None, pick'[g] = Fastest(members[g], delays[t][g])
  PROVE  Optimal(g)'
<1>1. PICK F : F = pick'[g] OBVIOUS
<1>2. Data /\ Current BY DEF SeatInv
<1>3. /\ F \in ToSet(members[g])
      /\ \A m \in ToSet(members[g]) : Delay(m) > 0 => Delay(F) \in 1 .. Delay(m)
  BY <1>1, <1>2, FastestOptimal
<1>4. \A m \in ToSet(members[g]) : Delay(m)' = Delay(m)
  <2>1. DOMAIN delays[t][g] = ToSet(members[g]) /\ Going(t, g)
    BY <1>2 DEF Data, Measures, Seats, Going
  <2> QED BY <2>1 DEF Steady
<1>5. Delay(F)' = Delay(F) BY <1>3, <1>4
<1>6. \A m \in ToSet(members[g]) : Delay(m)' > 0 => Delay(F)' \in 1 .. Delay(m)'
  BY <1>3, <1>4, <1>5
<1> QED BY <1>1, <1>6 DEF Optimal

\* A group is done with its seat where it is best, and no step moves it to worse.
LEMMA SettledStep == ASSUME SeatInv, [Next]_vars PROVE Settled'
<1> SUFFICES ASSUME ~disturbed' PROVE Settled' BY DEF Settled
<1>0. UNCHANGED <<members, latency>> BY GraphStays
<1>a. \A g : Tame(g)' <=> Tame(g) BY <1>0, TameStays
<1>b. Data /\ Current /\ Settled /\ Inv BY DEF SeatInv, Data
<1> SUFFICES ASSUME NEW t \in Tests, NEW g \in UrlTests, Tame(g), wanted'[g] = None,
                    pc'[t][g] \in {"unlock", "done"}
             PROVE  Optimal(g)'
  BY <1>a DEF Settled
<1>c. g \in Groups /\ g \in Names BY NamesAssumption DEF Names
<1>d. ~disturbed /\ wanted' = wanted
  <2> SUFFICES ASSUME disturbed \/ wanted' # wanted PROVE FALSE OBVIOUS
  <2>1. pc'[t][g] = "none" BY <1>b, <1>c, Undisturbed
  <2> QED BY <2>1
<1>e. Steady BY <1>d, SteadyStep
<1>f. wanted[g] = None /\ pick[g] \in ToSet(members[g]) /\ pick[g] # None
  <2>1. members[g] \in Seq(Names) BY <1>b, <1>c DEF Inv, Listing, GraphOK
  <2>2. None \notin ToSet(members[g]) BY <2>1, NamesAssumption DEF ToSet, Names
  <2>3. wanted[g] = None BY <1>d
  <2>4. pick[g] \in ToSet(members[g]) BY <1>b, <1>c DEF Data, Picks
  <2> QED BY <2>2, <2>3, <2>4
\* The group was settled and has still what it had.
<1>1. ASSUME pc[t][g] \in {"unlock", "done"}, pick'[g] = pick[g] PROVE Optimal(g)'
  <2>1. Optimal(g) BY <1>1, <1>b, <1>d, <1>f DEF Settled
  <2>2. DOMAIN delays[t][g] = ToSet(members[g]) /\ Going(t, g)
    BY <1>1, <1>b, <1>c DEF Data, Measures, Seats, Going
  <2>3. \A m \in ToSet(members[g]) : Delay(m)' = Delay(m) BY <1>c, <1>e, <2>2 DEF Steady
  <2>4. PICK F : F = pick[g] OBVIOUS
  <2>5. Delay(F)' = Delay(F) BY <1>f, <2>3, <2>4
  <2>6. \A m \in ToSet(members[g]) : Delay(m)' > 0 => Delay(F)' \in 1 .. Delay(m)'
    BY <2>1, <2>3, <2>4, <2>5 DEF Optimal
  <2> QED BY <1>0, <1>1, <2>4, <2>6 DEF Optimal
\* It is on a member that was read as its pin.
<1>2. ASSUME NEW u \in Tests, pc[u][g] \in {"read", "unpin"}, pick'[g] = pin[g]
      PROVE  Optimal(g)'
  <2>1. pin[g] # None /\ pin[g] = Fastest(members[g], delays[u][g])
    BY <1>2, <1>b, <1>c DEF Data, Holding
  <2>2. pc[u][g] \in Seats BY <1>2 DEF Seats
  <2> QED BY <1>0, <1>2, <1>c, <1>d, <1>e, <2>1, <2>2, SeatedOptimal
\* It has been seated just now.
<1>3. ASSUME KeepPin(t, g) PROVE Optimal(g)'
  <2>1. pc[t][g] = "seat" /\ (pin[g] # None \/ Fastest(members[g], delays[t][g]) = None)
    BY <1>3 DEF KeepPin
  <2>2. pin[g] = None BY <1>b, <1>c, <1>f, <2>1, NoPin
  <2>3. \A m \in ToSet(members[g]) : Delay(m) = 0
    BY <1>b, <1>c, <1>d, <2>1, <2>2, FastestOptimal DEF Seats
  <2>4. DOMAIN delays[t][g] = ToSet(members[g]) /\ Going(t, g)
    BY <1>b, <1>c, <2>1 DEF Data, Measures, Seats, Going
  <2>5. \A m \in ToSet(members[g]) : Delay(m)' = 0 BY <1>c, <1>e, <2>3, <2>4 DEF Steady
  <2>6. \A m \in ToSet(members[g]) : ~(Delay(m)' > 0) BY <2>5
  <2> QED BY <1>0, <2>6 DEF Optimal
<1>4. ASSUME SeatUnpin(t, g) PROVE Optimal(g)'
  <2>1. pc[t][g] = "unpin" /\ pick' = pick BY <1>4 DEF SeatUnpin
  <2>2. pick[g] = pin[g] BY <1>b, <1>c, <2>1 DEF Data, Holding
  <2> QED BY <1>2, <2>1, <2>2
\* Who steps, and what becomes of the pick.
<1>5. ASSUME NEW u \in Tests, NEW n \in Names, Step(u, n) PROVE Optimal(g)'
  <2>1. CASE pc[t][g] \in {"unlock", "done"}
    <3>1. CASE SeatRead(u, n) /\ n = g
      <4>1. pc[u][g] = "read" BY <3>1 DEF SeatRead
      <4>2. pin[g] # None BY <1>b, <1>c, <4>1 DEF Data, Holding
      <4>3. pick'[g] = pin[g] BY <1>b, <1>c, <3>1, <4>2 DEF SeatRead, Now, Data, Picks
      <4> QED BY <1>2, <4>1, <4>3
    <3>2. CASE SeatRead(u, n) /\ n # g
      <4>1. pick'[g] = pick[g] BY <1>b, <1>c, <3>2 DEF SeatRead, Data, Picks
      <4> QED BY <1>1, <2>1, <4>1
    <3>3. CASE ~SeatRead(u, n)
      <4>1. SeatPin(u, n) \/ SeatUnpin(u, n) => pick' = pick BY DEF SeatPin, SeatUnpin
      <4>2. pick' = pick BY <1>5, <3>3, <4>1, OthersRead
      <4> QED BY <1>1, <2>1, <4>2
    <3> QED BY <3>1, <3>2, <3>3
  <2>2. CASE pc[t][g] \notin {"unlock", "done"}
    <3>1. pc'[t][g] # pc[t][g] BY <2>2
    <3>2. CASE (\E m \in Names : Measure(u, n, m)) \/ MeasureNodes(u, n) \/ LockPick(u, n)
               \/ SeatPin(u, n) \/ SeatRead(u, n)
      <4>1. pc' = pc \/ \E l \in {"measure", "seat", "read", "unpin"} : pc' = [pc EXCEPT ![u][n] = l]
        BY <3>2 DEF Measure, MeasureNodes, LockPick, SeatPin, SeatRead, Goto
      <4>2. pc'[t][g] = pc[t][g] \/ pc'[t][g] \in {"measure", "seat", "read", "unpin"}
        BY <1>b, <1>c, <4>1 DEF Inv, Shapes
      <4> QED BY <3>1, <4>2
    <3>3. CASE KeepPin(u, n) \/ SeatUnpin(u, n)
      <4>1. \E l : pc' = [pc EXCEPT ![u][n] = l] BY <3>3 DEF KeepPin, SeatUnpin, Goto
      <4>2. u = t /\ n = g BY <1>b, <1>c, <3>1, <4>1 DEF Inv, Shapes
      <4> QED BY <1>3, <1>4, <3>3, <4>2
    <3>4. CASE NoGroup(u, n) \/ NothingToSeat(u, n) \/ UnlockPick(u, n)
      <4>1. /\ \E l : pc' = [pc EXCEPT ![u][n] = l]
            /\ n \in Nodes \/ n \notin UrlTests \/ pc[u][n] = "unlock"
        BY <3>4 DEF NoGroup, NothingToSeat, UnlockPick, Goto
      <4>2. u = t /\ n = g BY <1>b, <1>c, <3>1, <4>1 DEF Inv, Shapes
      <4> QED BY <1>c, <2>2, <4>1, <4>2, NamesAssumption
    <3> QED BY <1>5, <3>2, <3>3, <3>4 DEF Step
  <2> QED BY <2>1, <2>2
<1>6. ASSUME pc' = pc, pick' = pick PROVE Optimal(g)' BY <1>1, <1>6
<1>7. ASSUME NEW h \in Groups, Traffic(h) PROVE Optimal(g)'
  <2>1. pc' = pc BY <1>7 DEF Traffic, testVars
  <2>2. CASE pick'[g] = pick[g] BY <1>1, <2>1, <2>2
  <2>3. CASE pick'[g] # pick[g]
    <3>1. h = g BY <1>7, <1>b, <1>c, <2>3 DEF Traffic, Data, Picks
    <3>2. CASE pick' = [pick EXCEPT ![g] = Now(g)]
      <4>1. pin[g] # None /\ pick'[g] = pin[g]
        BY <1>b, <1>c, <2>3, <3>2 DEF Now, Data, Picks
      <4>2. PICK u \in Tests : pc[u][g] \in {"read", "unpin"}
        BY <1>b, <1>c, <1>f, <4>1, NoPin
      <4> QED BY <1>2, <4>1, <4>2
    <3>3. ASSUME NEW m \in ToSet(members[g]), Delay(m) > 0,
                 Delay(pick[g]) = 0 \/ Delay(m) < Delay(pick[g])
          PROVE  FALSE
      <4>1. Optimal(g) BY <1>b, <1>d, <1>f, <2>1 DEF Settled
      <4>2. Delay(pick[g]) \in 1 .. Delay(m) BY <3>3, <4>1 DEF Optimal
      <4>3. Delay(m) \in Nat
        <5>1. latency \in [Nodes -> Nat] BY <1>b DEF Inv, Listing
        <5> QED BY <5>1, DelayIs, DelayIsNat
      <4> QED BY <3>3, <4>2, <4>3
    <3> QED BY <1>7, <3>1, <3>2, <3>3 DEF Traffic
  <2> QED BY <2>2, <2>3
<1>8. ASSUME NEW h \in Groups, NEW m \in Names \cup {None}, ChangeProxy(h, m) PROVE Optimal(g)'
  <2>1. running = {} /\ pc' = pc BY <1>8 DEF ChangeProxy, Select, testVars
  <2>2. pc[t][g] = "none" BY <1>b, <1>c, <2>1 DEF Inv, Planned
  <2> QED BY <2>1, <2>2
<1>9. ASSUME NEW u \in Tests, Run(u) \/ Return(u) PROVE Optimal(g)'
  <2>1. \A n \in Names : pc'[u][n] \in {"none", "start"}
    <3>1. CASE Run(u) BY <1>b, <3>1 DEF Run, Inv, Shapes
    <3>2. CASE Return(u) BY <1>b, <3>2 DEF Return, Inv, Shapes
    <3> QED BY <1>9, <3>1, <3>2
  <2>2. u # t BY <1>c, <2>1
  <2>3. pc'[t] = pc[t] /\ pick' = pick BY <1>9, <1>b, <2>2 DEF Run, Return, Inv, Shapes
  <2> QED BY <1>1, <2>3
<1>10. ASSUME NEW u \in Tests,
              (\E roots \in Requests : TestGroups(u, roots)) \/ Visit(u) \/ List(u)
       PROVE  pc' = pc /\ pick' = pick
  BY <1>10 DEF TestGroups, Visit, List
<1>11. UNCHANGED vars => pc' = pc /\ pick' = pick BY DEF vars, testVars
<1> QED BY <1>5, <1>6, <1>7, <1>8, <1>9, <1>10, <1>11 DEF Next

\* SeatInv holds in every reachable state.
THEOREM SeatInvAlways == Spec => []SeatInv
<1>1. SeatInv /\ [Next]_vars => SeatInv'
  BY DataStep, AwaitedStep, CurrentStep, SettledStep DEF SeatInv
<1> QED BY InitSeatInv, <1>1, PTL DEF Spec

\* After its run a url-test group without a pin, in no cycle and with none below it,
\* is on a member no other beats, nested groups at what they read as now: whatever
\* tests overlap and whatever traffic makes the groups adopt.
THEOREM TestsSeatOnFastest == Spec => []SeatedOnFastest
<1>1. SeatInv => SeatedOnFastest
  <2> SUFFICES ASSUME SeatInv, NEW t \in Tests, NEW g \in UrlTests,
                      pc[t][g] = "done", ~disturbed, pin[g] = None, Tame(g)
               PROVE  Optimal(g)
    BY DEF SeatedOnFastest, Tame, Optimal
  <2>1. g \in Groups BY NamesAssumption
  <2>2. wanted[g] = None BY <2>1, NoPin DEF SeatInv, Data
  <2> QED BY <2>2 DEF SeatInv, Settled
<1> QED BY SeatInvAlways, <1>1, PTL

-----------------------------------------------------------------------------
(* The types.                                                              *)

\* What of the types SeatInv does not say.
Kept ==
  /\ members \in Graphs /\ latency \in Latencies
  /\ patched \in SUBSET Groups
  /\ pickMu \in (Tests \X UrlTests) \cup {None}
  /\ disturbed \in BOOLEAN

\* Only a url-test group is seated, and setups are over.
LEMMA KeptStep == ASSUME Data, Kept, [Next]_vars PROVE Kept'
<1> DEFINE Others ==
      /\ patched' = patched
      /\ pickMu' \in {pickMu, None} \/ \E t \in Tests, g \in UrlTests : pickMu' = <<t, g>>
      /\ disturbed' \in BOOLEAN
<1>1. members' \in Graphs /\ latency' \in Latencies BY GraphStays DEF Kept
<1>2. Others
  <2> USE DEF Kept
  <2>1. ASSUME NEW t \in Tests, NEW g \in Names, Step(t, g) PROVE Others
    BY <2>1 DEF Step, Measure, NoGroup, MeasureNodes, NothingToSeat, LockPick, KeepPin,
                SeatPin, SeatRead, SeatUnpin, UnlockPick
  <2>2. ASSUME NEW t \in Tests,
               \/ \E roots \in Requests : TestGroups(t, roots)
               \/ Visit(t) \/ List(t) \/ Run(t) \/ Return(t)
        PROVE  Others
    BY <2>2 DEF TestGroups, Visit, List, Run, Return
  <2>3. ASSUME NEW g \in Groups, (\E m \in Names \cup {None} : ChangeProxy(g, m)) \/ Traffic(g)
        PROVE  Others
    BY <2>3 DEF ChangeProxy, Select, Traffic
  <2>4. CASE UNCHANGED vars BY <2>4 DEF vars
  <2> QED BY <2>1, <2>2, <2>3, <2>4 DEF Next
<1> QED BY <1>1, <1>2 DEF Kept

\* Every variable keeps its type, the order and the stack of visits included.
THEOREM TypesCorrect == Spec => []TypeOK
<1>1. Init => Kept BY DEF Init, Kept
<1>2. SeatInv /\ Kept /\ [Next]_vars => Kept' BY KeptStep DEF SeatInv
<1>3. SeatInv /\ Kept => TypeOK
  <2> SUFFICES ASSUME SeatInv, Kept PROVE TypeOK OBVIOUS
  <2> USE DEF SeatInv, Data, Inv
  <2>1. \A g \in Groups : ToSet(members[g]) \subseteq Names
    <3> SUFFICES ASSUME NEW g \in Groups PROVE ToSet(members[g]) \subseteq Names OBVIOUS
    <3>1. members[g] \in Seq(Names) BY DEF Listing, GraphOK
    <3> QED BY <3>1 DEF ToSet
  <2>2. \A g \in Groups : pin[g] \in Names \cup {None} /\ wanted[g] \in Names \cup {None}
    BY <2>1 DEF Picks, Pins
  <2>3. pin \in [Groups -> Names \cup {None}] /\ wanted \in [Groups -> Names \cup {None}]
    BY <2>2 DEF Shapes
  <2>4. \A g \in Groups : pick[g] \in ToSet(members[g]) BY DEF Picks
  <2>5. \A t \in Tests :
          /\ order[t] \in Seq(Names)
          /\ walk[t] \in Seq([name : Names \cup {None}, left : Seq(Names)])
          /\ Visiting(t) => t \in running
    BY DEF Listing, Walked, Visits, Visiting
  <2>6. \A t \in Tests, g \in Groups :
          \A m \in DOMAIN delays[t][g] : delays[t][g][m] \in Nat
    BY DEF Measures
  <2> QED BY <2>3, <2>4, <2>5, <2>6 DEF TypeOK, Kept, Listing, Shapes
<1> QED BY SeatInvAlways, <1>1, <1>2, <1>3, PTL DEF Spec

=============================================================================
