---------------------------- MODULE LocksProofs ------------------------------
(***************************************************************************)
(* Proofs about Locks, for any number of threads and units of the          *)
(* semaphore: threads wait for each other in a circle only where the app   *)
(* calls the bridge from inside an upcall in one of the listed ways.       *)
(*                                                                         *)
(* The inductive invariant, Inv:                                           *)
(*                                                                         *)
(*   - Framed: a thread is in a call, or in one made from an upcall of it; *)
(*   - Held: whoever has a lock or a unit of it is at a step of a call     *)
(*     where that call has it, by the tables HeldAt and SharedAt.          *)
(*                                                                         *)
(* The argument is then an order of the locks, Rank.                       *)
(***************************************************************************)
EXTENDS Locks, FiniteSetTheorems, WellFoundedInduction, TLAPS

(* What a call has before each of its steps.                               *)

HeldAt ==
  [startTUN |->
     <<{}, {"tunLock"}, {"tunLock", "limit"}, {"tunLock", "limit"}, {"tunLock"},
       {"tunLock", "runLock"}, {"tunLock", "runLock", "limit"},
       {"tunLock", "runLock", "limit"}, {"tunLock", "runLock"}, {"tunLock"},
       {}, {"runLock"}>>,
   stopTun |->
     <<{}, {"tunLock"}, {"tunLock", "limit"}, {"tunLock", "limit"}, {"tunLock"},
       {}, {"runLock"}>>,
   setEventListener |-> <<{}, {"eventListenerMu"}, {"eventListenerMu"}>>,
   dial |-> <<{}, {}, {}>>,
   applyConfig |-> <<{}, {"runLock"}, {"runLock"}, {"runLock"}, {"runLock"}>>,
   sideLoad |-> <<{}, {"runLock"}, {"runLock"}>>,
   stream |-> <<{}, {}, {}>>,
   restartStream |-> <<{}, {"streamMu"}, {"streamMu"}>>,
   testGroups |-> <<{}, {}, {}, {}, {"pickMu"}, {}, {}, {}>>,
   changeProxy |-> <<{}, {"pickMu"}>>,
   settings |-> <<{}, {"runLock"}>>]

SharedAt ==
  [startTUN |-> <<{}, {}, {}, {}, {}, {}, {}, {}, {}, {}, {}, {}>>,
   stopTun |-> <<{}, {}, {}, {}, {}, {}, {}>>,
   setEventListener |-> <<{}, {}, {}>>,
   dial |-> <<{}, {"limit"}, {"limit"}>>,
   applyConfig |-> <<{}, {}, {"limit"}, {"limit"}, {}>>,
   sideLoad |-> <<{}, {}, {}>>,
   stream |-> <<{}, {"eventListenerMu"}, {"eventListenerMu"}>>,
   restartStream |-> <<{}, {}, {}>>,
   testGroups |->
     <<{}, {"limit"}, {"limit"}, {}, {}, {}, {"eventListenerMu"}, {"eventListenerMu"}>>,
   changeProxy |-> <<{}, {}>>,
   settings |-> <<{}, {}>>]

Frames == [call : DOMAIN Steps, at : Nat]

\* The step a frame is at.
At(f) == Steps[f.call][f.at]

InCall(f) == f \in Frames /\ f.at \in 1 .. Len(Steps[f.call])

Holds(f) == HeldAt[f.call][f.at]

Shares(f) == SharedAt[f.call][f.at]

Framed ==
  /\ frames \in [Threads -> Seq(Frames)]
  /\ \A t \in Threads :
       /\ Depth(t) <= 2
       /\ \A i \in 1 .. Depth(t) : InCall(frames[t][i])
       /\ Depth(t) = 2 =>
            At(frames[t][1]).does = "upcall" /\ frames[t][2].call \in DOMAIN Sync

Held ==
  /\ owner \in [Locks -> Threads \cup {None}]
  /\ sharers \in [Locks -> SUBSET Threads]
  /\ \A t \in Threads, l \in Locks :
       /\ owner[l] = t => \E i \in 1 .. Depth(t) : l \in Holds(frames[t][i])
       /\ t \in sharers[l] => \E i \in 1 .. Depth(t) : l \in Shares(frames[t][i])

Inv == Framed /\ Held

-----------------------------------------------------------------------------
(* The tables.                                                             *)

\* The calls.
LEMMA Calls ==
  /\ DOMAIN Steps = {"startTUN", "stopTun", "setEventListener", "dial", "applyConfig",
                     "sideLoad", "stream", "restartStream", "testGroups", "changeProxy",
                     "settings"}
  /\ DOMAIN Sync = {"startTUN", "stopTun", "setEventListener"}
BY DEF Steps, Sync

\* A step goes from one row of the tables to the next, and a call that is over has
\* nothing.
Follows(s, held, shared, i, n) ==
  /\ s[i].does \in {"take", "leave", "share", "unshare"} => s[i].on \in Locks
  /\ i < n =>
       /\ \A l \in held[i] : l \in held[i + 1] \/ (s[i].does = "leave" /\ s[i].on = l)
       /\ \A l \in shared[i] : l \in shared[i + 1] \/ (s[i].does = "unshare" /\ s[i].on = l)
       /\ s[i].does = "take" => s[i].on \in held[i + 1]
       /\ s[i].does = "share" => s[i].on \in shared[i + 1]
  /\ i = n =>
       /\ \A l \in held[i] : s[i].does = "leave" /\ s[i].on = l
       /\ \A l \in shared[i] : s[i].does = "unshare" /\ s[i].on = l
       /\ s[i].does \notin {"take", "share"}

\* All steps do.
LEMMA Rows ==
  \A c \in DOMAIN Steps :
    /\ Len(Steps[c]) \in Nat \ {0}
    /\ \A i \in 1 .. Len(Steps[c]) :
         Follows(Steps[c], HeldAt[c], SharedAt[c], i, Len(Steps[c]))
<1> USE DEF Follows, HeldAt, SharedAt, Step, Locks
<1> DEFINE P(c) ==
      /\ Len(Steps[c]) \in Nat \ {0}
      /\ \A i \in 1 .. Len(Steps[c]) :
           Follows(Steps[c], HeldAt[c], SharedAt[c], i, Len(Steps[c]))
<1> SUFFICES \A c \in DOMAIN Steps : P(c) OBVIOUS
<1>1. P("startTUN") BY DEF Steps, StartTun
<1>2. P("stopTun") BY DEF Steps, StopTun
<1>3. P("setEventListener") BY DEF Steps, SetEventListener
<1>4. P("dial") BY DEF Steps, Dial
<1>5. P("applyConfig") BY DEF Steps, ApplyConfig
<1>6. P("sideLoad") BY DEF Steps, SideLoad
<1>7. P("stream") BY DEF Steps, SendMessage
<1>8. P("restartStream") BY DEF Steps, RestartStream
<1>9. P("testGroups") BY DEF Steps, TestGroups
<1>10. P("changeProxy") BY DEF Steps, ChangeProxy
<1>11. P("settings") BY DEF Steps, Settings
<1> HIDE DEF P
<1> QED
  BY ONLY <1>1, <1>2, <1>3, <1>4, <1>5, <1>6, <1>7, <1>8, <1>9, <1>10, <1>11, Calls

-----------------------------------------------------------------------------
(* Inv is inductive.                                                       *)

\* Nobody is in a call at first.
LEMMA InitInv == Init => Inv
<1> SUFFICES ASSUME Init PROVE Inv OBVIOUS
<1>1. \A t \in Threads : Depth(t) = 0 BY DEF Init, Depth
<1>2. frames \in [Threads -> Seq(Frames)] BY DEF Init
<1>3. Framed BY <1>1, <1>2 DEF Framed
<1>4. Held BY LocksAssumption DEF Init, Held
<1> QED BY <1>3, <1>4 DEF Inv

\* The frames of a thread after a step: the innermost goes on, or is gone.
LEMMA PastIs ==
  ASSUME Framed, NEW t \in Threads, Depth(t) > 0
  PROVE  LET d == Depth(t) IN
         /\ Past(t) \in Seq(Frames)
         /\ Top(t).at < Len(Steps[Top(t).call]) =>
              /\ Len(Past(t)) = d
              /\ Past(t)[d] = [Top(t) EXCEPT !.at = @ + 1]
              /\ InCall(Past(t)[d])
         /\ Top(t).at = Len(Steps[Top(t).call]) => Len(Past(t)) = d - 1
         /\ \A i \in 1 .. d - 1 : Past(t)[i] = frames[t][i]
<1> DEFINE d == Depth(t)
           rest == SubSeq(frames[t], 1, d - 1)
           next == [Top(t) EXCEPT !.at = @ + 1]
<1>1. frames[t] \in Seq(Frames) /\ d \in Nat /\ d = Len(frames[t]) /\ d >= 1
  BY DEF Framed, Depth
<1>2. /\ rest \in Seq(Frames) /\ Len(rest) = d - 1
      /\ \A i \in 1 .. d - 1 : rest[i] = frames[t][i]
  BY <1>1
<1>3. Top(t) = frames[t][d] /\ InCall(Top(t)) BY <1>1 DEF Top, Framed
<1>4. Len(Steps[Top(t).call]) \in Nat BY <1>3, Rows DEF InCall, Frames
<1>5. CASE Top(t).at < Len(Steps[Top(t).call])
  <2>1. next \in Frames /\ InCall(next) BY <1>3, <1>4, <1>5 DEF InCall, Frames
  <2>2. Past(t) = Append(rest, next) BY <1>5 DEF Past
  <2> HIDE DEF rest, next
  <2>3. /\ Past(t) \in Seq(Frames) /\ Len(Past(t)) = d /\ Past(t)[d] = next
        /\ \A i \in 1 .. d - 1 : Past(t)[i] = rest[i]
    BY <1>1, <1>2, <2>1, <2>2
  <2> QED BY <1>2, <1>4, <1>5, <2>1, <2>3 DEF next
<1>6. CASE Top(t).at = Len(Steps[Top(t).call])
  <2>1. ~(Top(t).at < Len(Steps[Top(t).call])) BY ONLY <1>4, <1>6
  <2>2. Past(t) = rest BY <2>1 DEF Past
  <2> QED BY <1>2, <1>4, <1>6, <2>2
<1> QED BY <1>3, <1>4, <1>5, <1>6 DEF InCall

\* How deep a thread can be, and what it is at.
LEMMA Depths ==
  ASSUME Framed, NEW t \in Threads
  PROVE  /\ Depth(t) \in {0, 1, 2} /\ Depth(t) = Len(frames[t])
         /\ Depth(t) > 0 =>
              /\ Top(t) = frames[t][Depth(t)] /\ InCall(Top(t))
              /\ Top(t).call \in DOMAIN Steps
              /\ Len(Steps[Top(t).call]) \in Nat
              /\ Top(t).at \in 1 .. Len(Steps[Top(t).call])
              /\ Now(t) = At(Top(t))
<1>1. frames[t] \in Seq(Frames) /\ Depth(t) <= 2 /\ Depth(t) = Len(frames[t])
  BY DEF Framed, Depth
<1>2. Depth(t) \in {0, 1, 2}
  <2>1. Depth(t) \in Nat BY <1>1
  <2>2. \A n \in Nat : n <= 2 => n \in {0, 1, 2} OBVIOUS
  <2> QED BY <1>1, <2>1, <2>2
<1>3. ASSUME Depth(t) > 0 PROVE InCall(Top(t))
  BY <1>2, <1>3 DEF Framed, Top
<1> QED BY <1>1, <1>2, <1>3, Rows DEF InCall, Frames, Top, Now, At

\* What goes on with one thread, whatever it does: the frames of the others stay.
LEMMA OneMoves ==
  ASSUME Framed, NEW t \in Threads, NEW fs \in Seq(Frames),
         frames' = [frames EXCEPT ![t] = fs]
  PROVE  /\ frames' \in [Threads -> Seq(Frames)]
         /\ frames'[t] = fs
         /\ \A u \in Threads \ {t} : frames'[u] = frames[u] /\ Depth(u)' = Depth(u)
         /\ Depth(t)' = Len(fs)
BY DEF Framed, Depth

\* A step of a call keeps the frames in shape.
LEMMA AdvanceFramed ==
  ASSUME Framed, NEW t \in Threads, Depth(t) > 0, Advance(t)
  PROVE  Framed'
<1>1. Past(t) \in Seq(Frames) BY PastIs
<1>2. /\ frames' \in [Threads -> Seq(Frames)] /\ frames'[t] = Past(t)
      /\ \A u \in Threads \ {t} : frames'[u] = frames[u] /\ Depth(u)' = Depth(u)
      /\ Depth(t)' = Len(Past(t))
  BY <1>1, OneMoves DEF Advance
<1>3. Depth(t) \in {1, 2} BY Depths
<1>4. Len(Steps[Top(t).call]) \in Nat /\ Top(t).at \in 1 .. Len(Steps[Top(t).call])
      /\ Top(t) = frames[t][Depth(t)]
  BY Depths
<1>5. ASSUME NEW u \in Threads
      PROVE  /\ Depth(u)' <= 2
             /\ \A i \in 1 .. Depth(u)' : InCall(frames'[u][i])
             /\ Depth(u)' = 2 =>
                  At(frames'[u][1]).does = "upcall" /\ frames'[u][2].call \in DOMAIN Sync
  <2>1. CASE u # t BY <1>2, <2>1 DEF Framed
  <2>2. CASE u = t
    <3>1. CASE Top(t).at < Len(Steps[Top(t).call])
      <4>1. /\ Len(Past(t)) = Depth(t) /\ InCall(Past(t)[Depth(t)])
            /\ Past(t)[Depth(t)].call = Top(t).call
            /\ \A i \in 1 .. Depth(t) - 1 : Past(t)[i] = frames[t][i]
        BY <1>3, <1>4, <3>1, PastIs DEF Framed, InCall, Frames
      <4>2. CASE Depth(t) = 1 BY <1>2, <2>2, <4>1, <4>2
      <4>3. CASE Depth(t) = 2
        <5>1. /\ InCall(frames[t][1]) /\ At(frames[t][1]).does = "upcall"
              /\ Top(t).call \in DOMAIN Sync
          BY <1>4, <4>3 DEF Framed
        <5>2. frames'[t][1] = frames[t][1] /\ frames'[t][2] = Past(t)[2]
          BY <1>2, <4>1, <4>3
        <5> QED BY <1>2, <2>2, <4>1, <4>3, <5>1, <5>2
      <4> QED BY <1>3, <4>2, <4>3
    <3>2. CASE Top(t).at = Len(Steps[Top(t).call])
      <4>1. /\ Len(Past(t)) = Depth(t) - 1
            /\ \A i \in 1 .. Depth(t) - 1 : Past(t)[i] = frames[t][i]
        BY <3>2, PastIs
      <4> QED BY <1>2, <1>3, <2>2, <4>1 DEF Framed
    <3> QED BY <1>4, <3>1, <3>2
  <2> QED BY <2>1, <2>2
<1> QED BY <1>2, <1>5 DEF Framed

\* A step of a call keeps its row of the tables: what the thread had, it has, or
\* leaves with this very step.
LEMMA AdvanceHeld ==
  ASSUME Framed, NEW t \in Threads, Depth(t) > 0, Advance(t), NEW l \in Locks
  PROVE  LET here(i) == l \in Holds(frames[t][i])
             inside(i) == l \in Shares(frames[t][i])
         IN /\ (\E i \in 1 .. Depth(t) : here(i)) =>
                 (\E i \in 1 .. Depth(t)' : l \in Holds(frames'[t][i]))
                 \/ (Now(t).does = "leave" /\ Now(t).on = l)
            /\ (\E i \in 1 .. Depth(t) : inside(i)) =>
                 (\E i \in 1 .. Depth(t)' : l \in Shares(frames'[t][i]))
                 \/ (Now(t).does = "unshare" /\ Now(t).on = l)
            /\ Now(t).does = "take" /\ Now(t).on = l =>
                 \E i \in 1 .. Depth(t)' : l \in Holds(frames'[t][i])
            /\ Now(t).does = "share" /\ Now(t).on = l =>
                 \E i \in 1 .. Depth(t)' : l \in Shares(frames'[t][i])
<1> DEFINE d == Depth(t)
           f == Top(t)
           n == Len(Steps[f.call])
           g == Past(t)[d]
<1>1. Past(t) \in Seq(Frames) BY PastIs
<1>2. frames'[t] = Past(t) /\ Depth(t)' = Len(Past(t)) BY <1>1, OneMoves DEF Advance
<1>3. d \in {1, 2} /\ f = frames[t][d] /\ InCall(f) BY Depths
<1>4. n \in Nat /\ f.at \in 1 .. n /\ f.call \in DOMAIN Steps BY <1>3, Rows DEF InCall, Frames
<1>5. Follows(Steps[f.call], HeldAt[f.call], SharedAt[f.call], f.at, n) BY <1>4, Rows
<1>6. Now(t) = Steps[f.call][f.at] BY DEF Now
<1>7. Holds(f) = HeldAt[f.call][f.at] /\ Shares(f) = SharedAt[f.call][f.at]
  BY DEF Holds, Shares
<1>8. \A i \in 1 .. d - 1 : Past(t)[i] = frames[t][i] BY PastIs
<1>9. CASE f.at < n
  <2>1. Len(Past(t)) = d /\ g.call = f.call /\ g.at = f.at + 1
    BY <1>3, <1>9, PastIs DEF InCall, Frames
  <2>2. Holds(g) = HeldAt[f.call][f.at + 1] /\ Shares(g) = SharedAt[f.call][f.at + 1]
    BY <2>1 DEF Holds, Shares
  <2>3. /\ \A i \in 1 .. d - 1 : frames'[t][i] = frames[t][i]
        /\ frames'[t][d] = g /\ Depth(t)' = d
    BY <1>2, <1>8, <2>1
  <2> HIDE DEF d, f, g, n
  <2>4. /\ l \in Holds(f) => l \in Holds(g) \/ (Now(t).does = "leave" /\ Now(t).on = l)
        /\ l \in Shares(f) => l \in Shares(g) \/ (Now(t).does = "unshare" /\ Now(t).on = l)
        /\ Now(t).does = "take" => Now(t).on \in Holds(g)
        /\ Now(t).does = "share" => Now(t).on \in Shares(g)
    BY <1>5, <1>6, <1>7, <1>9, <2>2 DEF Follows
  <2> QED BY <1>3, <2>3, <2>4 DEF d
<1>10. CASE f.at = n
  <2>1. Len(Past(t)) = d - 1 BY <1>10, PastIs
  <2>2. \A i \in 1 .. d - 1 : frames'[t][i] = frames[t][i] BY <1>2, <1>8
  <2> HIDE DEF d, f, g, n
  <2>3. /\ l \in Holds(f) => Now(t).does = "leave" /\ Now(t).on = l
        /\ l \in Shares(f) => Now(t).does = "unshare" /\ Now(t).on = l
        /\ Now(t).does \notin {"take", "share"}
    BY <1>5, <1>6, <1>7, <1>10 DEF Follows
  <2> QED BY <1>2, <1>3, <2>1, <2>2, <2>3 DEF d
<1> QED BY <1>4, <1>9, <1>10

-----------------------------------------------------------------------------
(* The actions.                                                            *)

\* A call begins, from outside or from an upcall, with nothing.
LEMMA BeginStep ==
  ASSUME Inv, NEW t \in Threads, NEW c \in DOMAIN Steps,
         Call(t, c) \/ (c \in DOMAIN Sync /\ Reenter(t, c))
  PROVE  Inv'
<1> DEFINE new == [call |-> c, at |-> 1]
           fs == Append(frames[t], new)
<1>1. new \in Frames /\ InCall(new) BY Rows DEF InCall, Frames
<1>2. frames[t] \in Seq(Frames) BY DEF Inv, Framed
<1>3. Depth(t) \in {0, 1} /\ Depth(t) = Len(frames[t])
      /\ (Depth(t) = 1 => At(frames[t][1]).does = "upcall" /\ c \in DOMAIN Sync)
  <2>1. CASE Call(t, c) BY <2>1, <1>2 DEF Call, Depth
  <2>2. CASE c \in DOMAIN Sync /\ Reenter(t, c)
    <3>1. Depth(t) > 0 /\ Now(t).does = "upcall" BY <2>2 DEF Reenter, Doing
    <3>2. Depth(t) # 2
      <4>1. \A f : InCall(f) /\ f.call \in DOMAIN Sync => At(f).does # "upcall"
        <5>1. \A i \in 1 .. Len(StartTun) : StartTun[i].does # "upcall"
          BY DEF StartTun, Step
        <5>2. \A i \in 1 .. Len(StopTun) : StopTun[i].does # "upcall"
          BY DEF StopTun, Step
        <5>3. \A i \in 1 .. Len(SetEventListener) : SetEventListener[i].does # "upcall"
          BY DEF SetEventListener, Step
        <5>4. /\ Steps["startTUN"] = StartTun /\ Steps["stopTun"] = StopTun
              /\ Steps["setEventListener"] = SetEventListener
          BY DEF Steps
        <5> QED BY <5>1, <5>2, <5>3, <5>4, Calls DEF InCall, At
      <4> QED BY <3>1, <4>1, Depths DEF Inv, Framed
    <3> QED BY <2>2, <3>1, <3>2, Depths DEF Inv
  <2> QED BY <2>1, <2>2
<1>4. fs \in Seq(Frames) /\ Len(fs) = Depth(t) + 1
      /\ fs[Depth(t) + 1] = new
      /\ \A i \in 1 .. Depth(t) : fs[i] = frames[t][i]
  BY <1>1, <1>2, <1>3
<1>5. frames' = [frames EXCEPT ![t] = fs]
  <2>1. CASE Call(t, c)
    <3>1. Append(<<>>, new) = <<new>> OBVIOUS
    <3> QED BY <2>1, <3>1 DEF Call
  <2>2. CASE Reenter(t, c) BY <2>2 DEF Reenter, Inv, Framed
  <2> QED BY <2>1, <2>2
<1> HIDE DEF fs, new
<1>6. /\ frames' \in [Threads -> Seq(Frames)] /\ frames'[t] = fs
      /\ \A u \in Threads \ {t} : frames'[u] = frames[u] /\ Depth(u)' = Depth(u)
      /\ Depth(t)' = Len(fs)
  BY <1>4, <1>5, OneMoves DEF Inv
<1>7. Framed'
  <2>1. ASSUME NEW u \in Threads
        PROVE  /\ Depth(u)' <= 2
               /\ \A i \in 1 .. Depth(u)' : InCall(frames'[u][i])
               /\ Depth(u)' = 2 =>
                    At(frames'[u][1]).does = "upcall" /\ frames'[u][2].call \in DOMAIN Sync
    <3>1. CASE u # t BY <1>6, <3>1 DEF Inv, Framed
    <3>2. CASE u = t
      <4>1. CASE Depth(t) = 0 BY <1>1, <1>4, <1>6, <3>2, <4>1
      <4>2. CASE Depth(t) = 1
        <5>1. Len(fs) = 2 /\ fs[1] = frames[t][1] /\ fs[2] = new BY <1>4, <4>2
        <5>2. InCall(frames[t][1]) BY <4>2 DEF Inv, Framed
        <5>3. new.call = c BY DEF new
        <5> QED BY <1>1, <1>3, <1>6, <3>2, <4>2, <5>1, <5>2, <5>3
      <4> QED BY <1>3, <4>1, <4>2
    <3> QED BY <3>1, <3>2
  <2> QED BY <1>6, <2>1 DEF Framed
<1>8. Held'
  <2>1. UNCHANGED <<owner, sharers>> BY DEF Call, Reenter
  <2>2. ASSUME NEW u \in Threads, NEW i \in 1 .. Depth(u)
        PROVE  i \in 1 .. Depth(u)' /\ frames'[u][i] = frames[u][i]
    BY <1>3, <1>4, <1>6
  <2> QED BY <2>1, <2>2 DEF Inv, Held, Holds, Shares
<1> QED BY <1>7, <1>8 DEF Inv

\* What a step takes, the next row has; what it leaves, is left.
LEMMA AdvanceStep ==
  ASSUME Inv, NEW t \in Threads, Depth(t) > 0, Advance(t),
         NEW on, on = Now(t).on,
         \/ Now(t).does = "take" /\ on \in Locks
            /\ owner[on] = None /\ owner' = [owner EXCEPT ![on] = t] /\ UNCHANGED sharers
         \/ Now(t).does = "leave" /\ on \in Locks
            /\ owner' = [owner EXCEPT ![on] = None] /\ UNCHANGED sharers
         \/ Now(t).does = "share" /\ on \in Locks
            /\ sharers' = [sharers EXCEPT ![on] = @ \cup {t}] /\ UNCHANGED owner
         \/ Now(t).does = "unshare" /\ on \in Locks
            /\ sharers' = [sharers EXCEPT ![on] = @ \ {t}] /\ UNCHANGED owner
         \/ Now(t).does \notin {"leave", "unshare"} /\ UNCHANGED <<owner, sharers>>
  PROVE  Inv'
<1>1. Framed' BY AdvanceFramed DEF Inv
<1>2. /\ owner' \in [Locks -> Threads \cup {None}]
      /\ sharers' \in [Locks -> SUBSET Threads]
  BY DEF Inv, Held
<1>3. \A u \in Threads \ {t} : frames'[u] = frames[u] /\ Depth(u)' = Depth(u)
  BY PastIs, OneMoves DEF Advance, Inv
<1>4. ASSUME NEW u \in Threads, NEW l \in Locks
      PROVE  /\ owner'[l] = u => \E i \in 1 .. Depth(u)' : l \in Holds(frames'[u][i])
             /\ u \in sharers'[l] => \E i \in 1 .. Depth(u)' : l \in Shares(frames'[u][i])
  <2>1. /\ owner[l] = u => \E i \in 1 .. Depth(u) : l \in Holds(frames[u][i])
        /\ u \in sharers[l] => \E i \in 1 .. Depth(u) : l \in Shares(frames[u][i])
    BY DEF Inv, Held
  <2>2. CASE u # t
    <3>1. /\ owner'[l] = u => owner[l] = u
          /\ u \in sharers'[l] => u \in sharers[l]
      BY <2>2, LocksAssumption DEF Inv, Held
    <3> QED BY <1>3, <2>1, <2>2, <3>1
  <2>3. CASE u = t
    <3>1. /\ owner'[l] = t => owner[l] = t \/ (Now(t).does = "take" /\ on = l)
          /\ owner'[l] = t => ~(Now(t).does = "leave" /\ on = l)
          /\ t \in sharers'[l] => t \in sharers[l] \/ (Now(t).does = "share" /\ on = l)
          /\ t \in sharers'[l] => ~(Now(t).does = "unshare" /\ on = l)
      BY LocksAssumption DEF Inv, Held
    <3>2. Framed BY DEF Inv
    <3>3. /\ (\E i \in 1 .. Depth(t) : l \in Holds(frames[t][i])) =>
               (\E i \in 1 .. Depth(t)' : l \in Holds(frames'[t][i]))
               \/ (Now(t).does = "leave" /\ Now(t).on = l)
          /\ (\E i \in 1 .. Depth(t) : l \in Shares(frames[t][i])) =>
               (\E i \in 1 .. Depth(t)' : l \in Shares(frames'[t][i]))
               \/ (Now(t).does = "unshare" /\ Now(t).on = l)
          /\ Now(t).does = "take" /\ Now(t).on = l =>
               \E i \in 1 .. Depth(t)' : l \in Holds(frames'[t][i])
          /\ Now(t).does = "share" /\ Now(t).on = l =>
               \E i \in 1 .. Depth(t)' : l \in Shares(frames'[t][i])
      BY <3>2, AdvanceHeld
    <3> QED BY <2>1, <2>3, <3>1, <3>3
  <2> QED BY <2>2, <2>3
<1>5. Held' BY <1>2, <1>4 DEF Held
<1> QED BY <1>1, <1>5 DEF Inv

\* Every step keeps Inv.
LEMMA InvStep == ASSUME Inv, [Next]_vars PROVE Inv'
<1>1. ASSUME NEW t \in Threads, NEW c \in DOMAIN Steps, Call(t, c) PROVE Inv'
  BY <1>1, BeginStep
<1>2. ASSUME NEW t \in Threads, NEW c \in DOMAIN Sync, Reenter(t, c) PROVE Inv'
  BY <1>2, BeginStep, Calls
<1>3. ASSUME NEW t \in Threads, Depth(t) > 0,
             Now(t).does \in {"take", "leave", "share", "unshare"}
      PROVE  Now(t).on \in Locks
  BY <1>3, Depths, Rows DEF Inv, At, Follows
<1>4. ASSUME NEW t \in Threads, Take(t) PROVE Inv'
  BY <1>3, <1>4, AdvanceStep DEF Take, Doing
<1>5. ASSUME NEW t \in Threads, Drain(t) PROVE Inv'
  BY <1>5, AdvanceStep DEF Drain, Doing
<1>6. ASSUME NEW t \in Threads, Leave(t) PROVE Inv'
  BY <1>3, <1>6, AdvanceStep DEF Leave, Doing
<1>7. ASSUME NEW t \in Threads, Share(t) PROVE Inv'
  BY <1>3, <1>7, AdvanceStep DEF Share, Doing
<1>8. ASSUME NEW t \in Threads, Unshare(t) PROVE Inv'
  BY <1>3, <1>8, AdvanceStep DEF Unshare, Doing
<1>9. ASSUME NEW t \in Threads, Await(t) PROVE Inv'
  BY <1>9, AdvanceStep DEF Await, Doing
<1>10. ASSUME NEW t \in Threads, UpcallReturns(t) PROVE Inv'
  BY <1>10, AdvanceStep DEF UpcallReturns, Doing
<1>11. CASE UNCHANGED vars
  BY <1>11 DEF vars, Inv, Framed, Held, Depth, Holds, Shares, InCall, At
<1> QED BY <1>1, <1>2, <1>4, <1>5, <1>6, <1>7, <1>8, <1>9, <1>10, <1>11 DEF Next

\* Inv holds in every reachable state.
THEOREM InvAlways == Spec => []Inv
BY InitInv, InvStep, PTL DEF Spec

\* The steps of a call are numbered from one.
LEMMA StepsNumbered == \A c \in DOMAIN Steps : DOMAIN Steps[c] = 1 .. Len(Steps[c])
<1> DEFINE P(c) == DOMAIN Steps[c] = 1 .. Len(Steps[c])
<1> SUFFICES \A c \in DOMAIN Steps : P(c) OBVIOUS
<1>1. P("startTUN") BY DEF Steps, StartTun
<1>2. P("stopTun") BY DEF Steps, StopTun
<1>3. P("setEventListener") BY DEF Steps, SetEventListener
<1>4. P("dial") BY DEF Steps, Dial
<1>5. P("applyConfig") BY DEF Steps, ApplyConfig
<1>6. P("sideLoad") BY DEF Steps, SideLoad
<1>7. P("stream") BY DEF Steps, SendMessage
<1>8. P("restartStream") BY DEF Steps, RestartStream
<1>9. P("testGroups") BY DEF Steps, TestGroups
<1>10. P("changeProxy") BY DEF Steps, ChangeProxy
<1>11. P("settings") BY DEF Steps, Settings
<1> HIDE DEF P
<1> QED
  BY ONLY <1>1, <1>2, <1>3, <1>4, <1>5, <1>6, <1>7, <1>8, <1>9, <1>10, <1>11, Calls

\* A thread is in a call, or in one made from an upcall of it; in none, it has left
\* every lock.
THEOREM TypesCorrect == Spec => []TypeOK
<1>1. Inv => TypeOK
  <2> SUFFICES ASSUME Inv PROVE TypeOK OBVIOUS
  <2>1. \A t \in Threads : Depth(t) <= 2 BY DEF Inv, Framed
  <2>2. ASSUME NEW t \in Threads, NEW i \in 1 .. Depth(t)
        PROVE  /\ frames[t][i].call \in DOMAIN Steps
               /\ frames[t][i].at \in DOMAIN Steps[frames[t][i].call]
    <3>1. InCall(frames[t][i]) BY DEF Inv, Framed
    <3>2. /\ frames[t][i].call \in DOMAIN Steps
          /\ frames[t][i].at \in 1 .. Len(Steps[frames[t][i].call])
      BY <3>1 DEF InCall, Frames
    <3> QED BY <3>2, StepsNumbered
  <2>3. ASSUME NEW t \in Threads, frames[t] = <<>>, NEW l \in Locks
        PROVE  owner[l] # t /\ t \notin sharers[l]
    <3>1. Depth(t) = 0 BY <2>3 DEF Depth
    <3> QED BY <3>1 DEF Inv, Held
  <2> QED BY <2>1, <2>2, <2>3 DEF TypeOK, Inv, Held
<1> QED BY InvAlways, <1>1, PTL

-----------------------------------------------------------------------------
(* The order of the locks.                                                 *)

\* Events are sent with no lock held, but a listener may call for the TUN's locks,
\* and so may protect's interface for the listener's: one of the two orders holds
\* unless the app does both.
Rank(l, listenerLast) ==
  CASE l = "streamMu" -> 1
    [] l = "stream" -> 2
    [] l = "eventListenerMu" -> IF listenerLast THEN 8 ELSE 3
    [] l = "tunLock" -> 4
    [] l = "runLock" -> 5
    [] l = "limit" -> 6
    [] l = "pickMu" -> 7

\* How far along the order a thread that waits is: to drain a lock comes after
\* taking it.
Height(s, listenerLast) ==
  2 * Rank(s.on, listenerLast) + (IF s.does \in {"drain", "await"} THEN 1 ELSE 0)

Waits == {"take", "drain", "share", "await"}

\* What a call waits for comes after what it has; with a unit in hand it waits for
\* nothing but its upcall.
Ordered(s, held, shared, i, up) ==
  /\ s[i].does \in Waits =>
       /\ shared[i] = {}
       /\ \A l \in held[i] : Height(s[i], up) > 2 * Rank(l, up)
       /\ Height(s[i], up) \in 1 .. 20 /\ Rank(s[i].on, up) \in 1 .. 8
       /\ IF s[i].does = "await" THEN s[i].on = "stream" ELSE s[i].on \in Locks
  /\ s[i].does = "upcall" =>
       \/ s[i].on = "protect" /\ held[i] \subseteq {"runLock"} /\ shared[i] = {"limit"}
       \/ s[i].on = "onResult" /\ held[i] = {"runLock"} /\ shared[i] = {}
       \/ s[i].on = "onEvent" /\ held[i] = {} /\ shared[i] = {"eventListenerMu"}

\* All steps are ordered, whichever of the two places the listener has.
LEMMA Order ==
  ASSUME NEW up \in BOOLEAN
  PROVE  \A c \in DOMAIN Steps : \A i \in 1 .. Len(Steps[c]) :
           Ordered(Steps[c], HeldAt[c], SharedAt[c], i, up)
<1> USE DEF Ordered, Height, Waits, Rank, HeldAt, SharedAt, Step, Locks
<1> DEFINE P(c) == \A i \in 1 .. Len(Steps[c]) :
                     Ordered(Steps[c], HeldAt[c], SharedAt[c], i, up)
<1> SUFFICES \A c \in DOMAIN Steps : P(c) OBVIOUS
<1>1. P("startTUN") BY DEF Steps, StartTun
<1>2. P("stopTun") BY DEF Steps, StopTun
<1>3. P("setEventListener") BY DEF Steps, SetEventListener
<1>4. P("dial") BY DEF Steps, Dial
<1>5. P("applyConfig") BY DEF Steps, ApplyConfig
<1>6. P("sideLoad") BY DEF Steps, SideLoad
<1>7. P("stream") BY DEF Steps, SendMessage
<1>8. P("restartStream") BY DEF Steps, RestartStream
<1>9. P("testGroups") BY DEF Steps, TestGroups
<1>10. P("changeProxy") BY DEF Steps, ChangeProxy
<1>11. P("settings") BY DEF Steps, Settings
<1> HIDE DEF P
<1> QED
  BY ONLY <1>1, <1>2, <1>3, <1>4, <1>5, <1>6, <1>7, <1>8, <1>9, <1>10, <1>11, Calls

\* What the calls that an upcall may make wait for, and a stream.
LEMMA Reaches ==
  ASSUME NEW up \in BOOLEAN, NEW f, InCall(f)
  PROVE  /\ f.call \in {"startTUN", "stopTun"} /\ At(f).does \in Waits =>
              Height(At(f), FALSE) >= 8
         /\ f.call = "setEventListener" /\ At(f).does \in Waits => Height(At(f), TRUE) >= 16
         /\ f.call = "stream" =>
              /\ At(f).does \in Waits => Height(At(f), up) > 5
              /\ At(f).does = "upcall" => Shares(f) = {"eventListenerMu"}
<1>1. Steps["startTUN"] = StartTun /\ Steps["stopTun"] = StopTun
      /\ Steps["setEventListener"] = SetEventListener /\ Steps["stream"] = SendMessage
      /\ SharedAt["stream"] = <<{}, {"eventListenerMu"}, {"eventListenerMu"}>>
  BY DEF Steps, SharedAt
<1>2. /\ \A j \in 1 .. Len(StartTun) :
           StartTun[j].does \in Waits => Height(StartTun[j], FALSE) >= 8
      /\ \A j \in 1 .. Len(StopTun) :
           StopTun[j].does \in Waits => Height(StopTun[j], FALSE) >= 8
  BY DEF StartTun, StopTun, Step, Waits, Height, Rank
<1>3. \A j \in 1 .. Len(SetEventListener) :
        SetEventListener[j].does \in Waits => Height(SetEventListener[j], TRUE) >= 16
  BY DEF SetEventListener, Step, Waits, Height, Rank
<1>4. \A j \in 1 .. Len(SendMessage) :
        /\ SendMessage[j].does \in Waits => Height(SendMessage[j], up) > 5
        /\ SendMessage[j].does = "upcall" => j = 2
  BY DEF SendMessage, Step, Waits, Height, Rank
<1>5. f.at \in 1 .. Len(Steps[f.call]) /\ At(f) = Steps[f.call][f.at]
      /\ Shares(f) = SharedAt[f.call][f.at]
  BY DEF InCall, At, Shares
<1>6. CASE f.call = "startTUN" BY <1>1, <1>2, <1>5, <1>6
<1>7. CASE f.call = "stopTun" BY <1>1, <1>2, <1>5, <1>7
<1>8. CASE f.call = "setEventListener" BY <1>1, <1>3, <1>5, <1>8
<1>9. CASE f.call = "stream" BY <1>1, <1>4, <1>5, <1>9
<1> QED BY <1>6, <1>7, <1>8, <1>9

\* Whoever is waited for in a circle waits for something further along the order.
LEMMA Climb ==
  ASSUME Inv, NEW S \in SUBSET Threads, Stuck(S), NEW up \in BOOLEAN, NEW t \in S,
         Reentries(S) \cap WaitsForItself = {},
         up => Reentries(S) \cap {<<"onEvent", "startTUN">>, <<"onEvent", "stopTun">>} = {},
         ~up => Reentries(S) \cap {<<"protect", "setEventListener">>,
                                   <<"onResult", "setEventListener">>} = {}
  PROVE  \E u \in S : Height(Now(u), up) > Height(Now(t), up)
<1> DEFINE H(u) == Height(Now(u), up)
           R(l) == Rank(l, up)
<1>1. ASSUME NEW u \in S
      PROVE  /\ u \in Threads /\ WaitsFor(u, S)
             /\ Depth(u) \in {1, 2} /\ Now(u).does \in Waits
             /\ Top(u) = frames[u][Depth(u)] /\ InCall(Top(u))
             /\ Now(u) = At(Top(u))
  <2>1. WaitsFor(u, S) BY DEF Stuck
  <2>2. Depth(u) > 0 /\ Now(u).does \in Waits BY <2>1 DEF WaitsFor, Doing, Waits
  <2> QED BY <2>1, <2>2, Depths DEF Inv
<1>2. ASSUME NEW u \in S
      PROVE  /\ \A l \in Holds(Top(u)) : H(u) > 2 * R(l)
             /\ Shares(Top(u)) = {}
             /\ H(u) \in 1 .. 20 /\ R(Now(u).on) \in 1 .. 8
             /\ IF Now(u).does = "await" THEN Now(u).on = "stream" ELSE Now(u).on \in Locks
  <2> DEFINE c == Top(u).call
             i == Top(u).at
  <2>1. c \in DOMAIN Steps /\ i \in 1 .. Len(Steps[c]) /\ Now(u) = Steps[c][i]
        /\ Holds(Top(u)) = HeldAt[c][i] /\ Shares(Top(u)) = SharedAt[c][i]
    BY <1>1 DEF InCall, Frames, At, Holds, Shares
  <2>2. Ordered(Steps[c], HeldAt[c], SharedAt[c], i, up) BY <2>1, Order
  <2> QED BY <1>1, <2>1, <2>2 DEF Ordered
<1>3. ASSUME NEW u \in S, Depth(u) = 2
      PROVE  /\ \A l \in Holds(frames[u][1]) : H(u) > 2 * R(l)
             /\ \A l \in Shares(frames[u][1]) : H(u) > 2 * R(l) + 1
  <2> DEFINE f == frames[u][1]
             c == Top(u).call
  <2>1. At(f).does = "upcall" /\ c \in DOMAIN Sync /\ InCall(f)
    BY <1>1, <1>3 DEF Inv, Framed
  <2>2. <<At(f).on, c>> \in Reentries(S) BY <1>1, <1>3 DEF Reentries, At, Top
  <2>3. \/ At(f).on = "protect" /\ Holds(f) \subseteq {"runLock"} /\ Shares(f) = {"limit"}
        \/ At(f).on = "onResult" /\ Holds(f) = {"runLock"} /\ Shares(f) = {}
        \/ At(f).on = "onEvent" /\ Holds(f) = {} /\ Shares(f) = {"eventListenerMu"}
    BY <2>1, Order DEF InCall, Frames, At, Ordered, Holds, Shares
  <2>4. c \in {"startTUN", "stopTun", "setEventListener"} BY <2>1, Calls
  <2>5. CASE At(f).on \in {"protect", "onResult"}
    <3>1. c = "setEventListener" /\ up = TRUE
      BY <2>2, <2>4, <2>5 DEF WaitsForItself
    <3>2. H(u) >= 16 BY <1>1, <3>1, Reaches
    <3>3. R("runLock") = 5 /\ R("limit") = 6 BY DEF Rank
    <3>4. H(u) > 2 * 5 /\ H(u) > 2 * 6 + 1 BY <1>2, <3>2
    <3> HIDE DEF H, R
    <3> QED BY <2>3, <2>5, <3>3, <3>4
  <2>6. CASE At(f).on = "onEvent"
    <3>1. c \in {"startTUN", "stopTun"} /\ up = FALSE
      BY <2>2, <2>4, <2>6 DEF WaitsForItself
    <3>2. H(u) >= 8 BY <1>1, <3>1, Reaches
    <3>3. R("eventListenerMu") = 3 BY <3>1 DEF Rank
    <3>4. H(u) > 2 * 3 + 1 BY <1>2, <3>2
    <3> HIDE DEF H, R
    <3> QED BY <2>3, <2>6, <3>3, <3>4
  <2> QED BY <2>3, <2>5, <2>6
<1>4. ASSUME NEW u \in S, NEW l \in Locks
      PROVE  /\ owner[l] = u => H(u) > 2 * R(l)
             /\ u \in sharers[l] => H(u) > 2 * R(l) + 1
  <2> HIDE DEF H, R
  <2>1. CASE Depth(u) = 1 BY <1>1, <1>2, <2>1 DEF Inv, Held
  <2>2. CASE Depth(u) = 2 BY <1>1, <1>2, <1>3, <2>2 DEF Inv, Held
  <2> QED BY <1>1, <2>1, <2>2
<1>5. ASSUME NEW u \in S, u \in Streaming PROVE H(u) > 5
  <2>1. frames[u][1].call = "stream" BY <1>5 DEF Streaming
  <2>2. CASE Depth(u) = 1 BY <1>1, <2>1, <2>2, Reaches
  <2>3. CASE Depth(u) = 2
    <3>1. At(frames[u][1]).does = "upcall" /\ InCall(frames[u][1])
      BY <1>1, <2>3 DEF Inv, Framed
    <3>2. Shares(frames[u][1]) = {"eventListenerMu"} BY <2>1, <3>1, Reaches
    <3>3. R("eventListenerMu") \in {3, 8} BY DEF Rank
    <3>4. H(u) > 2 * R("eventListenerMu") + 1 BY <1>3, <2>3, <3>2
    <3>5. H(u) \in 1 .. 20 BY <1>2
    <3> HIDE DEF H, R
    <3> QED BY <3>3, <3>4, <3>5
  <2> QED BY <1>1, <2>2, <2>3
<1>6. CASE Now(t).does = "await"
  <2>1. PICK u \in S : u \in Streaming BY <1>1, <1>6 DEF WaitsFor, Doing
  <2>2. Height(Now(t), up) = 5 BY <1>2, <1>6 DEF Height, Rank
  <2> QED BY <1>5, <2>1, <2>2
<1>7. CASE Now(t).does = "drain"
  <2>1. PICK u \in S : u \in sharers[Now(t).on] BY <1>1, <1>7 DEF WaitsFor, Doing
  <2>2. Now(t).on \in Locks /\ H(t) = 2 * R(Now(t).on) + 1 BY <1>2, <1>7 DEF Height
  <2> QED BY <1>4, <2>1, <2>2
<1>8. CASE Now(t).does \in {"take", "share"}
  <2>1. Now(t).on \in Locks BY <1>2, <1>8
  <2>2. H(t) = 2 * R(Now(t).on) /\ R(Now(t).on) \in 1 .. 8
    <3>1. Now(t).does \notin {"drain", "await"} BY <1>8
    <3> QED BY <1>2, <3>1 DEF Height
  <2>3. CASE owner[Now(t).on] \in S BY <1>4, <2>1, <2>2, <2>3
  <2>4. CASE UnitsTaken(Now(t).on) /\ sharers[Now(t).on] \subseteq S
    <3>1. sharers[Now(t).on] # {}
      <4>1. Cardinality({}) = 0 BY FS_EmptySet
      <4> QED BY <2>4, <4>1, LocksAssumption DEF UnitsTaken
    <3>2. PICK u \in S : u \in sharers[Now(t).on] BY <2>4, <3>1
    <3>3. H(u) > 2 * R(Now(t).on) + 1 BY <1>4, <2>1, <3>2
    <3>4. H(u) \in 1 .. 20 BY <1>2
    <3>5. H(u) > H(t)
      <4> HIDE DEF H, R
      <4> QED BY <2>2, <3>3, <3>4
    <3> QED BY <3>5
  <2> QED BY <1>1, <1>8, <2>3, <2>4 DEF WaitsFor, Doing
<1> QED BY <1>1, <1>6, <1>7, <1>8 DEF Waits

\* A set of naturals that is not empty has a least member.
LEMMA Least ==
  ASSUME NEW S \in SUBSET Nat, S # {}
  PROVE  \E i \in S : \A j \in S : i <= j
<1>1. PICK i \in S : \A j \in S : <<j, i>> \notin OpToRel(<, Nat)
  BY NatLessThanWellFounded, WFMin
<1>2. \A j \in S : ~(j < i) BY <1>1 DEF OpToRel
<1> QED BY <1>2

\* A thread at the highest place of a circle would wait for nobody.
LEMMA NoCircle ==
  ASSUME Inv, NEW S \in SUBSET Threads, Stuck(S), NEW up \in BOOLEAN,
         Reentries(S) \cap WaitsForItself = {},
         up => Reentries(S) \cap {<<"onEvent", "startTUN">>, <<"onEvent", "stopTun">>} = {},
         ~up => Reentries(S) \cap {<<"protect", "setEventListener">>,
                                   <<"onResult", "setEventListener">>} = {}
  PROVE  FALSE
<1> DEFINE H(u) == Height(Now(u), up)
           below == {20 - H(u) : u \in S}
<1>1. \A t \in S : H(t) \in 1 .. 20
  <2> SUFFICES ASSUME NEW t \in S PROVE H(t) \in 1 .. 20 OBVIOUS
  <2> DEFINE c == Top(t).call
             i == Top(t).at
  <2>1. Depth(t) > 0 /\ Now(t).does \in Waits BY DEF Stuck, WaitsFor, Doing, Waits
  <2>2. c \in DOMAIN Steps /\ i \in 1 .. Len(Steps[c]) /\ Now(t) = Steps[c][i]
    BY <2>1, Depths DEF Inv, At
  <2>3. Ordered(Steps[c], HeldAt[c], SharedAt[c], i, up) BY <2>2, Order
  <2> QED BY <2>1, <2>2, <2>3 DEF Ordered
<1>2. \A t \in S : \E u \in S : H(u) > H(t) BY Climb
<1>3. S # {} BY DEF Stuck
<1> HIDE DEF H
<1>4. below \in SUBSET Nat /\ below # {} BY <1>1, <1>3
<1>5. PICK b \in below : \A j \in below : b <= j BY <1>4, Least
<1>6. PICK t \in S : b = 20 - H(t) OBVIOUS
<1>7. PICK u \in S : H(u) > H(t) BY <1>2
<1>8. 20 - H(u) \in below OBVIOUS
<1> QED BY <1>1, <1>5, <1>6, <1>7, <1>8

\* Whatever calls, dials, events, streams and group tests come together, threads wait
\* for each other in a circle only if the app calls the bridge from inside an upcall
\* in one of the ways of WaitsForItself and Crossed.
THEOREM CirclesNeedReentry == Spec => []StuckOnlyByReentry
<1>1. Inv => StuckOnlyByReentry
  <2> SUFFICES ASSUME Inv, NEW S \in SUBSET Threads, Stuck(S),
                      Reentries(S) \cap WaitsForItself = {}, ~Crossed(Reentries(S))
               PROVE  FALSE
    BY DEF StuckOnlyByReentry
  <2>1. CASE Reentries(S) \cap {<<"onEvent", "startTUN">>, <<"onEvent", "stopTun">>} = {}
    BY <2>1, NoCircle
  <2>2. CASE Reentries(S) \cap {<<"protect", "setEventListener">>,
                                <<"onResult", "setEventListener">>} = {}
    BY <2>2, NoCircle
  <2> QED BY <2>1, <2>2 DEF Crossed
<1> QED BY InvAlways, <1>1, PTL

=============================================================================
