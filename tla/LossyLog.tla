------------------------------ MODULE LossyLog -------------------------------
(***************************************************************************)
(* What the log bus of log_bridge.go promises the goroutines that log and  *)
(* the reader of the log: a send never waits; events come out in the order *)
(* they were accepted; only the oldest pending event, or a newcomer, is    *)
(* given up, and each one given up is owed an announcement.                *)
(***************************************************************************)
EXTENDS Naturals, Sequences

CONSTANTS
  Events,
  Capacity  \* dispatchCapacity

VARIABLES
  pending,    \* the events accepted, oldest first
  delivered,  \* those handed to the sinks, in order
  owed,       \* how many were given up and not announced yet
  announced   \* how many were announced

vars == <<pending, delivered, owed, announced>>

Init == pending = <<>> /\ delivered = <<>> /\ owed = 0 /\ announced = 0

Accept(e) ==
  /\ Len(pending) < Capacity
  /\ pending' = Append(pending, e)
  /\ UNCHANGED <<delivered, owed, announced>>

DropOldest ==
  /\ pending # <<>>
  /\ pending' = Tail(pending)
  /\ owed' = owed + 1
  /\ UNCHANGED <<delivered, announced>>

DropNewcomer ==
  /\ owed' = owed + 1
  /\ UNCHANGED <<pending, delivered, announced>>

Deliver ==
  /\ pending # <<>>
  /\ delivered' = Append(delivered, Head(pending))
  /\ pending' = Tail(pending)
  /\ UNCHANGED <<owed, announced>>

\* Some of what is owed may be too fresh for this announcement.
Announce(n) ==
  /\ n \in 1 .. owed
  /\ owed' = owed - n
  /\ announced' = announced + n
  /\ UNCHANGED <<pending, delivered>>

Next ==
  \/ \E e \in Events : Accept(e)
  \/ DropOldest \/ DropNewcomer \/ Deliver
  \/ \E n \in 1 .. owed : Announce(n)

Spec == Init /\ [][Next]_vars

=============================================================================
