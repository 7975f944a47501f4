----------------------------- MODULE DnsHistory ------------------------------
(***************************************************************************)
(* What the DNS query history promises the app (getDnsQueries and          *)
(* clearDnsQueries): the last Capacity queries, newest first.              *)
(***************************************************************************)
EXTENDS Naturals, Sequences

CONSTANTS Queries, Capacity

VARIABLE history

\* q put before s, of which the oldest gives way when there is no room.
Push(q, s) ==
  [i \in 1 .. (IF Len(s) < Capacity THEN Len(s) + 1 ELSE Capacity) |->
     IF i = 1 THEN q ELSE s[i - 1]]

Init == history = <<>>

Record(q) == history' = Push(q, history)

Forget == history' = <<>>

Next == Forget \/ \E q \in Queries : Record(q)

Spec == Init /\ [][Next]_history

=============================================================================
