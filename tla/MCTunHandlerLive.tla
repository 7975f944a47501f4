-------------------------- MODULE MCTunHandlerLive --------------------------
(***************************************************************************)
(* The TLC instance of TunHandler for liveness.  Symmetry sets would be    *)
(* unsound here; what they say is said by hand: of the calls of startTUN,  *)
(* First comes first.  The other bounds are on the callers that start a    *)
(* TUN - the others only stop it - and on the threads at work at once.  No *)
(* fair action takes a thread out of "idle", so that the bounds take no    *)
(* step from anybody to whom the fairness promises one.                    *)
(***************************************************************************)
EXTENDS TunHandler

CONSTANTS
  First,     \* the member of Handlers that stands for the first call
  Starters,  \* the callers that call startTUN
  AtOnce     \* how many threads may be at work at once

WithinBounds ==
  /\ ref[First] = "none" => \A h \in Handlers : ref[h] = "none"
  /\ \A c \in Callers \ Starters : arg[c] = None
  /\ Cardinality({t \in Threads : pc[t] # "idle"}) <= AtOnce

LiveSpec == Init /\ [][Next /\ WithinBounds']_vars /\ Fairness

=============================================================================
