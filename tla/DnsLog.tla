------------------------------- MODULE DnsLog --------------------------------
(***************************************************************************)
(* The recorder of DNS queries (dnsquery.go): a ring buffer behind a       *)
(* mutex, and a service that wraps mihomo's resolver and adds each query   *)
(* to it when the answer comes back.  executor.ApplyConfig replaces the    *)
(* service, so Install wraps it again after every apply; a query keeps the *)
(* service it was put to, whatever is installed by the time it returns.    *)
(***************************************************************************)
EXTENDS Integers, Sequences

CONSTANTS
  Queries,      \* queries put to mihomo's resolver (bounds a behaviour)
  LogCapacity,  \* of the log
  Nil           \* a slot of the log that holds no query; no service

ASSUME LogCapacityAssumption == LogCapacity \in Nat \ {0}
ASSUME NilAssumption == Nil \notin Queries \cup Nat

VARIABLES
  entries, next, full,  \* the Log
  service,   \* resolver.DefaultService: Nil, or the recorders around it
  applying,  \* executor.ApplyConfig has run and Install not yet
  state,     \* of each query: new, asked, answered
  layers,    \* the recorders it has still to return through
  due,       \* history: it has a question, and was put outside an apply
  recorded   \* history: how often it was added to the log

logVars   == <<entries, next, full>>
queryVars == <<state, layers, due, recorded>>
dnsVars == <<logVars, service, applying, queryVars>>

Slots == 0 .. LogCapacity - 1

DnsInit ==
  /\ entries = [s \in Slots |-> Nil]
  /\ next = 0 /\ full = FALSE
  /\ service = Nil /\ applying = FALSE
  /\ state = [q \in Queries |-> "new"]
  /\ layers = [q \in Queries |-> 0]
  /\ due = [q \in Queries |-> FALSE]
  /\ recorded = [q \in Queries |-> 0]

-----------------------------------------------------------------------------
\* Mutant: the log counts as full one entry too early.
Add_FullEarly(q) ==
  /\ entries' = [entries EXCEPT ![next] = q]
  /\ next' = (next + 1) % LogCapacity
  /\ full' = (full \/ next' = LogCapacity - 1)

\* Mutant: next runs past the end of the buffer.
Add_NoWrap(q) ==
  /\ entries' = [entries EXCEPT ![next] = q]
  /\ next' = next + 1
  /\ full' = (full \/ next' = LogCapacity)

Add(q) ==
  /\ entries' = [entries EXCEPT ![next] = q]
  /\ next' = (next + 1) % LogCapacity
  /\ full' = (full \/ next' = 0)

Snapshot ==
  [i \in 1 .. (IF full THEN LogCapacity ELSE next) |->
     entries[(next - i + LogCapacity) % LogCapacity]]

Clear ==
  /\ entries' = [s \in Slots |-> Nil]
  /\ next' = 0
  /\ full' = FALSE
  /\ UNCHANGED <<service, applying, queryVars>>

-----------------------------------------------------------------------------
\* executor.ApplyConfig: a configuration without DNS has no service, any other
\* a new one; Install is written for one left in place as well.
ReplaceService ==
  /\ ~applying
  /\ applying' = TRUE
  /\ service' \in {Nil, 0, service}
  /\ UNCHANGED <<logVars, queryVars>>

\* Mutant: the recorder is put around a recorder.
Install_Always ==
  /\ applying
  /\ applying' = FALSE
  /\ service' = IF service = Nil THEN Nil ELSE service + 1
  /\ UNCHANGED <<logVars, queryVars>>

Install ==
  /\ applying
  /\ applying' = FALSE
  /\ service' = IF service = 0 THEN 1 ELSE service
  /\ UNCHANGED <<logVars, queryVars>>

\* A message without a question passes through the recorder unrecorded.
Ask(q) ==
  /\ state[q] = "new" /\ service # Nil
  /\ \E question \in BOOLEAN :
       /\ layers' = [layers EXCEPT ![q] = IF question THEN service ELSE 0]
       /\ due' = [due EXCEPT ![q] = question /\ ~applying]
  /\ state' = [state EXCEPT ![q] = "asked"]
  /\ UNCHANGED <<logVars, service, applying, recorded>>

Record(q) ==
  /\ state[q] = "asked" /\ layers[q] > 0
  /\ Add(q)
  /\ layers' = [layers EXCEPT ![q] = @ - 1]
  /\ recorded' = [recorded EXCEPT ![q] = @ + 1]
  /\ UNCHANGED <<service, applying, state, due>>

Return(q) ==
  /\ state[q] = "asked" /\ layers[q] = 0
  /\ state' = [state EXCEPT ![q] = "answered"]
  /\ UNCHANGED <<logVars, service, applying, layers, due, recorded>>

DnsNext ==
  \/ Clear \/ ReplaceService \/ Install
  \/ \E q \in Queries : Ask(q) \/ Record(q) \/ Return(q)

DnsSpec == DnsInit /\ [][DnsNext]_dnsVars

-----------------------------------------------------------------------------
DnsTypeOK ==
  /\ entries \in [Slots -> Queries \cup {Nil}]
  /\ next \in Slots
  /\ full \in BOOLEAN /\ applying \in BOOLEAN
  /\ service \in Nat \cup {Nil}
  /\ state \in [Queries -> {"new", "asked", "answered"}]
  /\ layers \in [Queries -> Nat]
  /\ due \in [Queries -> BOOLEAN]
  /\ recorded \in [Queries -> Nat]

\* "Install wraps the current DNS service; executor.ApplyConfig replaces it, so
\* call this after every apply" (dnsquery.go): a query answered was recorded
\* once and no more, unless it had no question or was put during an apply -
\* through any number of applies, with queries in flight across them.
RecordedOnce ==
  \A q \in Queries :
    /\ recorded[q] <= 1
    /\ state[q] = "answered" /\ due[q] => recorded[q] = 1

\* The ring buffer is the history the app is promised: what Snapshot returns is
\* the last LogCapacity additions since the last Clear, newest first.
History == INSTANCE DnsHistory WITH history <- Snapshot, Capacity <- LogCapacity

KeepsHistory == History!Spec

=============================================================================
