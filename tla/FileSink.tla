------------------------------ MODULE FileSink -------------------------------
(***************************************************************************)
(* The log file of log_file.go: dispatchLoop writes lines to it and        *)
(* rotates it, the app moves it (setLogFilePath) and switches it on and    *)
(* off (setFileEnabled), the disk fails, and the process is killed and     *)
(* started again.                                                          *)
(*                                                                         *)
(* A line has 1 to Longest bytes, chosen when it is written.  A byte is    *)
(* its place in the order they are written, and a file the sequence of its *)
(* bytes, so that Len is the size Stat answers.  A flush writes all or     *)
(* nothing, and the buffer is written out as often as it likes (Tick).     *)
(* Everything done under fileSinkMu is one step.  Left out: a Stat of the  *)
(* file just opened that fails, and the crash output (setCrashOutputLocked)*)
(* that a new path brings, which nothing here reads.                       *)
(***************************************************************************)
EXTENDS Naturals, Sequences, FiniteSets

CONSTANTS
  Callers,   \* action goroutines
  Paths,     \* the paths the app may set
  MaxBytes,  \* fileSinkMaxBytes
  MaxCount,  \* fileSinkMaxCount
  Longest,   \* the bytes of the longest line
  MaxWritten,  \* bound: the bytes written in a behaviour
  None       \* nil, no file, the empty path

ASSUME SinkAssumption ==
  /\ MaxBytes \in Nat \ {0} /\ MaxCount \in Nat \ {0, 1}
  /\ Longest \in Nat \ {0} /\ MaxWritten \in Nat
  /\ None \notin Paths /\ None \notin Seq(1 .. MaxWritten)

VARIABLES
  disk,    \* of each path, of each suffix (0 is the file itself): its bytes
  fileSinkPath, fileSize, fileEnabled,
  fileSink,  \* the path it was opened under, None when nil
  buffer,    \* the bytes fileSinkWr has not flushed
  broken,    \* the sticky error of fileSinkWr
  loop,      \* where dispatchLoop is
  pc,        \* where a caller is
  written,   \* how many bytes have been written
  faults,    \* history: "write" and "rename", the kinds that have failed
  kept,      \* history: the rotations that left the file where it was
  refused    \* history: the last open or write failed, and the app has not
             \* asked for the file again nor the process started since

sinkVars == <<fileSink, fileSize, buffer, broken>>
history == <<written, faults, kept, refused>>
vars == <<disk, fileSinkPath, fileEnabled, sinkVars, loop, pc, history>>

Suffixes == 0 .. MaxCount - 1

Init ==
  /\ disk = [p \in Paths |-> [i \in Suffixes |-> None]]
  /\ fileSinkPath = None /\ fileSize = 0 /\ fileEnabled = FALSE
  /\ fileSink = None /\ buffer = <<>> /\ broken = FALSE
  /\ loop = "select"
  /\ pc = [c \in Callers |-> "idle"]
  /\ written = 0 /\ faults = {} /\ kept = 0 /\ refused = FALSE

-----------------------------------------------------------------------------
(* The helpers that run under fileSinkMu.  Each leaves "disk" to its caller. *)

Contents(file) == IF file = None THEN <<>> ELSE file

\* The disk with "file" under the path.
WithFile(d, path, file) == [d EXCEPT ![path] = [@ EXCEPT ![0] = file]]

\* What a flush that succeeds, or not, makes of the disk.
Flushed(d, buf, ok) ==
  IF ok /\ fileSink # None THEN WithFile(d, fileSink, d[fileSink][0] \o buf) ELSE d

\* A write that failed once fails ever after; with no file there is none to fail.
MayFlush(ok) == (broken => ~ok) /\ (fileSink = None => ok)

Closed == fileSink' = None /\ fileSize' = 0 /\ buffer' = <<>> /\ broken' = FALSE

\* closeFileSinkLocked.
CloseFileSink(ok) == disk' = Flushed(disk, buffer, ok) /\ Closed

\* Mutant: the size starts at zero whatever the file holds.
OpenFileSink_SizeZero(path, d) ==
  /\ disk' = WithFile(d, path, Contents(d[path][0]))
  /\ fileSink' = path /\ fileSize' = 0
  /\ buffer' = <<>> /\ broken' = FALSE

\* openFileSinkLocked, on the disk "d": O_CREATE, O_APPEND.
OpenFileSink(path, d) ==
  /\ disk' = WithFile(d, path, Contents(d[path][0]))
  /\ fileSink' = path /\ fileSize' = Len(Contents(d[path][0]))
  /\ buffer' = <<>> /\ broken' = FALSE

\* Mutant: the last file is not shifted, but written over.
Shift_Short(names, stuck) ==
  LET moved == {i \in Suffixes : names[i] # None /\ i \notin stuck /\ i # MaxCount - 2}
  IN [i \in Suffixes |->
        IF i - 1 \in moved THEN names[i - 1]
        ELSE IF i \in moved THEN None ELSE names[i]]

\* Mutant: the file takes the first name that is free, else the last.
Shift_ToFree(names, stuck) ==
  LET free == {i \in Suffixes \ {0} : names[i] = None}
      to == IF free = {} THEN MaxCount - 1 ELSE CHOOSE i \in free : \A j \in free : i <= j
  IN [names EXCEPT ![0] = None, ![to] = names[0]]

\* The renames of rotateFileSinkLocked, last suffix first, the last file removed;
\* those from the suffixes "stuck" are not made.
Shift(names, stuck) ==
  LET moved == {i \in Suffixes : names[i] # None /\ i \notin stuck}
  IN [i \in Suffixes |->
        IF i - 1 \in moved THEN names[i - 1]
        ELSE IF i \in moved THEN None ELSE names[i]]

Shifted(d, stuck) == [d EXCEPT ![fileSinkPath] = Shift(@, stuck)]

-----------------------------------------------------------------------------
(* dispatchLoop: route's gate, writeFileSink, rotateFileSinkLocked, the tick. *)

\* fileEnabled is read here, and fileSinkMu taken after.
PassGate ==
  /\ loop = "select" /\ fileEnabled /\ written + Longest <= MaxWritten
  /\ loop' = "write"
  /\ UNCHANGED <<disk, fileSinkPath, fileEnabled, sinkVars, pc, history>>

FindClosed ==
  /\ loop = "write" /\ fileSink = None
  /\ loop' = "select"
  /\ UNCHANGED <<disk, fileSinkPath, fileEnabled, sinkVars, pc, history>>

\* WriteString fails: the buffer cannot be written out, now or since a flush.
WriteFails ==
  /\ loop = "write" /\ fileSink # None
  /\ Closed
  /\ fileEnabled' = FALSE
  /\ loop' = "select"
  /\ faults' = faults \cup {"write"} /\ refused' = TRUE
  /\ UNCHANGED <<disk, fileSinkPath, pc, written, kept>>

\* WriteString takes a line of n bytes.
CanWrite == loop = "write" /\ fileSink # None /\ ~broken

WithLine(n) == buffer \o [i \in 1 .. n |-> written + i]

WriteLine(n) ==
  /\ CanWrite /\ fileSize + n < MaxBytes
  /\ buffer' = WithLine(n)
  /\ fileSize' = fileSize + n
  /\ written' = written + n
  /\ loop' = "select"
  /\ UNCHANGED <<disk, fileSinkPath, fileEnabled, fileSink, broken, pc, faults, kept, refused>>

\* The size is compared with the line in it, which may be past the limit.
MustRotate(n) == CanWrite /\ fileSize + n >= MaxBytes

\* The disk as a rotation leaves it before it opens the file again.
Rotated(n, ok, stuck) == Shifted(Flushed(disk, WithLine(n), ok), stuck)

\* What a rotation adds to the history; a kill in it is no fault of the disk.
Recorded(n, new, stuck) ==
  /\ written' = written + n
  /\ faults' = faults \cup new
  /\ kept' = IF 0 \in stuck THEN kept + 1 ELSE kept

RotationFaults(ok, stuck) ==
  (IF ok THEN {} ELSE {"write"}) \cup (IF stuck = {} THEN {} ELSE {"rename"})

WriteAndRotate(n, ok, stuck) ==
  /\ MustRotate(n)
  /\ OpenFileSink(fileSinkPath, Rotated(n, ok, stuck))
  /\ Recorded(n, RotationFaults(ok, stuck), stuck)
  /\ loop' = "select"
  /\ UNCHANGED <<fileSinkPath, fileEnabled, pc, refused>>

\* The file cannot be opened again: the gate is closed.
RotateFails(n, ok, stuck) ==
  /\ MustRotate(n)
  /\ disk' = Rotated(n, ok, stuck)
  /\ Closed
  /\ fileEnabled' = FALSE
  /\ Recorded(n, RotationFaults(ok, stuck), stuck) /\ refused' = TRUE
  /\ loop' = "select"
  /\ UNCHANGED <<fileSinkPath, pc>>

\* flushFileSink.
Flush ==
  /\ IF fileSink = None THEN UNCHANGED <<disk, sinkVars, faults>>
     ELSE \E ok \in BOOLEAN :
            /\ MayFlush(ok)
            /\ disk' = Flushed(disk, buffer, ok)
            /\ buffer' = IF ok THEN <<>> ELSE buffer
            /\ broken' = ~ok
            /\ faults' = IF ok THEN faults ELSE faults \cup {"write"}
            /\ UNCHANGED <<fileSink, fileSize>>
  /\ UNCHANGED <<written, kept, refused>>

\* Mutant: the tick flushes only what is switched on.
Tick_IfEnabled ==
  /\ loop = "select" /\ buffer # <<>> /\ fileEnabled
  /\ Flush
  /\ UNCHANGED <<fileSinkPath, fileEnabled, loop, pc>>

\* With nothing in the buffer the tick does nothing.
Tick ==
  /\ loop = "select" /\ buffer # <<>>
  /\ Flush
  /\ UNCHANGED <<fileSinkPath, fileEnabled, loop, pc>>

-----------------------------------------------------------------------------
(* setLogFilePath and setFileEnabled.                                      *)

\* The path that is set already is answered at once.
SetPath(path) ==
  /\ path # fileSinkPath
  /\ \E ok \in BOOLEAN :
       /\ MayFlush(ok)
       /\ fileSinkPath' = path
       /\ IF path = None THEN CloseFileSink(ok) ELSE OpenFileSink(path, Flushed(disk, buffer, ok))
       /\ faults' = IF ok THEN faults ELSE faults \cup {"write"}
  /\ refused' = FALSE
  /\ UNCHANGED <<fileEnabled, loop, pc, written, kept>>

\* No directory or no file: the old path stays set, with its file closed.
SetPathFails(path) ==
  /\ path \notin {fileSinkPath, None}
  /\ \E ok \in BOOLEAN :
       /\ MayFlush(ok) /\ CloseFileSink(ok)
       /\ faults' = IF ok THEN faults ELSE faults \cup {"write"}
  /\ refused' = TRUE
  /\ UNCHANGED <<fileSinkPath, fileEnabled, loop, pc, written, kept>>

SwitchOff(c) ==
  /\ pc[c] = "idle" /\ fileEnabled
  /\ fileEnabled' = FALSE
  /\ pc' = [pc EXCEPT ![c] = "flush"]
  /\ UNCHANGED <<disk, fileSinkPath, sinkVars, loop, history>>

FlushNow(c) ==
  /\ pc[c] = "flush"
  /\ Flush
  /\ pc' = [pc EXCEPT ![c] = "idle"]
  /\ UNCHANGED <<fileSinkPath, fileEnabled, loop>>

\* Mutant: the file is opened again only when the gate was closed with it.
Reopen_IfOff(c) ==
  /\ pc[c] = "idle"
  /\ IF fileSink = None /\ fileSinkPath # None /\ ~fileEnabled
     THEN \/ OpenFileSink(fileSinkPath, disk) /\ refused' = FALSE
          \/ refused' = TRUE /\ UNCHANGED <<disk, sinkVars>>
     ELSE refused' = FALSE /\ UNCHANGED <<disk, sinkVars>>
  /\ pc' = [pc EXCEPT ![c] = "enable"]
  /\ UNCHANGED <<fileSinkPath, fileEnabled, loop, written, faults, kept>>

\* Under the lock a closed file is opened again, if it can be.
Reopen(c) ==
  /\ pc[c] = "idle"
  /\ IF fileSink = None /\ fileSinkPath # None
     THEN \/ OpenFileSink(fileSinkPath, disk) /\ refused' = FALSE
          \/ refused' = TRUE /\ UNCHANGED <<disk, sinkVars>>
     ELSE refused' = FALSE /\ UNCHANGED <<disk, sinkVars>>
  /\ pc' = [pc EXCEPT ![c] = "enable"]
  /\ UNCHANGED <<fileSinkPath, fileEnabled, loop, written, faults, kept>>

\* The gate is opened after the lock is left.
Enable(c) ==
  /\ pc[c] = "enable"
  /\ fileEnabled' = TRUE
  /\ pc' = [pc EXCEPT ![c] = "idle"]
  /\ UNCHANGED <<disk, fileSinkPath, sinkVars, loop, history>>

-----------------------------------------------------------------------------
(* The process is killed; what it wrote stays on the disk.                 *)

Restarted ==
  /\ Closed
  /\ fileSinkPath' = None /\ fileEnabled' = FALSE
  /\ loop' = "select"
  /\ pc' = [c \in Callers |-> "idle"]
  /\ refused' = FALSE

Kill == Restarted /\ UNCHANGED <<disk, written, faults, kept>>

\* In a rotation: the file is written out, the renames made down to suffix k,
\* or none (MaxCount).
KillInRotation(n, k) ==
  /\ MustRotate(n)
  /\ disk' = Rotated(n, TRUE, 0 .. k - 1)
  /\ Recorded(n, {}, 0 .. k - 1)
  /\ Restarted

-----------------------------------------------------------------------------
LoopStep ==
  \/ FindClosed \/ WriteFails
  \/ \E n \in 1 .. Longest :
       \/ WriteLine(n)
       \/ \E ok \in BOOLEAN, stuck \in SUBSET Suffixes :
            WriteAndRotate(n, ok, stuck) \/ RotateFails(n, ok, stuck)

CallerStep(c) == FlushNow(c) \/ Enable(c)

Next ==
  \/ PassGate \/ LoopStep \/ Tick
  \/ \E path \in Paths \cup {None} : SetPath(path) \/ SetPathFails(path)
  \/ \E c \in Callers : SwitchOff(c) \/ Reopen(c) \/ CallerStep(c)
  \/ Kill \/ \E n \in 1 .. Longest, k \in 0 .. MaxCount : KillInRotation(n, k)

Spec == Init /\ [][Next]_vars

\* The loop goes on, and its select does not pass over the tick for ever.
Fairness == WF_vars(LoopStep) /\ SF_vars(Tick)

FairSpec == Spec /\ Fairness

-----------------------------------------------------------------------------
FilesOf(path) == [i \in Suffixes |-> Contents(disk[path][i])]

BytesOf(d, path) ==
  UNION {{Contents(d[path][i])[j] : j \in DOMAIN Contents(d[path][i])} : i \in Suffixes}

\* The files of a path that are full and hold only what is newer than byte b.
FullSince(d, path, b) ==
  {i \in Suffixes :
     LET file == Contents(d[path][i])
     IN Len(file) >= MaxBytes /\ \A m \in DOMAIN file : file[m] > b}

\* What the variables range over.
TypeOK ==
  /\ disk \in [Paths -> [Suffixes -> Seq(1 .. MaxWritten) \cup {None}]]
  /\ fileSinkPath \in Paths \cup {None}
  /\ fileSink \in {fileSinkPath, None}
  /\ fileSize \in Nat /\ fileEnabled \in BOOLEAN /\ broken \in BOOLEAN
  /\ buffer \in Seq(1 .. MaxWritten)
  /\ fileSink = None => buffer = <<>> /\ ~broken
  /\ loop \in {"select", "write"}
  /\ loop = "write" => written + Longest <= MaxWritten
  /\ pc \in [Callers -> {"idle", "flush", "enable"}]
  /\ written \in 0 .. MaxWritten
  /\ faults \in SUBSET {"write", "rename"} /\ kept \in Nat /\ refused \in BOOLEAN

\* Read from the last suffix to the file itself, then the buffer, the bytes of a
\* path come in the order they were written, none twice, whatever renames failed
\* or were cut short by the end of the process.
NewestFirst ==
  \A path \in Paths :
    LET all(i) == FilesOf(path)[i] \o (IF i = 0 /\ fileSink = path THEN buffer ELSE <<>>)
    IN \A i, j \in Suffixes : \A m \in DOMAIN all(i), n \in DOMAIN all(j) :
         (i > j \/ (i = j /\ m < n)) => all(i)[m] < all(j)[n]

\* "5 MB per file" (log_file.go): a file outgrows the limit by less than the line
\* that filled it, and by a line more for each rotation that a failed rename or the
\* end of the process cut short before the file was moved; nothing else adds up,
\* over restarts, moves and failed flushes.
FilesBounded ==
  \A path \in Paths, i \in Suffixes :
    Len(FilesOf(path)[i]) < MaxBytes + (1 + kept) * Longest

\* "5 files total": the log keeps its newest MaxCount - 1 full files.  Unless the
\* disk failed, a byte goes only when that many files are full of newer ones, less
\* one for each rotation that the end of the process cut short.
KeepsRecent ==
  [][\A path \in Paths : \A b \in BytesOf(disk, path) \ BytesOf(disk', path) :
       faults' = {} => Cardinality(FullSince(disk', path, b)) >= MaxCount - 1 - kept']_vars

\* "Disable on write failure" and "best-effort reopen": lines are dropped with a
\* path set only from a failure of the disk until the file is asked for again; no
\* rotation or restart leaves the file closed, nor does switching on, though an
\* earlier attempt failed and the gate was left open.
ClosedOnlyByFailure ==
  fileSink # fileSinkPath => refused

\* "flushes on Close + 500ms tick": no line stays in memory, though the file be
\* switched off, unless a write failed.
BufferIsFlushed == buffer # <<>> ~> (buffer = <<>> \/ broken)

=============================================================================
