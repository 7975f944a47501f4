--------------------------- MODULE FileSinkProofs ----------------------------
(***************************************************************************)
(* Proofs about FileSink, for any paths and callers, any length of lines,  *)
(* any size and number of files.  The inductive invariant, Inv, joins to   *)
(* the types and to ClosedOnlyByFailure                                    *)
(*                                                                         *)
(*   - Opened: the file that is open is on the disk, and fileSize is what  *)
(*     it holds together with the buffer;                                  *)
(*   - Sorted: every path has its bytes in order, buffer included, and     *)
(*     none of them is yet to be written;                                  *)
(*   - Sizes: the file written to is below the limit, the others pass it   *)
(*     by less than a line, and both by a line more for each rotation that *)
(*     left the file in its place;                                         *)
(*   - Filled: with no fault of the disk, every file but the one written   *)
(*     to is full, and no more files are missing below one that is there   *)
(*     than rotations were cut short.                                      *)
(***************************************************************************)
EXTENDS FileSink, SequenceTheorems, FiniteSetTheorems, TLAPS

Bytes == Seq(1 .. MaxWritten)
Disks == [Paths -> [Suffixes -> Bytes \cup {None}]]

Opened ==
  fileSink # None =>
    /\ disk[fileSink][0] # None
    /\ fileSize = Len(disk[fileSink][0]) + Len(buffer)

\* The bytes of a path, file by file, and what the buffer adds to the first.
WholeOf(d, open, buf, path) ==
  [i \in Suffixes |->
     Contents(d[path][i]) \o (IF i = 0 /\ open = path THEN buf ELSE <<>>)]

Whole(path) == WholeOf(disk, fileSink, buffer, path)

Ordered(f) ==
  \A i, j \in Suffixes : \A m \in 1 .. Len(f[i]), n \in 1 .. Len(f[j]) :
    (i > j \/ (i = j /\ m < n)) => f[i][m] < f[j][n]

\* No byte of f is newer than l.
UpTo(f, l) == \A i \in Suffixes : \A m \in 1 .. Len(f[i]) : f[i][m] <= l

Sorted ==
  \A path \in Paths :
    /\ Ordered(Whole(path))
    /\ UpTo(Whole(path), written)

\* The files written to have less than "room" bytes, the others less than a line more.
ShortFiles(d, room) ==
  /\ \A path \in Paths, i \in Suffixes : Len(Contents(d[path][i])) < room + Longest
  /\ \A path \in Paths : Len(Contents(d[path][0])) < room

ShortSink(d, open, size, room) == ShortFiles(d, room) /\ (open # None => size < room)

Short(room) == ShortSink(disk, fileSink, fileSize, room)

Sizes == Short(MaxBytes + kept * Longest)

\* The suffixes below i that have no file, but for the file itself.
Gaps(names, i) == {j \in 1 .. i - 1 : names[j] = None}

\* Unless the disk failed, the files are full and few are missing in between.
Filled ==
  faults = {} =>
    \A path \in Paths, i \in Suffixes : i # 0 /\ disk[path][i] # None =>
      /\ Len(disk[path][i]) >= MaxBytes
      /\ Cardinality(Gaps(disk[path], i)) <= kept

Inv == TypeOK /\ Opened /\ ClosedOnlyByFailure /\ Sorted /\ Sizes /\ Filled

-----------------------------------------------------------------------------
(* What the helpers make of the disk.                                      *)

\* The file itself is one of the suffixes, and not the last.
LEMMA SuffixZero == 0 \in Suffixes /\ 1 \in Suffixes /\ Suffixes \subseteq Nat
BY SinkAssumption DEF Suffixes

\* The bytes read from a path, a missing file included.
LEMMA FileRead ==
  ASSUME NEW d \in Disks
  PROVE  \A p \in Paths, i \in Suffixes :
           /\ d[p][i] \in Bytes \cup {None}
           /\ Contents(d[p][i]) \in Bytes
<1>1. \A p \in Paths, i \in Suffixes : d[p][i] \in Bytes \cup {None} BY DEF Disks
<1>2. \A file \in Bytes \cup {None} : Contents(file) \in Bytes
  <2>1. <<>> \in Bytes BY DEF Bytes
  <2> QED BY <2>1 DEF Contents
<1> QED BY <1>1, <1>2

\* The bytes of the line in hand.
Line(n) == [i \in 1 .. n |-> written + i]

\* They are n bytes yet to be written, and come to what the buffer holds.
LEMMA LineInHand ==
  ASSUME TypeOK, CanWrite, NEW n \in 1 .. Longest
  PROVE  /\ fileSink = fileSinkPath /\ fileSink \in Paths
         /\ n \in Nat \ {0} /\ written \in Nat /\ written + n \in 0 .. MaxWritten
         /\ Line(n) \in Bytes /\ Len(Line(n)) = n
         /\ \A i \in 1 .. n : Line(n)[i] = written + i
         /\ buffer \in Bytes /\ WithLine(n) = buffer \o Line(n)
         /\ WithLine(n) \in Bytes /\ Len(WithLine(n)) = Len(buffer) + n
<1>1. /\ fileSink = fileSinkPath /\ fileSink \in Paths /\ buffer \in Bytes
      /\ n \in Nat \ {0} /\ n <= Longest /\ Longest \in Nat /\ MaxWritten \in Nat
      /\ written \in Nat /\ written + Longest <= MaxWritten
  BY SinkAssumption DEF TypeOK, CanWrite, Bytes
<1>2. written + n \in 0 .. MaxWritten BY <1>1
<1>3. \A i \in 1 .. n : written + i \in 1 .. MaxWritten BY <1>1
<1>4. Line(n) \in [1 .. n -> 1 .. MaxWritten] BY <1>3 DEF Line
<1>5. Line(n) \in Bytes /\ Len(Line(n)) = n BY <1>1, <1>4 DEF Bytes
<1>6. \A i \in 1 .. n : Line(n)[i] = written + i BY DEF Line
<1>7. WithLine(n) = buffer \o Line(n) BY DEF WithLine, Line
<1> HIDE DEF Line
<1>8. \A s, t \in Bytes : s \o t \in Bytes /\ Len(s \o t) = Len(s) + Len(t) BY DEF Bytes
<1>9. WithLine(n) \in Bytes /\ Len(WithLine(n)) = Len(buffer) + n
  BY <1>1, <1>5, <1>7, <1>8
<1> QED BY <1>1, <1>2, <1>5, <1>6, <1>7, <1>9

\* To put a line after two sequences put together is to put it after the second.
LEMMA LineAfter ==
  ASSUME TypeOK, CanWrite, NEW n \in 1 .. Longest, NEW s \in Bytes
  PROVE  (s \o buffer) \o Line(n) = s \o WithLine(n)
<1>1. buffer \in Bytes /\ Line(n) \in Bytes /\ WithLine(n) = buffer \o Line(n) BY LineInHand
<1> HIDE DEF Line
<1>2. (s \o buffer) \o Line(n) = s \o (buffer \o Line(n))
  BY <1>1, ConcatAssociative DEF Bytes
<1> QED BY <1>1, <1>2

\* A file is put under one path, and the rest of the disk is left alone.
LEMMA WithFileAt ==
  ASSUME NEW d \in Disks, NEW path \in Paths, NEW file \in Bytes \cup {None}
  PROVE  /\ WithFile(d, path, file) \in Disks
         /\ \A p \in Paths, i \in Suffixes :
              WithFile(d, path, file)[p][i] = IF p = path /\ i = 0 THEN file ELSE d[p][i]
<1> DEFINE names == d[path]
           after == [names EXCEPT ![0] = file]
           w == WithFile(d, path, file)
<1>1. names \in [Suffixes -> Bytes \cup {None}] BY DEF Disks
<1>2. w = [d EXCEPT ![path] = after] BY DEF WithFile
<1>3. after \in [Suffixes -> Bytes \cup {None}] BY <1>1, SuffixZero
<1>4. \A i \in Suffixes : after[i] = IF i = 0 THEN file ELSE names[i] BY <1>1
<1> HIDE DEF after, w
<1>5. w \in Disks BY <1>2, <1>3 DEF Disks
<1>6. \A p \in Paths : w[p] = IF p = path THEN after ELSE d[p] BY <1>2 DEF Disks
<1>7. \A p \in Paths, i \in Suffixes : w[p][i] = IF p = path /\ i = 0 THEN file ELSE d[p][i]
  BY <1>4, <1>6
<1> QED BY <1>5, <1>7 DEF w

\* A flush adds the buffer to the file that is open, or nothing.
LEMMA FlushedAt ==
  ASSUME TypeOK, Opened, NEW buf \in Bytes, NEW ok \in BOOLEAN
  PROVE  LET d == Flushed(disk, buf, ok) IN
         /\ d \in Disks
         /\ \A p \in Paths, i \in Suffixes :
              d[p][i] = IF ok /\ p = fileSink /\ i = 0 THEN disk[p][i] \o buf ELSE disk[p][i]
<1> DEFINE d == Flushed(disk, buf, ok)
<1>1. disk \in Disks /\ fileSink \in Paths \cup {None} BY DEF TypeOK, Disks, Bytes
<1>2. CASE ok /\ fileSink # None
  <2>1. fileSink \in Paths /\ disk[fileSink] \in [Suffixes -> Bytes \cup {None}]
    BY <1>1, <1>2 DEF Disks
  <2>2. disk[fileSink][0] \in Bytes BY <1>2, <2>1, SuffixZero DEF Opened
  <2>3. disk[fileSink][0] \o buf \in Bytes BY <2>2 DEF Bytes
  <2>4. d = WithFile(disk, fileSink, disk[fileSink][0] \o buf) BY <1>2 DEF Flushed
  <2> HIDE DEF d
  <2>5. /\ d \in Disks
        /\ \A p \in Paths, i \in Suffixes :
             d[p][i] = IF p = fileSink /\ i = 0 THEN disk[fileSink][0] \o buf ELSE disk[p][i]
    BY <1>1, <2>1, <2>3, <2>4, WithFileAt
  <2> QED BY <1>2, <2>5 DEF d
<1>3. CASE ~(ok /\ fileSink # None)
  <2>1. d = disk BY <1>3 DEF Flushed
  <2>2. \A p \in Paths : ~(ok /\ p = fileSink) BY <1>3, SinkAssumption
  <2> QED BY <1>1, <2>1, <2>2
<1> QED BY <1>2, <1>3

\* Opening a file makes it, if it was not there.
LEMMA OpenedAt ==
  ASSUME NEW d \in Disks, NEW path \in Paths, OpenFileSink(path, d)
  PROVE  /\ disk' \in Disks
         /\ \A p \in Paths, i \in Suffixes :
              /\ disk'[p][i] = IF p = path /\ i = 0 THEN Contents(d[p][i]) ELSE d[p][i]
              /\ Contents(disk'[p][i]) = Contents(d[p][i])
         /\ disk'[path][0] \in Bytes /\ disk'[path][0] # None
<1>1. d[path] \in [Suffixes -> Bytes \cup {None}] BY DEF Disks
<1>2. Contents(d[path][0]) \in Bytes BY FileRead, SuffixZero
<1>3. disk' = WithFile(d, path, Contents(d[path][0])) BY DEF OpenFileSink
<1>4. /\ disk' \in Disks
      /\ \A p \in Paths, i \in Suffixes :
           disk'[p][i] = IF p = path /\ i = 0 THEN Contents(d[p][i]) ELSE d[p][i]
  BY <1>2, <1>3, WithFileAt
<1>5. None \notin Bytes BY SinkAssumption DEF Bytes
<1>6. disk'[path][0] \in Bytes /\ disk'[path][0] # None BY <1>2, <1>4, <1>5, SuffixZero
<1>7. \A x : Contents(Contents(x)) = Contents(x) BY DEF Contents
<1> QED BY <1>4, <1>6, <1>7

\* The renames of a rotation move a file to the next suffix, or leave it.
LEMMA ShiftedAt ==
  ASSUME NEW d \in Disks, fileSinkPath \in Paths, NEW stuck \in SUBSET Suffixes
  PROVE  LET names == d[fileSinkPath]
             moved == {i \in Suffixes : names[i] # None /\ i \notin stuck}
             s     == Shifted(d, stuck)
         IN /\ s \in Disks
            /\ \A p \in Paths, i \in Suffixes :
                 s[p][i] = IF p # fileSinkPath THEN d[p][i]
                           ELSE IF i - 1 \in moved THEN names[i - 1]
                           ELSE IF i \in moved THEN None ELSE names[i]
<1> DEFINE names == d[fileSinkPath]
           moved == {i \in Suffixes : names[i] # None /\ i \notin stuck}
           s     == Shifted(d, stuck)
<1>1. names \in [Suffixes -> Bytes \cup {None}] BY DEF Disks
<1>2. Shift(names, stuck) =
        [i \in Suffixes |-> IF i - 1 \in moved THEN names[i - 1]
                            ELSE IF i \in moved THEN None ELSE names[i]]
  BY DEF Shift
<1>3. Shift(names, stuck) \in [Suffixes -> Bytes \cup {None}] BY <1>1, <1>2
<1>4. s = [d EXCEPT ![fileSinkPath] = Shift(names, stuck)] BY DEF Shifted
<1>5. s \in Disks BY <1>3, <1>4 DEF Disks
<1>6. \A p \in Paths : s[p] = IF p = fileSinkPath THEN Shift(names, stuck) ELSE d[p]
  BY <1>4 DEF Disks
<1> HIDE DEF s, names
<1>7. \A p \in Paths, i \in Suffixes :
        s[p][i] = IF p # fileSinkPath THEN d[p][i]
                  ELSE IF i - 1 \in moved THEN names[i - 1]
                  ELSE IF i \in moved THEN None ELSE names[i]
  BY <1>2, <1>6
<1> QED BY <1>5, <1>7 DEF s, names

-----------------------------------------------------------------------------
(* The order of the bytes, for any files f.                                *)

Files == [Suffixes -> Bytes]

\* Each file of g is the first bytes of that of f.
Kept(g, f) ==
  \A i \in Suffixes :
    /\ Len(g[i]) <= Len(f[i])
    /\ \A m \in 1 .. Len(g[i]) : g[i][m] = f[i][m]

\* The files of g are the first bytes of files of f, in the same order.
Within(g, f) ==
  \E src \in [Suffixes -> Suffixes] :
    /\ \A i \in Suffixes : g[i] # <<>> =>
         /\ Len(g[i]) <= Len(f[src[i]])
         /\ \A m \in 1 .. Len(g[i]) : g[i][m] = f[src[i]][m]
    /\ \A i, j \in Suffixes :
         i > j /\ g[i] # <<>> /\ g[j] # <<>> => src[i] > src[j]

\* The files with the line in hand at the end of the first.
Longer(f, n) == [f EXCEPT ![0] = @ \o Line(n)]

\* What is within files in order is in order, and no newer.
LEMMA WithinOrdered ==
  ASSUME NEW f \in Files, NEW g \in Files, Within(g, f), NEW l \in Nat
  PROVE  /\ Ordered(f) => Ordered(g)
         /\ UpTo(f, l) => UpTo(g, l)
<1>1. PICK src \in [Suffixes -> Suffixes] :
        /\ \A i \in Suffixes : g[i] # <<>> =>
             /\ Len(g[i]) <= Len(f[src[i]])
             /\ \A m \in 1 .. Len(g[i]) : g[i][m] = f[src[i]][m]
        /\ \A i, j \in Suffixes :
             i > j /\ g[i] # <<>> /\ g[j] # <<>> => src[i] > src[j]
  BY DEF Within
<1>2. \A i \in Suffixes : src[i] \in Suffixes /\ Len(g[i]) \in Nat /\ Len(f[src[i]]) \in Nat
  BY DEF Files, Bytes
<1>3. \A i \in Suffixes : \A m \in 1 .. Len(g[i]) :
        g[i] # <<>> /\ m \in 1 .. Len(f[src[i]]) /\ g[i][m] = f[src[i]][m]
  <2> SUFFICES ASSUME NEW i \in Suffixes, NEW m \in 1 .. Len(g[i])
               PROVE  g[i] # <<>> /\ m \in 1 .. Len(f[src[i]]) /\ g[i][m] = f[src[i]][m]
    OBVIOUS
  <2>1. g[i] # <<>> BY <1>2
  <2> QED BY <1>1, <1>2, <2>1
<1>4. ASSUME Ordered(f) PROVE Ordered(g)
  <2> SUFFICES ASSUME NEW i \in Suffixes, NEW j \in Suffixes,
                      NEW m \in 1 .. Len(g[i]), NEW n \in 1 .. Len(g[j]),
                      i > j \/ (i = j /\ m < n)
               PROVE  g[i][m] < g[j][n]
    BY DEF Ordered
  <2>1. g[i] # <<>> /\ m \in 1 .. Len(f[src[i]]) /\ g[i][m] = f[src[i]][m] BY <1>3
  <2>2. g[j] # <<>> /\ n \in 1 .. Len(f[src[j]]) /\ g[j][n] = f[src[j]][n] BY <1>3
  <2>3. src[i] > src[j] \/ (src[i] = src[j] /\ m < n) BY <1>1, <2>1, <2>2
  <2> QED BY <1>2, <1>4, <2>1, <2>2, <2>3 DEF Ordered
<1>5. ASSUME UpTo(f, l) PROVE UpTo(g, l)
  BY <1>2, <1>3, <1>5 DEF UpTo
<1> QED BY <1>4, <1>5

\* A byte is a number.
LEMMA ByteNumbers ==
  ASSUME NEW f \in Files, NEW i \in Suffixes, NEW m \in 1 .. Len(f[i])
  PROVE  f[i][m] \in Nat
<1>1. f[i] \in Seq(1 .. MaxWritten) BY DEF Files, Bytes
<1>2. f[i][m] \in 1 .. MaxWritten BY <1>1, ElementOfSeq
<1> QED BY <1>2

\* What is kept of some files is within them.
LEMMA KeptWithin ==
  ASSUME NEW f, NEW g, Kept(g, f)
  PROVE  Within(g, f)
<1> DEFINE src == [i \in Suffixes |-> i]
<1>1. src \in [Suffixes -> Suffixes] /\ \A i \in Suffixes : src[i] = i OBVIOUS
<1> HIDE DEF src
<1> QED BY <1>1 DEF Within, Kept

\* A later bound holds as well.
LEMMA UpToMore ==
  ASSUME NEW f \in Files, NEW l \in Nat, NEW n \in Nat, l <= n, UpTo(f, l)
  PROVE  UpTo(f, n)
<1>1. \A i \in Suffixes : \A m \in 1 .. Len(f[i]) : f[i][m] \in Nat /\ f[i][m] <= l
  BY ByteNumbers DEF UpTo
<1> QED BY <1>1 DEF UpTo

\* Files in order stay in order when the line in hand comes to the first.
LEMMA LongerOrdered ==
  ASSUME TypeOK, CanWrite, NEW n \in 1 .. Longest,
         NEW f \in Files, Ordered(f), UpTo(f, written)
  PROVE  /\ Longer(f, n) \in Files
         /\ Ordered(Longer(f, n)) /\ UpTo(Longer(f, n), written + n)
<1> DEFINE g == Longer(f, n)
           file == f[0] \o Line(n)
<1>1. f[0] \in Bytes BY SuffixZero DEF Files
<1>2. /\ n \in Nat /\ written \in Nat /\ Line(n) \in Bytes /\ Len(Line(n)) = n
      /\ \A i \in 1 .. n : Line(n)[i] = written + i
  BY LineInHand
<1> HIDE DEF Line
<1>3. file \in Bytes BY <1>1, <1>2 DEF Bytes
<1>4. g \in Files BY <1>3, SuffixZero DEF Files, Longer
<1>5. \A i \in Suffixes : g[i] = IF i = 0 THEN file ELSE f[i]
  BY DEF Files, Longer
<1>6. Len(file) = Len(f[0]) + n /\ Len(f[0]) \in Nat
  <2>1. \A a, b \in Bytes : Len(a \o b) = Len(a) + Len(b) /\ Len(a) \in Nat BY DEF Bytes
  <2> QED BY <1>1, <1>2, <2>1
<1>7. \A m \in 1 .. Len(file) :
        file[m] = IF m <= Len(f[0]) THEN f[0][m] ELSE Line(n)[m - Len(f[0])]
  BY <1>1, <1>2 DEF Bytes
<1> HIDE DEF g, file
\* A byte of the line in hand stands at the end of the file, and is newer than f.
<1>8. ASSUME NEW i \in Suffixes, NEW m \in 1 .. Len(g[i])
      PROVE  \/ m \in 1 .. Len(f[i]) /\ g[i][m] = f[i][m]
             \/ /\ i = 0 /\ m > Len(f[0]) /\ m - Len(f[0]) \in 1 .. n
                /\ g[i][m] = written + (m - Len(f[0]))
  <2>1. CASE i = 0 /\ m <= Len(f[0]) BY <1>5, <1>6, <1>7, <2>1
  <2>2. CASE i = 0 /\ m > Len(f[0])
    <3>1. g[i] = file /\ m <= Len(f[0]) + n BY <1>5, <1>6, <2>2
    <3>2. m - Len(f[0]) \in 1 .. n BY <1>2, <1>6, <2>2, <3>1
    <3>3. file[m] = Line(n)[m - Len(f[0])] BY <1>6, <1>7, <2>2, <3>1
    <3>4. Line(n)[m - Len(f[0])] = written + (m - Len(f[0])) BY <1>2, <3>2
    <3> QED BY <2>2, <3>1, <3>2, <3>3, <3>4
  <2>3. CASE i # 0 BY <1>5, <2>3
  <2> QED BY <1>6, <2>1, <2>2, <2>3
<1>9. \A i \in Suffixes : \A m \in 1 .. Len(f[i]) : f[i][m] \in Nat /\ f[i][m] <= written
  <2>1. \A i \in Suffixes : \A m \in 1 .. Len(f[i]) : f[i][m] \in Nat BY ByteNumbers
  <2> QED BY <2>1 DEF UpTo
<1>10. Ordered(g)
  <2> SUFFICES ASSUME NEW i \in Suffixes, NEW j \in Suffixes,
                      NEW m \in 1 .. Len(g[i]), NEW k \in 1 .. Len(g[j]),
                      i > j \/ (i = j /\ m < k)
               PROVE  g[i][m] < g[j][k]
    BY DEF Ordered
  <2>1. CASE m \in 1 .. Len(f[i]) /\ g[i][m] = f[i][m]
    <3>1. CASE k \in 1 .. Len(f[j]) /\ g[j][k] = f[j][k] BY <2>1, <3>1 DEF Ordered
    <3>2. CASE k - Len(f[0]) \in 1 .. n /\ g[j][k] = written + (k - Len(f[0]))
      <4>1. g[i][m] \in Nat /\ g[i][m] <= written BY <1>9, <2>1
      <4>2. \A a, b \in Nat : \A c \in 1 .. n : a <= b => a < b + c BY <1>2
      <4> QED BY <1>2, <3>2, <4>1, <4>2
    <3> QED BY <1>8, <3>1, <3>2
  <2>2. CASE i = 0 /\ m > Len(f[0]) /\ g[i][m] = written + (m - Len(f[0]))
    <3>1. j = 0 /\ m < k BY <2>2, SuffixZero DEF Suffixes
    <3>2. k > Len(f[0]) BY <1>6, <2>2, <3>1
    <3>3. k \notin 1 .. Len(f[j]) BY <1>6, <3>1, <3>2
    <3>4. g[j][k] = written + (k - Len(f[0])) BY <1>8, <3>3
    <3> QED BY <1>2, <1>6, <2>2, <3>1, <3>4
  <2> QED BY <1>8, <2>1, <2>2
<1>11. UpTo(g, written + n)
  <2> SUFFICES ASSUME NEW i \in Suffixes, NEW m \in 1 .. Len(g[i])
               PROVE  g[i][m] <= written + n
    BY DEF UpTo
  <2>1. CASE m \in 1 .. Len(f[i]) /\ g[i][m] = f[i][m]
    <3>1. f[i][m] \in Nat /\ f[i][m] <= written BY <1>9, <2>1
    <3> QED BY <1>2, <2>1, <3>1
  <2>2. CASE m - Len(f[0]) \in 1 .. n /\ g[i][m] = written + (m - Len(f[0]))
    <3>1. \A a \in 1 .. n : written + a <= written + n BY <1>2
    <3> QED BY <2>2, <3>1
  <2> QED BY <1>8, <2>1, <2>2
<1> QED BY <1>4, <1>10, <1>11 DEF g

-----------------------------------------------------------------------------
(* What the steps do to the file and its disk.                             *)

SinkTypes ==
  /\ disk \in Disks /\ fileSink \in Paths \cup {None} /\ fileSize \in Nat
  /\ buffer \in Bytes /\ broken \in BOOLEAN
  /\ fileSink = None => buffer = <<>> /\ ~broken

\* What is on the disk stays in d, and only the file itself may grow.
Grown(d) ==
  \A path \in Paths, i \in Suffixes :
    /\ i # 0 => d[path][i] = disk[path][i]
    /\ Len(Contents(disk[path][i])) <= Len(Contents(d[path][i]))
    /\ \A m \in 1 .. Len(Contents(disk[path][i])) :
         Contents(disk[path][i])[m] = Contents(d[path][i])[m]

\* What a step that writes no line and renames nothing does, whatever the room.
Keeps ==
  /\ SinkTypes' /\ Opened' /\ Grown(disk')
  /\ \A path \in Paths : Kept(Whole(path)', Whole(path))
  /\ \A room \in Nat : Short(room) => Short(room)'

\* The bytes of a path are files of bytes.
LEMMA WholeTyped ==
  ASSUME NEW d \in Disks, NEW open, NEW buf \in Bytes, NEW path \in Paths
  PROVE  /\ WholeOf(d, open, buf, path) \in Files
         /\ \A i \in Suffixes :
              /\ WholeOf(d, open, buf, path)[i] =
                   IF i = 0 /\ open = path THEN Contents(d[path][i]) \o buf ELSE Contents(d[path][i])
              /\ Len(WholeOf(d, open, buf, path)[i]) \in Nat
<1> DEFINE w == WholeOf(d, open, buf, path)
<1>1. ASSUME NEW i \in Suffixes
      PROVE  /\ w[i] \in Bytes /\ Len(w[i]) \in Nat
             /\ w[i] = IF i = 0 /\ open = path THEN Contents(d[path][i]) \o buf
                       ELSE Contents(d[path][i])
  <2>1. Contents(d[path][i]) \in Bytes BY FileRead
  <2>2. Contents(d[path][i]) \o <<>> = Contents(d[path][i]) BY <2>1 DEF Bytes
  <2>3. w[i] = Contents(d[path][i]) \o (IF i = 0 /\ open = path THEN buf ELSE <<>>)
    BY DEF WholeOf
  <2>4. Contents(d[path][i]) \o buf \in Bytes BY <2>1 DEF Bytes
  <2>5. \A file \in Bytes : Len(file) \in Nat BY DEF Bytes
  <2> HIDE DEF w
  <2> QED BY <2>1, <2>2, <2>3, <2>4, <2>5
<1>2. w = [i \in Suffixes |-> w[i]] BY DEF WholeOf
<1> HIDE DEF w
<1>3. w \in Files BY <1>1, <1>2 DEF Files
<1> QED BY <1>1, <1>3 DEF w

\* The sink's part of the type invariant, and what follows from it.
LEMMA SinkTyped ==
  ASSUME TypeOK
  PROVE  /\ SinkTypes
         /\ \A path \in Paths : Whole(path) \in Files
         /\ \A path \in Paths, i \in Suffixes :
              /\ Whole(path)[i] = IF i = 0 /\ fileSink = path
                                  THEN Contents(disk[path][i]) \o buffer
                                  ELSE Contents(disk[path][i])
              /\ Len(Whole(path)[i]) \in Nat
<1>1. SinkTypes BY SinkAssumption DEF SinkTypes, TypeOK, Disks, Bytes
<1> QED BY <1>1, WholeTyped DEF SinkTypes, Whole

\* A disk that is left alone has all that it had.
LEMMA GrownSame ==
  ASSUME TypeOK
  PROVE  Grown(disk)
<1>1. SinkTypes BY SinkTyped
<1>2. \A path \in Paths, i \in Suffixes : Len(Contents(disk[path][i])) \in Nat
  BY <1>1, FileRead DEF SinkTypes, Bytes
<1> QED BY <1>2 DEF Grown

\* A step that leaves the file and the disk alone keeps all.
LEMMA NothingKeeps ==
  ASSUME TypeOK, Opened, UNCHANGED <<disk, sinkVars>>
  PROVE  Keeps
<1>1. SinkTypes' /\ Opened' BY SinkTyped DEF SinkTypes, Opened, sinkVars
<1>2. \A path \in Paths : Whole(path)' = Whole(path) BY DEF Whole, sinkVars
<1>3. \A path \in Paths, i \in Suffixes : Len(Whole(path)[i]) \in Nat BY SinkTyped
<1>4. \A path \in Paths : Kept(Whole(path)', Whole(path)) BY <1>2, <1>3 DEF Kept
<1>5. \A room \in Nat : Short(room) => Short(room)' BY DEF Short, ShortSink, ShortFiles, sinkVars
<1>6. Grown(disk) /\ disk' = disk BY GrownSame
<1> QED BY <1>1, <1>4, <1>5, <1>6 DEF Keeps

\* Its "ok" decides whether what the buffer holds reaches the disk.
LEMMA FlushedFiles ==
  ASSUME TypeOK, Opened, NEW ok \in BOOLEAN
  PROVE  LET d == Flushed(disk, buffer, ok) IN
         /\ d \in Disks
         /\ \A p \in Paths, i \in Suffixes :
              Contents(d[p][i]) = IF ok THEN Whole(p)[i] ELSE Contents(disk[p][i])
         /\ \A p \in Paths : Kept([i \in Suffixes |-> Contents(d[p][i])], Whole(p))
         /\ Grown(d)
<1> DEFINE d == Flushed(disk, buffer, ok)
<1>1. SinkTypes BY SinkTyped
<1>2. /\ d \in Disks
      /\ \A p \in Paths, i \in Suffixes :
           d[p][i] = IF ok /\ p = fileSink /\ i = 0 THEN disk[p][i] \o buffer ELSE disk[p][i]
  BY <1>1, FlushedAt DEF SinkTypes
<1> HIDE DEF d
<1>3. ASSUME NEW p \in Paths, NEW i \in Suffixes
      PROVE  /\ Contents(d[p][i]) = IF ok THEN Whole(p)[i] ELSE Contents(disk[p][i])
             /\ Len(Contents(d[p][i])) <= Len(Whole(p)[i])
             /\ \A m \in 1 .. Len(Contents(d[p][i])) : Contents(d[p][i])[m] = Whole(p)[i][m]
             /\ Len(Contents(disk[p][i])) <= Len(Contents(d[p][i]))
             /\ \A m \in 1 .. Len(Contents(disk[p][i])) :
                  Contents(disk[p][i])[m] = Contents(d[p][i])[m]
  <2>1. Whole(p)[i] = IF i = 0 /\ fileSink = p THEN Contents(disk[p][i]) \o buffer
                      ELSE Contents(disk[p][i])
    BY SinkTyped
  <2>2. /\ disk[p][i] \in Bytes \cup {None} /\ Contents(disk[p][i]) \in Bytes
        /\ buffer \in Bytes /\ Whole(p)[i] \in Bytes
    BY <1>1, FileRead, SinkTyped DEF SinkTypes, Files
  <2>3. p = fileSink /\ i = 0 => /\ disk[p][i] # None /\ Contents(disk[p][i]) = disk[p][i]
                                /\ disk[p][i] \o buffer \in Bytes
                                /\ Contents(disk[p][i] \o buffer) = disk[p][i] \o buffer
    <3> SUFFICES ASSUME p = fileSink, i = 0
                 PROVE  /\ disk[p][i] # None /\ Contents(disk[p][i]) = disk[p][i]
                        /\ disk[p][i] \o buffer \in Bytes
                        /\ Contents(disk[p][i] \o buffer) = disk[p][i] \o buffer
      OBVIOUS
    <3>1. disk[p][i] # None BY SinkAssumption DEF Opened
    <3>2. disk[p][i] \o buffer \in Bytes BY <2>2, <3>1 DEF Bytes
    <3>3. \A file \in Bytes : Contents(file) = file BY SinkAssumption DEF Contents, Bytes
    <3> QED BY <2>2, <3>1, <3>2, <3>3
  <2>4. Contents(d[p][i]) = IF ok THEN Whole(p)[i] ELSE Contents(disk[p][i])
    BY <1>2, <2>1, <2>3
  <2>5. /\ Len(Contents(disk[p][i])) <= Len(Whole(p)[i])
        /\ \A m \in 1 .. Len(Contents(disk[p][i])) : Contents(disk[p][i])[m] = Whole(p)[i][m]
    BY <2>1, <2>2 DEF Bytes
  <2>6. /\ Len(Whole(p)[i]) <= Len(Whole(p)[i])
        /\ Len(Contents(disk[p][i])) <= Len(Contents(disk[p][i]))
    BY <2>2 DEF Bytes
  <2> QED BY <2>4, <2>5, <2>6
<1>4. \A p \in Paths : Kept([i \in Suffixes |-> Contents(d[p][i])], Whole(p))
  BY <1>3 DEF Kept
<1>5. Grown(d) BY <1>2, <1>3 DEF Grown
<1> QED BY <1>2, <1>3, <1>4, <1>5 DEF d

\* With short files the bytes of a path are few, buffer included.
LEMMA WholeShort ==
  ASSUME TypeOK, Opened, NEW room \in Nat, Short(room)
  PROVE  /\ \A path \in Paths, i \in Suffixes : Len(Whole(path)[i]) < room + Longest
         /\ \A path \in Paths : Len(Whole(path)[0]) < room
<1>1. SinkTypes /\ Longest \in Nat BY SinkTyped, SinkAssumption
<1>2. /\ \A path \in Paths, i \in Suffixes : Len(Contents(disk[path][i])) < room + Longest
      /\ \A path \in Paths : Len(Contents(disk[path][0])) < room
      /\ fileSink # None => fileSize < room
  BY DEF Short, ShortSink, ShortFiles
<1>3. ASSUME NEW path \in Paths, NEW i \in Suffixes
      PROVE  /\ Len(Whole(path)[i]) < room + Longest
             /\ i = 0 => Len(Whole(path)[i]) < room
  <2>1. CASE i = 0 /\ fileSink = path
    <3>1. Whole(path)[i] = Contents(disk[path][i]) \o buffer BY <2>1, SinkTyped
    <3>2. Contents(disk[path][i]) = disk[path][0] /\ fileSize = Len(disk[path][0]) + Len(buffer)
      BY <2>1, SinkAssumption DEF Opened, Contents
    <3>3. Contents(disk[path][i]) \in Bytes /\ buffer \in Bytes /\ fileSize \in Nat
      BY <1>1, FileRead DEF SinkTypes
    <3>4. Len(Whole(path)[i]) = fileSize BY <3>1, <3>2, <3>3 DEF Bytes
    <3>5. fileSize < room BY <1>2, <2>1, SinkAssumption
    <3> QED BY <1>1, <3>3, <3>4, <3>5
  <2>2. CASE ~(i = 0 /\ fileSink = path)
    <3>1. Whole(path)[i] = Contents(disk[path][i]) BY <2>2, SinkTyped
    <3> QED BY <1>2, <3>1
  <2> QED BY <2>1, <2>2
<1> QED BY <1>3, SuffixZero

\* The file closed, or opened again, on the disk d.
Fresh(d) == (disk' = d /\ Closed) \/ \E path \in Paths : OpenFileSink(path, d)

\* A file closed or opened holds what the disk does, and nothing more.
LEMMA FreshFiles ==
  ASSUME NEW d \in Disks, Fresh(d)
  PROVE  /\ SinkTypes' /\ Opened'
         /\ \A p \in Paths, i \in Suffixes : Whole(p)'[i] = Contents(d[p][i])
         /\ \A room \in Nat : ShortFiles(d, room) => Short(room)'
         /\ \A p \in Paths, i \in Suffixes : Contents(disk'[p][i]) = Contents(d[p][i])
         /\ \A p \in Paths, i \in Suffixes : i # 0 => disk'[p][i] = d[p][i]
<1>1. <<>> \in Bytes BY DEF Bytes
<1>2. CASE disk' = d /\ Closed
  <2>1. disk' = d /\ fileSink' = None /\ fileSize' = 0 /\ buffer' = <<>> /\ broken' = FALSE
    BY <1>2 DEF Closed
  <2>2. SinkTypes' BY <1>1, <2>1 DEF SinkTypes
  <2>3. Opened' BY <2>1 DEF Opened
  <2>4. \A p \in Paths, i \in Suffixes : Whole(p)'[i] = Contents(d[p][i])
    BY <1>1, <2>1, WholeTyped, SinkAssumption DEF Whole
  <2>5. \A room \in Nat : ShortFiles(d, room) => Short(room)'
    BY <2>1 DEF Short, ShortSink, ShortFiles
  <2> QED BY <2>1, <2>2, <2>3, <2>4, <2>5
<1>3. ASSUME NEW path \in Paths, OpenFileSink(path, d)
      PROVE  /\ SinkTypes' /\ Opened'
             /\ \A p \in Paths, i \in Suffixes : Whole(p)'[i] = Contents(d[p][i])
             /\ \A room \in Nat : ShortFiles(d, room) => Short(room)'
             /\ \A p \in Paths, i \in Suffixes : Contents(disk'[p][i]) = Contents(d[p][i])
             /\ \A p \in Paths, i \in Suffixes : i # 0 => disk'[p][i] = d[p][i]
  <2>1. /\ fileSink' = path /\ fileSize' = Len(Contents(d[path][0]))
        /\ buffer' = <<>> /\ broken' = FALSE
    BY <1>3 DEF OpenFileSink
  <2>2. /\ disk' \in Disks
        /\ \A p \in Paths, i \in Suffixes :
             /\ disk'[p][i] = IF p = path /\ i = 0 THEN Contents(d[p][i]) ELSE d[p][i]
             /\ Contents(disk'[p][i]) = Contents(d[p][i])
        /\ disk'[path][0] \in Bytes /\ disk'[path][0] # None
    BY <1>3, OpenedAt
  <2>3. disk'[path][0] = Contents(d[path][0]) BY <2>2, SuffixZero
  <2>4. SinkTypes'
    <3>1. Len(Contents(d[path][0])) \in Nat BY FileRead, SuffixZero DEF Bytes
    <3> QED BY <1>1, <2>1, <2>2, <3>1, SinkAssumption DEF SinkTypes
  <2>5. Opened' BY <2>1, <2>2, <2>3 DEF Opened, Bytes
  <2>6. ASSUME NEW p \in Paths, NEW i \in Suffixes PROVE Whole(p)'[i] = Contents(d[p][i])
    <3>1. Contents(d[p][i]) \in Bytes BY FileRead
    <3>2. Contents(d[p][i]) \o <<>> = Contents(d[p][i]) BY <3>1 DEF Bytes
    <3>3. disk' \in Disks /\ buffer' \in Bytes BY <1>1, <2>1, <2>2
    <3>4. Whole(p)'[i] = IF i = 0 /\ fileSink' = p THEN Contents(disk'[p][i]) \o buffer'
                         ELSE Contents(disk'[p][i])
      BY <3>3, WholeTyped DEF Whole
    <3> QED BY <2>1, <2>2, <3>2, <3>4
  <2>7. \A room \in Nat : ShortFiles(d, room) => Short(room)'
    BY <2>1, <2>2, SuffixZero DEF Short, ShortSink, ShortFiles
  <2> QED BY <2>2, <2>4, <2>5, <2>6, <2>7
<1> QED BY <1>2, <1>3 DEF Fresh

\* A file closed or opened after a flush, that works or not, keeps the order.
LEMMA FreshKeeps ==
  ASSUME TypeOK, Opened, NEW ok \in BOOLEAN, Fresh(Flushed(disk, buffer, ok))
  PROVE  Keeps
<1> DEFINE d == Flushed(disk, buffer, ok)
<1>1. /\ d \in Disks
      /\ \A p \in Paths, i \in Suffixes :
           Contents(d[p][i]) = IF ok THEN Whole(p)[i] ELSE Contents(disk[p][i])
      /\ \A p \in Paths : Kept([i \in Suffixes |-> Contents(d[p][i])], Whole(p))
      /\ Grown(d)
  BY FlushedFiles
<1>2. Fresh(d) OBVIOUS
<1> HIDE DEF d
<1>3. /\ SinkTypes' /\ Opened'
      /\ \A p \in Paths, i \in Suffixes : Whole(p)'[i] = Contents(d[p][i])
      /\ \A room \in Nat : ShortFiles(d, room) => Short(room)'
      /\ \A p \in Paths, i \in Suffixes : Contents(disk'[p][i]) = Contents(d[p][i])
      /\ \A p \in Paths, i \in Suffixes : i # 0 => disk'[p][i] = d[p][i]
  BY <1>1, <1>2, FreshFiles
<1>4. ASSUME NEW p \in Paths PROVE Kept(Whole(p)', Whole(p))
  BY <1>1, <1>3 DEF Kept
<1>5. ASSUME NEW room \in Nat, Short(room) PROVE Short(room)'
  <2>1. /\ \A p \in Paths, i \in Suffixes : /\ Len(Whole(p)[i]) < room + Longest
                                            /\ Len(Contents(disk[p][i])) < room + Longest
        /\ \A p \in Paths : Len(Whole(p)[0]) < room /\ Len(Contents(disk[p][0])) < room
    BY <1>5, WholeShort DEF Short, ShortSink, ShortFiles
  <2>2. ShortFiles(d, room) BY <1>1, <2>1, SuffixZero DEF ShortFiles
  <2> QED BY <1>3, <2>2
<1>6. ASSUME NEW p \in Paths, NEW i \in Suffixes
      PROVE  /\ i # 0 => disk'[p][i] = disk[p][i]
             /\ Len(Contents(disk[p][i])) <= Len(Contents(disk'[p][i]))
             /\ \A m \in 1 .. Len(Contents(disk[p][i])) :
                  Contents(disk[p][i])[m] = Contents(disk'[p][i])[m]
  <2>1. Contents(disk'[p][i]) = Contents(d[p][i]) /\ (i # 0 => disk'[p][i] = d[p][i])
    BY <1>3
  <2> QED BY <1>1, <2>1 DEF Grown
<1>7. Grown(disk') BY <1>6 DEF Grown
<1> QED BY <1>3, <1>4, <1>5, <1>7 DEF Keeps

\* The tick's flush keeps the order, whether it works or not.
LEMMA FlushKeeps ==
  ASSUME TypeOK, Opened, Flush
  PROVE  Keeps
<1>1. SinkTypes BY SinkTyped
<1>2. CASE UNCHANGED <<disk, sinkVars>> BY <1>2, NothingKeeps
<1>3. ASSUME fileSink # None, NEW ok \in BOOLEAN, disk' = Flushed(disk, buffer, ok),
             buffer' = IF ok THEN <<>> ELSE buffer, broken' = ~ok,
             UNCHANGED <<fileSink, fileSize>>
      PROVE  Keeps
  <2>1. /\ disk' \in Disks
        /\ \A p \in Paths, i \in Suffixes :
             disk'[p][i] = IF ok /\ p = fileSink /\ i = 0 THEN disk[p][i] \o buffer ELSE disk[p][i]
    BY <1>1, <1>3, FlushedAt DEF SinkTypes
  <2>2. \A p \in Paths, i \in Suffixes :
          Contents(disk'[p][i]) = IF ok THEN Whole(p)[i] ELSE Contents(disk[p][i])
    BY <1>3, FlushedFiles
  <2>3. <<>> \in Bytes BY DEF Bytes
  <2>4. SinkTypes' BY <1>1, <1>3, <2>1, <2>3 DEF SinkTypes
  <2>5. fileSink \in Paths /\ fileSink' = fileSink BY <1>1, <1>3 DEF SinkTypes
  <2>6. Opened'
    <3>1. disk[fileSink][0] # None /\ disk[fileSink][0] \in Bytes /\ buffer \in Bytes
      BY <1>1, <1>3, <2>5, FileRead, SuffixZero DEF SinkTypes, Opened
    <3>2. disk'[fileSink][0] = IF ok THEN disk[fileSink][0] \o buffer ELSE disk[fileSink][0]
      BY <2>1, <2>5, SuffixZero
    <3>3. /\ disk[fileSink][0] \o buffer \in Bytes
          /\ Len(disk[fileSink][0] \o buffer) = Len(disk[fileSink][0]) + Len(buffer)
          /\ Len(disk[fileSink][0]) \in Nat /\ Len(buffer) \in Nat /\ Len(<<>>) = 0
      BY <3>1 DEF Bytes
    <3>4. None \notin Bytes BY SinkAssumption DEF Bytes
    <3>5. fileSize = Len(disk[fileSink][0]) + Len(buffer) BY <1>3 DEF Opened
    <3>6. disk'[fileSink][0] # None BY <3>1, <3>2, <3>3, <3>4
    <3>7. fileSize = Len(disk'[fileSink][0]) + Len(buffer') BY <1>3, <3>2, <3>3, <3>5
    <3> QED BY <1>3, <3>6, <3>7 DEF Opened
  <2>7. ASSUME NEW p \in Paths PROVE Kept(Whole(p)', Whole(p))
    <3>1. ASSUME NEW i \in Suffixes PROVE Whole(p)'[i] = Whole(p)[i]
      <4>1. Whole(p)'[i] = IF i = 0 /\ fileSink' = p THEN Contents(disk'[p][i]) \o buffer'
                           ELSE Contents(disk'[p][i])
        BY <2>4, WholeTyped DEF Whole, SinkTypes
      <4>2. Whole(p)[i] \in Bytes BY SinkTyped DEF Files
      <4>3. Whole(p)[i] \o <<>> = Whole(p)[i] BY <4>2 DEF Bytes
      <4> QED BY <1>3, <2>2, <4>1, <4>3, SinkTyped
    <3>2. \A i \in Suffixes : Len(Whole(p)[i]) \in Nat BY SinkTyped
    <3> QED BY <3>1, <3>2 DEF Kept
  <2>8. ASSUME NEW room \in Nat, Short(room) PROVE Short(room)'
    <3>1. /\ \A p \in Paths, i \in Suffixes : /\ Len(Whole(p)[i]) < room + Longest
                                              /\ Len(Contents(disk[p][i])) < room + Longest
          /\ \A p \in Paths : Len(Whole(p)[0]) < room /\ Len(Contents(disk[p][0])) < room
      BY <2>8, WholeShort DEF Short, ShortSink, ShortFiles
    <3>2. fileSink # None => fileSize < room BY <2>8 DEF Short, ShortSink
    <3>3. ShortFiles(disk', room) BY <2>2, <3>1, SuffixZero DEF ShortFiles
    <3> QED BY <1>3, <3>2, <3>3 DEF Short, ShortSink
  <2>9. Grown(disk') BY <1>3, FlushedFiles
  <2> QED BY <2>4, <2>6, <2>7, <2>8, <2>9 DEF Keeps
<1>4. \/ UNCHANGED <<disk, sinkVars>>
      \/ \E ok \in BOOLEAN :
           /\ fileSink # None /\ disk' = Flushed(disk, buffer, ok)
           /\ buffer' = (IF ok THEN <<>> ELSE buffer) /\ broken' = ~ok
           /\ UNCHANGED <<fileSink, fileSize>>
  BY DEF Flush
<1> QED BY <1>2, <1>3, <1>4

\* The files of a path once dispatchLoop's line has come to them.
Added(path, n) == IF path = fileSink THEN Longer(Whole(path), n) ELSE Whole(path)

\* They are files of bytes, and only the first has grown, by the line.
LEMMA AddedTyped ==
  ASSUME TypeOK, CanWrite, NEW n \in 1 .. Longest, NEW p \in Paths
  PROVE  /\ Added(p, n) \in Files
         /\ \A i \in Suffixes :
              /\ Added(p, n)[i] = IF i = 0 /\ p = fileSink THEN Whole(p)[i] \o Line(n)
                                  ELSE Whole(p)[i]
              /\ Len(Added(p, n)[i]) \in Nat
              /\ i = 0 /\ p = fileSink => Len(Added(p, n)[i]) = Len(Whole(p)[i]) + n
<1>1. Whole(p) \in Files BY SinkTyped
<1>2. Line(n) \in Bytes /\ Len(Line(n)) = n /\ n \in Nat BY LineInHand
<1> HIDE DEF Line
<1>3. \A a, b \in Bytes : /\ a \o b \in Bytes /\ Len(a) \in Nat
                          /\ Len(a \o b) = Len(a) + Len(b)
  BY DEF Bytes
<1>4. Whole(p)[0] \o Line(n) \in Bytes BY <1>1, <1>2, <1>3, SuffixZero DEF Files
<1>5. Longer(Whole(p), n) = [Whole(p) EXCEPT ![0] = Whole(p)[0] \o Line(n)] BY DEF Longer
<1>6. Longer(Whole(p), n) \in Files BY <1>1, <1>4, <1>5, SuffixZero DEF Files
<1>7. Added(p, n) \in Files BY <1>1, <1>6 DEF Added
<1>8. ASSUME NEW i \in Suffixes
      PROVE  Added(p, n)[i] = IF i = 0 /\ p = fileSink THEN Whole(p)[i] \o Line(n)
                              ELSE Whole(p)[i]
  BY <1>1, <1>5 DEF Added, Files
<1>9. \A i \in Suffixes : Added(p, n)[i] \in Bytes /\ Whole(p)[i] \in Bytes
  BY <1>1, <1>7 DEF Files
<1> QED BY <1>2, <1>3, <1>7, <1>8, <1>9

\* Of the line in hand and the buffer, the flush before a rotation writes all or none.
LEMMA FilledFiles ==
  ASSUME TypeOK, Opened, CanWrite, NEW n \in 1 .. Longest, NEW ok \in BOOLEAN
  PROVE  LET d == Flushed(disk, WithLine(n), ok) IN
         /\ d \in Disks
         /\ \A p \in Paths, i \in Suffixes :
              d[p][i] = IF ok /\ p = fileSink /\ i = 0 THEN Added(p, n)[i] ELSE disk[p][i]
         /\ \A p \in Paths : Kept([i \in Suffixes |-> Contents(d[p][i])], Added(p, n))
<1> DEFINE d == Flushed(disk, WithLine(n), ok)
<1>1. SinkTypes BY SinkTyped
<1>2. /\ fileSink \in Paths /\ WithLine(n) \in Bytes /\ buffer \in Bytes
      /\ Line(n) \in Bytes
  BY LineInHand
<1>3. /\ d \in Disks
      /\ \A p \in Paths, i \in Suffixes :
           d[p][i] = IF ok /\ p = fileSink /\ i = 0 THEN disk[p][i] \o WithLine(n) ELSE disk[p][i]
  BY <1>2, FlushedAt
<1> HIDE DEF d
<1>4. ASSUME NEW p \in Paths, NEW i \in Suffixes
      PROVE  /\ d[p][i] = IF ok /\ p = fileSink /\ i = 0 THEN Added(p, n)[i] ELSE disk[p][i]
             /\ Len(Contents(d[p][i])) <= Len(Added(p, n)[i])
             /\ \A m \in 1 .. Len(Contents(d[p][i])) : Contents(d[p][i])[m] = Added(p, n)[i][m]
  <2>1. /\ disk[p][i] \in Bytes \cup {None} /\ Contents(disk[p][i]) \in Bytes
    BY <1>1, FileRead DEF SinkTypes
  <2>2. CASE p = fileSink /\ i = 0
    <3>1. disk[p][i] # None /\ disk[p][i] \in Bytes
      BY <1>2, <2>1, <2>2, SinkAssumption DEF Opened
    <3>2. Contents(disk[p][i]) = disk[p][i] BY <3>1 DEF Contents
    <3>3. Added(p, n)[i] = (disk[p][i] \o buffer) \o Line(n)
      BY <2>2, <3>2, SinkTyped, AddedTyped
    <3>4. Added(p, n)[i] = disk[p][i] \o WithLine(n) BY <3>1, <3>3, LineAfter, Zenon
    <3>5. disk[p][i] \o WithLine(n) \in Bytes
          /\ Len(disk[p][i]) <= Len(disk[p][i] \o WithLine(n))
          /\ Len(disk[p][i] \o WithLine(n)) \in Nat
          /\ \A m \in 1 .. Len(disk[p][i]) : disk[p][i][m] = (disk[p][i] \o WithLine(n))[m]
      <4>1. \A a, b \in Bytes : /\ a \o b \in Bytes /\ Len(a) <= Len(a \o b) /\ Len(a \o b) \in Nat
                                /\ \A m \in 1 .. Len(a) : a[m] = (a \o b)[m]
        BY DEF Bytes
      <4> QED BY <1>2, <3>1, <4>1
    <3>6. Contents(disk[p][i] \o WithLine(n)) = disk[p][i] \o WithLine(n)
      BY <3>5, SinkAssumption DEF Contents, Bytes
    <3>7. d[p][i] = IF ok THEN Added(p, n)[i] ELSE disk[p][i] BY <1>3, <2>2, <3>4
    <3>8. CASE ok BY <2>2, <3>4, <3>5, <3>6, <3>7, <3>8
    <3>9. CASE ~ok BY <2>2, <3>2, <3>4, <3>5, <3>7, <3>9
    <3> QED BY <3>8, <3>9
  <2>3. CASE ~(p = fileSink /\ i = 0)
    <3>1. d[p][i] = disk[p][i] BY <1>3, <2>3
    <3>2. Added(p, n)[i] = Whole(p)[i] BY <2>3, AddedTyped
    <3>3. Whole(p)[i] = Contents(disk[p][i]) BY <2>3, SinkTyped
    <3>4. Len(Contents(disk[p][i])) \in Nat BY <2>1 DEF Bytes
    <3> QED BY <2>3, <3>1, <3>2, <3>3, <3>4
  <2> QED BY <2>2, <2>3
<1>5. \A p \in Paths : Kept([i \in Suffixes |-> Contents(d[p][i])], Added(p, n))
  BY <1>4 DEF Kept
<1> QED BY <1>3, <1>4, <1>5 DEF d

\* The renames, whichever of them are made, keep the order of the files.
LEMMA ShiftedWithin ==
  ASSUME NEW d \in Disks, fileSinkPath \in Paths, NEW stuck \in SUBSET Suffixes,
         NEW p \in Paths, NEW f \in Files, Kept([i \in Suffixes |-> Contents(d[p][i])], f)
  PROVE  Within([i \in Suffixes |-> Contents(Shifted(d, stuck)[p][i])], f)
<1> DEFINE moved == {i \in Suffixes : d[p][i] # None /\ i \notin stuck}
           s == Shifted(d, stuck)
           g == [i \in Suffixes |-> Contents(s[p][i])]
           src == [i \in Suffixes |-> IF p = fileSinkPath /\ i - 1 \in moved THEN i - 1 ELSE i]
<1>1. \A i \in Suffixes :
        s[p][i] = IF p # fileSinkPath THEN d[p][i]
                  ELSE IF i - 1 \in moved THEN d[p][i - 1]
                  ELSE IF i \in moved THEN None ELSE d[p][i]
  BY ShiftedAt
<1>2. moved \subseteq Suffixes OBVIOUS
<1>3. \A i \in Suffixes : g[i] = Contents(s[p][i]) OBVIOUS
<1>4. \A i \in Suffixes : /\ src[i] \in Suffixes
                          /\ src[i] = IF p = fileSinkPath /\ i - 1 \in moved THEN i - 1 ELSE i
  BY <1>2
<1>5. src \in [Suffixes -> Suffixes] BY <1>4
<1>6. Contents(None) = <<>> BY DEF Contents
<1> HIDE DEF moved, s, g, src
<1>7. ASSUME NEW i \in Suffixes, g[i] # <<>>
      PROVE  /\ g[i] = Contents(d[p][src[i]])
             /\ \/ p = fileSinkPath /\ i - 1 \in moved /\ src[i] = i - 1
                \/ p = fileSinkPath /\ i \notin moved /\ src[i] = i
                \/ p # fileSinkPath /\ src[i] = i
  <2>1. g[i] = Contents(s[p][i]) BY <1>3
  <2>2. s[p][i] # None BY <1>6, <1>7, <2>1
  <2>3. CASE p # fileSinkPath BY <1>1, <1>4, <2>1, <2>3
  <2>4. CASE p = fileSinkPath /\ i - 1 \in moved BY <1>1, <1>4, <2>1, <2>4
  <2>5. CASE p = fileSinkPath /\ i - 1 \notin moved BY <1>1, <1>4, <2>1, <2>2, <2>5
  <2> QED BY <2>3, <2>4, <2>5
<1>8. ASSUME NEW i \in Suffixes, g[i] # <<>>
      PROVE  /\ Len(g[i]) <= Len(f[src[i]])
             /\ \A m \in 1 .. Len(g[i]) : g[i][m] = f[src[i]][m]
  BY <1>4, <1>7, <1>8 DEF Kept
<1>9. ASSUME NEW i \in Suffixes, NEW j \in Suffixes, i > j, g[i] # <<>>, g[j] # <<>>
      PROVE  src[i] > src[j]
  BY <1>7, <1>9, SuffixZero
<1>10. Within(g, f) BY <1>5, <1>8, <1>9 DEF Within
<1> QED BY <1>10 DEF g, s

\* What dispatchLoop's step does when it takes the line in hand: the bytes of every
\* path are those it had, with the line in hand, and the last file may go.
Writes(n) ==
  /\ CanWrite /\ SinkTypes' /\ Opened'
  /\ \A path \in Paths : Within(Whole(path)', Added(path, n))

\* A line that fits is put into the buffer, and the file stays short.
LEMMA LineWrites ==
  ASSUME TypeOK, Opened, NEW n \in 1 .. Longest, WriteLine(n)
  PROVE  /\ Writes(n) /\ Grown(disk')
         /\ \A room \in Nat : room >= MaxBytes /\ Short(room) => Short(room)'
<1>1. SinkTypes BY SinkTyped
<1>2. /\ CanWrite /\ fileSize + n < MaxBytes
      /\ buffer' = WithLine(n) /\ fileSize' = fileSize + n
      /\ disk' = disk /\ fileSink' = fileSink /\ broken' = broken
  BY DEF WriteLine
<1>3. /\ fileSink \in Paths /\ n \in Nat /\ buffer \in Bytes
      /\ WithLine(n) \in Bytes /\ Len(WithLine(n)) = Len(buffer) + n
  BY <1>2, LineInHand
<1>4. SinkTypes' BY <1>1, <1>2, <1>3, SinkAssumption DEF SinkTypes
<1>5. Opened'
  <2>1. fileSize = Len(disk[fileSink][0]) + Len(buffer) /\ disk[fileSink][0] # None
    BY <1>3, SinkAssumption DEF Opened
  <2>2. disk[fileSink][0] \in Bytes BY <1>1, <1>3, <2>1, FileRead, SuffixZero DEF SinkTypes
  <2>3. Len(disk[fileSink][0]) \in Nat /\ Len(buffer) \in Nat
    BY <1>3, <2>2 DEF Bytes
  <2>4. Len(buffer') = Len(buffer) + n BY <1>2, <1>3
  <2>5. disk'[fileSink'][0] = disk[fileSink][0] BY <1>2
  <2>6. fileSize' = fileSize + n BY <1>2
  <2>7. \A a, b \in Nat : (a + b) + n = a + (b + n) BY <1>3
  <2>8. fileSize' = Len(disk[fileSink][0]) + Len(buffer') BY <2>1, <2>3, <2>4, <2>6, <2>7, Zenon
  <2> QED BY <1>2, <2>1, <2>5, <2>8 DEF Opened
<1>6. ASSUME NEW p \in Paths PROVE Within(Whole(p)', Added(p, n))
  <2>1. ASSUME NEW i \in Suffixes PROVE Whole(p)'[i] = Added(p, n)[i]
    <3>1. Whole(p)'[i] = IF i = 0 /\ fileSink' = p THEN Contents(disk'[p][i]) \o buffer'
                         ELSE Contents(disk'[p][i])
      BY <1>4, WholeTyped DEF Whole, SinkTypes
    <3>2. Whole(p)[i] = IF i = 0 /\ fileSink = p THEN Contents(disk[p][i]) \o buffer
                        ELSE Contents(disk[p][i])
      BY SinkTyped
    <3>3. Contents(disk[p][i]) \in Bytes BY <1>1, FileRead DEF SinkTypes
    <3>4. (Contents(disk[p][i]) \o buffer) \o Line(n) = Contents(disk[p][i]) \o WithLine(n)
      BY <1>2, <3>3, LineAfter, Zenon
    <3>5. Added(p, n)[i] = IF i = 0 /\ p = fileSink THEN Whole(p)[i] \o Line(n) ELSE Whole(p)[i]
      BY <1>2, AddedTyped
    <3> QED BY <1>2, <3>1, <3>2, <3>4, <3>5
  <2>2. \A i \in Suffixes : Len(Whole(p)'[i]) \in Nat BY <1>4, WholeTyped DEF Whole, SinkTypes
  <2>3. Kept(Whole(p)', Added(p, n)) BY <2>1, <2>2 DEF Kept
  <2> QED BY <2>3, KeptWithin
<1>7. ASSUME NEW room \in Nat, room >= MaxBytes, Short(room) PROVE Short(room)'
  <2>1. fileSize' < room BY <1>1, <1>2, <1>3, <1>7, SinkAssumption DEF SinkTypes
  <2> QED BY <1>2, <1>7, <2>1 DEF Short, ShortSink, ShortFiles
<1>8. Grown(disk) /\ disk' = disk BY <1>2, GrownSame
<1> QED BY <1>2, <1>4, <1>5, <1>6, <1>7, <1>8 DEF Writes

\* The room there is once a rotation has left the file in its place, or moved it.
RoomAfter(room, stuck) == IF 0 \in stuck THEN room + Longest ELSE room

\* A rotation keeps the order whatever fails, and a file that stays in its place
\* is longer by less than a line.
LEMMA RotationWrites ==
  ASSUME TypeOK, Opened, CanWrite, NEW n \in 1 .. Longest, NEW ok \in BOOLEAN,
         NEW stuck \in SUBSET Suffixes, Fresh(Rotated(n, ok, stuck))
  PROVE  /\ Writes(n)
         /\ \A room \in Nat : Short(room) => Short(RoomAfter(room, stuck))'
<1> DEFINE e == Flushed(disk, WithLine(n), ok)
           d == Shifted(e, stuck)
<1>1. fileSink = fileSinkPath /\ fileSink \in Paths /\ n \in Nat /\ n <= Longest /\ Longest \in Nat
  BY LineInHand, SinkAssumption
<1>2. /\ e \in Disks
      /\ \A p \in Paths : Kept([i \in Suffixes |-> Contents(e[p][i])], Added(p, n))
      /\ \A p \in Paths, i \in Suffixes :
           e[p][i] = IF ok /\ p = fileSink /\ i = 0 THEN Added(p, n)[i] ELSE disk[p][i]
  BY FilledFiles
<1> HIDE DEF e
<1>3. /\ d \in Disks
      /\ \A p \in Paths, i \in Suffixes :
           d[p][i] = IF p # fileSinkPath THEN e[p][i]
                     ELSE IF i - 1 \in {j \in Suffixes : e[fileSinkPath][j] # None /\ j \notin stuck}
                          THEN e[fileSinkPath][i - 1]
                     ELSE IF i \in {j \in Suffixes : e[fileSinkPath][j] # None /\ j \notin stuck}
                          THEN None ELSE e[fileSinkPath][i]
  BY <1>1, <1>2, ShiftedAt
<1>4. Fresh(d) BY DEF Rotated, e
<1>5. \A p \in Paths : Added(p, n) \in Files BY AddedTyped
<1>6. \A p \in Paths : Within([i \in Suffixes |-> Contents(d[p][i])], Added(p, n))
  BY <1>1, <1>2, <1>5, ShiftedWithin
<1> HIDE DEF d
<1>7. /\ SinkTypes' /\ Opened'
      /\ \A p \in Paths, i \in Suffixes : Whole(p)'[i] = Contents(d[p][i])
      /\ \A room \in Nat : ShortFiles(d, room) => Short(room)'
  BY <1>3, <1>4, FreshFiles
<1>8. \A p \in Paths : Within(Whole(p)', Added(p, n))
  BY <1>6, <1>7 DEF Within
<1>9. ASSUME NEW room \in Nat, Short(room) PROVE ShortFiles(d, RoomAfter(room, stuck))
  <2> DEFINE after == RoomAfter(room, stuck)
  <2>1. after \in Nat /\ after >= room /\ (0 \in stuck => after = room + Longest)
    BY <1>1 DEF RoomAfter
  <2> HIDE DEF after
  <2>2. ASSUME NEW p \in Paths, NEW i \in Suffixes
        PROVE  /\ Len(Contents(e[p][i])) \in Nat /\ Len(Contents(e[p][i])) < room + Longest
               /\ i = 0 /\ p # fileSink => Len(Contents(e[p][i])) < room
    <3>1. /\ Len(Added(p, n)[i]) \in Nat /\ Len(Whole(p)[i]) \in Nat
          /\ Added(p, n)[i] = IF i = 0 /\ p = fileSink THEN Whole(p)[i] \o Line(n) ELSE Whole(p)[i]
          /\ i = 0 /\ p = fileSink => Len(Added(p, n)[i]) = Len(Whole(p)[i]) + n
      BY AddedTyped, SinkTyped
    <3>2. /\ Len(Whole(p)[i]) < room + Longest
          /\ i = 0 => Len(Whole(p)[i]) < room
      BY <1>9, WholeShort
    <3>3. /\ Len(Added(p, n)[i]) < room + Longest
          /\ i = 0 /\ p # fileSink => Len(Added(p, n)[i]) < room
      <4>1. CASE i = 0 /\ p = fileSink BY <1>1, <3>1, <3>2, <4>1
      <4>2. CASE ~(i = 0 /\ p = fileSink) BY <3>1, <3>2, <4>2
      <4> QED BY <4>1, <4>2
    <3>4. Len(Contents(e[p][i])) <= Len(Added(p, n)[i]) BY <1>2 DEF Kept
    <3>5. Len(Contents(e[p][i])) \in Nat
      <4>1. Contents(e[p][i]) \in Bytes BY <1>2, FileRead
      <4> QED BY <4>1 DEF Bytes
    <3> QED BY <1>1, <3>1, <3>3, <3>4, <3>5
  <2>3. Contents(None) = <<>> /\ Len(<<>>) = 0 BY DEF Contents
  <2>4. 0 < room BY <1>1, <1>9, <2>2, WholeShort, SinkTyped, SuffixZero
  <2>5. ASSUME NEW p \in Paths, NEW i \in Suffixes
        PROVE  Len(Contents(d[p][i])) < after + Longest
    <3>1. \/ d[p][i] = None \/ \E j \in Suffixes : d[p][i] = e[p][j] BY <1>3
    <3>2. Len(Contents(d[p][i])) \in Nat /\ Len(Contents(d[p][i])) < room + Longest
      BY <1>1, <2>2, <2>3, <2>4, <3>1
    <3> QED BY <1>1, <2>1, <3>2
  <2>6. ASSUME NEW p \in Paths PROVE Len(Contents(d[p][0])) < after
    <3>1. CASE p # fileSinkPath
      <4>1. d[p][0] = e[p][0] BY <1>3, <3>1, SuffixZero
      <4>2. Len(Contents(e[p][0])) \in Nat /\ Len(Contents(e[p][0])) < room
        BY <1>1, <2>2, <3>1, SuffixZero
      <4> QED BY <2>1, <4>1, <4>2
    <3>2. CASE p = fileSinkPath
      <4>1. 0 - 1 \notin Suffixes BY SuffixZero
      <4>2. d[p][0] = None \/ (0 \in stuck /\ d[p][0] = e[p][0])
        BY <1>3, <3>2, <4>1, SuffixZero
      <4>3. CASE d[p][0] = None BY <2>1, <2>3, <2>4, <4>3
      <4>4. CASE 0 \in stuck /\ d[p][0] = e[p][0] BY <2>1, <2>2, <4>4, SuffixZero
      <4> QED BY <4>2, <4>3, <4>4
    <3> QED BY <3>1, <3>2
  <2> QED BY <2>5, <2>6 DEF ShortFiles, after
<1>10. \A room \in Nat : RoomAfter(room, stuck) \in Nat BY <1>1 DEF RoomAfter
<1>11. \A room \in Nat : Short(room) => Short(RoomAfter(room, stuck))'
  BY <1>7, <1>9, <1>10
<1> QED BY <1>7, <1>8, <1>11 DEF Writes

-----------------------------------------------------------------------------
(* The steps.                                                              *)

\* The rotations: unless the disk failed, the flush was made and every rename down
\* to some suffix k, which is 0 if the process goes on.
Rotates(n) ==
  \E ok \in BOOLEAN, stuck \in SUBSET Suffixes :
    /\ MustRotate(n)
    /\ Fresh(Rotated(n, ok, stuck))
    /\ faults' = {} => ok /\ \E k \in 0 .. MaxCount : stuck = 0 .. k - 1
    /\ kept' = IF 0 \in stuck THEN kept + 1 ELSE kept

\* The room for the file grows with the rotations that leave it in its place.
Sized ==
  \/ kept' = kept /\ \A room \in Nat : room >= MaxBytes /\ Short(room) => Short(room)'
  \/ kept' = kept + 1 /\ \A room \in Nat : Short(room) => Short(room + Longest)'

\* What a step of dispatchLoop does when it takes a line of n bytes.
WriteStep(n) ==
  /\ Writes(n) /\ written' = written + n /\ Sized
  /\ Grown(disk') \/ Rotates(n)

\* What a step that writes no line does.
OtherStep == Keeps /\ written' = written /\ kept' = kept

\* A rotation, whether the process lives on or not.
LEMMA RotationStep ==
  ASSUME TypeOK, Opened, NEW n \in 1 .. Longest, MustRotate(n),
         NEW ok \in BOOLEAN, NEW stuck \in SUBSET Suffixes, Fresh(Rotated(n, ok, stuck)),
         faults' = {} => ok /\ \E k \in 0 .. MaxCount : stuck = 0 .. k - 1,
         written' = written + n, kept' = IF 0 \in stuck THEN kept + 1 ELSE kept
  PROVE  WriteStep(n)
<1>1. CanWrite BY DEF MustRotate
<1>2. /\ Writes(n)
      /\ \A room \in Nat : Short(room) => Short(RoomAfter(room, stuck))'
  BY <1>1, RotationWrites
<1>3. Sized
  <2>1. CASE 0 \in stuck
    <3>1. \A room \in Nat : RoomAfter(room, stuck) = room + Longest BY <2>1 DEF RoomAfter
    <3> QED BY <1>2, <2>1, <3>1 DEF Sized
  <2>2. CASE 0 \notin stuck
    <3>1. \A room \in Nat : RoomAfter(room, stuck) = room BY <2>2 DEF RoomAfter
    <3> QED BY <1>2, <2>2, <3>1 DEF Sized
  <2> QED BY <2>1, <2>2
<1>4. Rotates(n) BY DEF Rotates
<1> QED BY <1>2, <1>3, <1>4 DEF WriteStep

\* What every step does: it keeps the files, or writes the line in hand.
LEMMA StepEffect ==
  ASSUME TypeOK, Opened, [Next]_vars
  PROVE  /\ OtherStep \/ \E n \in 1 .. Longest : WriteStep(n)
         /\ faults \subseteq faults'
<1>1. fileSinkPath \in Paths \cup {None} /\ fileSink \in {fileSinkPath, None}
  BY DEF TypeOK
<1>2. UNCHANGED <<disk, sinkVars, history>> => OtherStep /\ faults \subseteq faults'
  BY NothingKeeps DEF OtherStep, history
<1>3. CASE PassGate \/ FindClosed BY <1>2, <1>3 DEF PassGate, FindClosed
<1>4. CASE WriteFails
  <2>1. disk = Flushed(disk, buffer, FALSE) BY DEF Flushed
  <2>2. Fresh(Flushed(disk, buffer, FALSE)) BY <1>4, <2>1 DEF WriteFails, Fresh
  <2>3. Keeps BY <2>2, FreshKeeps
  <2> QED BY <1>4, <2>3 DEF WriteFails, OtherStep
<1>5. ASSUME NEW n \in 1 .. Longest, WriteLine(n) PROVE WriteStep(n) /\ faults \subseteq faults'
  <2>1. written' = written + n /\ kept' = kept /\ faults' = faults BY <1>5 DEF WriteLine
  <2>2. Sized BY <1>5, <2>1, LineWrites DEF Sized
  <2> QED BY <1>5, <2>1, <2>2, LineWrites DEF WriteStep
<1>6. ASSUME NEW n \in 1 .. Longest, NEW ok \in BOOLEAN, NEW stuck \in SUBSET Suffixes,
             WriteAndRotate(n, ok, stuck) \/ RotateFails(n, ok, stuck)
      PROVE  WriteStep(n) /\ faults \subseteq faults'
  <2>1. /\ MustRotate(n)
        /\ \/ OpenFileSink(fileSinkPath, Rotated(n, ok, stuck))
           \/ disk' = Rotated(n, ok, stuck) /\ Closed
        /\ Recorded(n, RotationFaults(ok, stuck), stuck)
    BY <1>6 DEF WriteAndRotate, RotateFails
  <2>2. fileSinkPath \in Paths BY <2>1, LineInHand DEF MustRotate
  <2>3. Fresh(Rotated(n, ok, stuck)) BY <2>1, <2>2 DEF Fresh
  <2>4. /\ written' = written + n /\ kept' = (IF 0 \in stuck THEN kept + 1 ELSE kept)
        /\ faults' = faults \cup RotationFaults(ok, stuck)
    BY <2>1 DEF Recorded
  <2>5. ASSUME faults' = {} PROVE ok /\ \E k \in 0 .. MaxCount : stuck = 0 .. k - 1
    <3>1. ok /\ stuck = {} BY <2>4, <2>5 DEF RotationFaults
    <3>2. 0 \in 0 .. MaxCount /\ 0 .. 0 - 1 = {} BY SinkAssumption
    <3> QED BY <3>1, <3>2
  <2> QED BY <2>1, <2>3, <2>4, <2>5, RotationStep
<1>7. CASE Flush
  <2>1. faults \subseteq faults' /\ written' = written /\ kept' = kept BY <1>7 DEF Flush
  <2> QED BY <1>7, <2>1, FlushKeeps DEF OtherStep
<1>8. ASSUME NEW path \in Paths \cup {None}, SetPath(path) \/ SetPathFails(path)
      PROVE  OtherStep /\ faults \subseteq faults'
  <2>1. PICK ok \in BOOLEAN :
          /\ CloseFileSink(ok) \/ (path # None /\ OpenFileSink(path, Flushed(disk, buffer, ok)))
          /\ faults' = IF ok THEN faults ELSE faults \cup {"write"}
    BY <1>8 DEF SetPath, SetPathFails
  <2>2. Fresh(Flushed(disk, buffer, ok)) BY <2>1 DEF CloseFileSink, Fresh
  <2>3. written' = written /\ kept' = kept BY <1>8 DEF SetPath, SetPathFails
  <2> QED BY <2>1, <2>2, <2>3, FreshKeeps DEF OtherStep
<1>9. ASSUME NEW c \in Callers, Reopen(c) PROVE OtherStep /\ faults \subseteq faults'
  <2>1. written' = written /\ kept' = kept /\ faults' = faults BY <1>9 DEF Reopen
  <2>2. \/ UNCHANGED <<disk, sinkVars>>
        \/ fileSinkPath # None /\ OpenFileSink(fileSinkPath, disk)
    BY <1>9 DEF Reopen
  <2>3. disk = Flushed(disk, buffer, FALSE) BY DEF Flushed
  <2>4. CASE UNCHANGED <<disk, sinkVars>> BY <2>1, <2>4, NothingKeeps DEF OtherStep
  <2>5. CASE fileSinkPath # None /\ OpenFileSink(fileSinkPath, disk)
    <3>1. Fresh(Flushed(disk, buffer, FALSE)) BY <1>1, <2>3, <2>5 DEF Fresh
    <3> QED BY <2>1, <3>1, FreshKeeps DEF OtherStep
  <2> QED BY <2>2, <2>4, <2>5
<1>10. ASSUME NEW c \in Callers, SwitchOff(c) \/ Enable(c)
       PROVE  OtherStep /\ faults \subseteq faults'
  BY <1>2, <1>10 DEF SwitchOff, Enable
<1>11. CASE Kill
  <2>1. disk = Flushed(disk, buffer, FALSE) BY DEF Flushed
  <2>2. disk' = disk /\ Closed /\ UNCHANGED <<written, faults, kept>>
    BY <1>11 DEF Kill, Restarted
  <2>3. Fresh(Flushed(disk, buffer, FALSE)) BY <2>1, <2>2 DEF Fresh
  <2> QED BY <2>2, <2>3, FreshKeeps DEF OtherStep
<1>12. ASSUME NEW n \in 1 .. Longest, NEW k \in 0 .. MaxCount, KillInRotation(n, k)
       PROVE  WriteStep(n) /\ faults \subseteq faults'
  <2>1. /\ MustRotate(n) /\ disk' = Rotated(n, TRUE, 0 .. k - 1) /\ Closed
        /\ Recorded(n, {}, 0 .. k - 1)
    BY <1>12 DEF KillInRotation, Restarted
  <2>2. 0 .. k - 1 \in SUBSET Suffixes BY SinkAssumption DEF Suffixes
  <2>3. Fresh(Rotated(n, TRUE, 0 .. k - 1)) BY <2>1 DEF Fresh
  <2>4. /\ written' = written + n /\ kept' = (IF 0 \in 0 .. k - 1 THEN kept + 1 ELSE kept)
        /\ faults \subseteq faults'
    BY <2>1 DEF Recorded
  <2>5. TRUE /\ \E i \in 0 .. MaxCount : 0 .. k - 1 = 0 .. i - 1 OBVIOUS
  <2> QED BY ONLY <2>1, <2>2, <2>3, <2>4, <2>5, TypeOK, Opened, RotationStep, n \in 1 .. Longest
<1>13. CASE UNCHANGED vars BY <1>2, <1>13 DEF vars
<1>14. Tick \/ (\E c \in Callers : FlushNow(c)) => Flush BY DEF Tick, FlushNow
<1> QED
  BY <1>3, <1>4, <1>5, <1>6, <1>7, <1>8, <1>9, <1>10, <1>11, <1>12, <1>13, <1>14
     DEF Next, LoopStep, CallerStep

\* The types are kept by every step.
LEMMA TypesStep ==
  ASSUME TypeOK, Opened, [Next]_vars
  PROVE  TypeOK'
<1>1. /\ SinkTypes' /\ kept' \in {kept, kept + 1}
      /\ written' = written \/ \E n \in 1 .. Longest : CanWrite /\ written' = written + n
  BY StepEffect DEF OtherStep, WriteStep, Sized, Keeps, Writes
<1>2. /\ disk' \in [Paths -> [Suffixes -> Seq(1 .. MaxWritten) \cup {None}]]
      /\ fileSize' \in Nat /\ broken' \in BOOLEAN /\ buffer' \in Seq(1 .. MaxWritten)
      /\ fileSink' = None => buffer' = <<>> /\ ~broken'
  BY <1>1 DEF SinkTypes, Disks, Bytes
<1>3. kept \in Nat /\ written \in 0 .. MaxWritten BY DEF TypeOK
<1>4. kept' \in Nat BY <1>1, <1>3
<1>5. written' \in 0 .. MaxWritten
  <2>1. \A n \in 1 .. Longest : CanWrite => written + n \in 0 .. MaxWritten BY LineInHand
  <2> QED BY <1>1, <1>3, <2>1
<1> DEFINE Rest == /\ fileSinkPath \in Paths \cup {None}
                   /\ fileSink \in {fileSinkPath, None}
                   /\ fileEnabled \in BOOLEAN
                   /\ loop \in {"select", "write"}
                   /\ loop = "write" => written + Longest <= MaxWritten
                   /\ pc \in [Callers -> {"idle", "flush", "enable"}]
                   /\ faults \in SUBSET {"write", "rename"} /\ refused \in BOOLEAN
<1>6. Rest BY DEF TypeOK
<1> USE DEF history, sinkVars
<1>7. ASSUME PassGate PROVE Rest' BY <1>6, <1>7 DEF PassGate
<1>8. ASSUME FindClosed PROVE Rest' BY <1>6, <1>8 DEF FindClosed
<1>9. ASSUME WriteFails PROVE Rest' BY <1>6, <1>9 DEF WriteFails, Closed
<1>10. ASSUME NEW n \in 1 .. Longest, WriteLine(n) PROVE Rest' BY <1>6, <1>10 DEF WriteLine
<1>11. ASSUME NEW n \in 1 .. Longest, NEW ok \in BOOLEAN, NEW stuck \in SUBSET Suffixes,
              WriteAndRotate(n, ok, stuck) \/ RotateFails(n, ok, stuck)
       PROVE  Rest'
  BY <1>6, <1>11 DEF WriteAndRotate, RotateFails, Recorded, RotationFaults, OpenFileSink, Closed
<1>12. ASSUME Flush, UNCHANGED <<fileSinkPath, fileEnabled, loop>>,
              pc' \in [Callers -> {"idle", "flush", "enable"}]
       PROVE  Rest'
  BY <1>6, <1>12 DEF Flush
<1>13. ASSUME Tick PROVE Rest' BY <1>6, <1>12, <1>13 DEF Tick
<1>14. ASSUME NEW path \in Paths \cup {None}, SetPath(path) PROVE Rest'
  BY <1>6, <1>14 DEF SetPath, CloseFileSink, OpenFileSink, Closed
<1>15. ASSUME NEW path \in Paths \cup {None}, SetPathFails(path) PROVE Rest'
  BY <1>6, <1>15 DEF SetPathFails, CloseFileSink, Closed
<1>16. ASSUME NEW c \in Callers, SwitchOff(c) \/ Enable(c) PROVE Rest'
  BY <1>6, <1>16 DEF SwitchOff, Enable
<1>17. ASSUME NEW c \in Callers, Reopen(c) PROVE Rest'
  BY <1>6, <1>17 DEF Reopen, OpenFileSink
<1>18. ASSUME NEW c \in Callers, FlushNow(c) PROVE Rest'
  BY <1>6, <1>12, <1>18 DEF FlushNow
<1>19. ASSUME Kill PROVE Rest' BY <1>6, <1>19 DEF Kill, Restarted, Closed
<1>20. ASSUME NEW n \in 1 .. Longest, NEW k \in 0 .. MaxCount, KillInRotation(n, k) PROVE Rest'
  BY <1>6, <1>20 DEF KillInRotation, Recorded, Restarted, Closed
<1>21. ASSUME UNCHANGED vars PROVE Rest' BY <1>6, <1>21 DEF vars
<1>22. Rest'
  <2> HIDE DEF Rest, history, sinkVars
  <2> QED
    BY <1>7, <1>8, <1>9, <1>10, <1>11, <1>13, <1>14, <1>15, <1>16, <1>17, <1>18, <1>19, <1>20, <1>21
       DEF Next, LoopStep, CallerStep
<1> QED BY <1>2, <1>4, <1>5, <1>22 DEF TypeOK

\* The order is kept by every step.
LEMMA SortedStep ==
  ASSUME TypeOK, Opened, Sorted, [Next]_vars
  PROVE  Sorted'
<1>1. SinkTypes' BY StepEffect DEF OtherStep, WriteStep, Keeps, Writes
<1>2. \A path \in Paths : Whole(path) \in Files /\ Whole(path)' \in Files
  BY <1>1, SinkTyped, WholeTyped DEF SinkTypes, Whole
<1>3. written \in Nat BY DEF TypeOK
<1>4. CASE OtherStep
  <2> SUFFICES ASSUME NEW path \in Paths
               PROVE  Ordered(Whole(path)') /\ UpTo(Whole(path)', written')
    BY DEF Sorted
  <2>1. Within(Whole(path)', Whole(path)) /\ written' = written
    BY <1>4, KeptWithin DEF OtherStep, Keeps
  <2>2. Ordered(Whole(path)) /\ UpTo(Whole(path), written) BY DEF Sorted
  <2> QED BY <1>2, <1>3, <2>1, <2>2, WithinOrdered
<1>5. ASSUME NEW n \in 1 .. Longest, WriteStep(n) PROVE Sorted'
  <2> SUFFICES ASSUME NEW path \in Paths
               PROVE  Ordered(Whole(path)') /\ UpTo(Whole(path)', written')
    BY DEF Sorted
  <2>1. CanWrite /\ Within(Whole(path)', Added(path, n)) /\ written' = written + n
    BY <1>5 DEF WriteStep, Writes
  <2>2. n \in Nat /\ written + n \in Nat /\ written <= written + n BY <1>3
  <2>3. Ordered(Whole(path)) /\ UpTo(Whole(path), written) BY DEF Sorted
  <2>4. UpTo(Whole(path), written + n) BY <1>2, <1>3, <2>2, <2>3, UpToMore
  <2>5. Added(path, n) \in Files /\ Ordered(Added(path, n)) /\ UpTo(Added(path, n), written + n)
    BY <1>2, <2>1, <2>3, <2>4, LongerOrdered DEF Added
  <2> QED BY <1>2, <2>1, <2>2, <2>5, WithinOrdered
<1> QED BY <1>4, <1>5, StepEffect

\* The size limit is kept by every step.
LEMMA SizesStep ==
  ASSUME TypeOK, Opened, Sizes, [Next]_vars
  PROVE  Sizes'
<1>1. kept \in Nat /\ Longest \in Nat /\ MaxBytes \in Nat BY SinkAssumption DEF TypeOK
<1>2. PICK room \in Nat : room = MaxBytes + kept * Longest
  <2>1. kept * Longest \in Nat BY <1>1
  <2> QED BY <1>1, <2>1
<1>3. room >= MaxBytes
  <2>1. kept * Longest \in Nat BY <1>1
  <2> QED BY <1>1, <1>2, <2>1
<1>4. MaxBytes + (kept + 1) * Longest = room + Longest BY <1>1, <1>2
<1>5. Short(room) BY <1>2 DEF Sizes
<1>6. Sized BY StepEffect DEF OtherStep, WriteStep, Keeps, Sized
<1>7. CASE kept' = kept /\ Short(room)'
  <2>1. room = MaxBytes + kept' * Longest BY <1>2, <1>7
  <2> QED BY <1>7, <2>1 DEF Sizes
<1>8. CASE kept' = kept + 1 /\ Short(room + Longest)'
  <2>1. room + Longest = MaxBytes + kept' * Longest BY <1>4, <1>8
  <2> QED BY <1>8, <2>1 DEF Sizes
<1> QED BY <1>3, <1>5, <1>6, <1>7, <1>8 DEF Sized

\* The disk once the flush before a rotation is made.
Full(n) == Flushed(disk, WithLine(n), TRUE)

\* Renames down to suffix k leave a gap there, the files below it in their places
\* and those above a place further.
Shifts(before, after, k) ==
  \A i \in Suffixes :
    after[i] = IF i < k THEN before[i] ELSE IF i = k THEN None ELSE before[i - 1]

\* The file that is rotated is full; it and the others move up from suffix k.
LEMMA RotatedAt ==
  ASSUME TypeOK, Opened, NEW n \in 1 .. Longest, MustRotate(n), NEW k \in 0 .. MaxCount
  PROVE  LET d == Rotated(n, TRUE, 0 .. k - 1)
         IN /\ d \in Disks
            /\ \A p \in Paths : p # fileSink => \A i \in Suffixes : d[p][i] = disk[p][i]
            /\ Shifts(Full(n)[fileSink], d[fileSink], k)
            /\ Full(n)[fileSink][0] # None
            /\ \A i \in Suffixes : /\ i # 0 => Full(n)[fileSink][i] = disk[fileSink][i]
                                   /\ Contents(Full(n)[fileSink][i]) = Added(fileSink, n)[i]
            /\ Len(Added(fileSink, n)[0]) >= MaxBytes
<1> DEFINE e == Full(n)
           d == Shifted(e, 0 .. k - 1)
           names == e[fileSink]
<1>1. SinkTypes /\ CanWrite /\ fileSize + n >= MaxBytes BY SinkTyped DEF MustRotate
<1>2. fileSink = fileSinkPath /\ fileSink \in Paths /\ n \in Nat BY <1>1, LineInHand
<1>3. /\ e \in Disks
      /\ \A p \in Paths, i \in Suffixes :
           e[p][i] = IF p = fileSink /\ i = 0 THEN Added(p, n)[i] ELSE disk[p][i]
  BY <1>1, FilledFiles DEF Full
<1> HIDE DEF e
<1>4. 0 .. k - 1 \in SUBSET Suffixes BY SinkAssumption DEF Suffixes
<1>5. /\ d \in Disks
      /\ \A p \in Paths, i \in Suffixes :
           d[p][i] = IF p # fileSinkPath THEN e[p][i]
                     ELSE IF i - 1 \in {j \in Suffixes : e[fileSinkPath][j] # None /\ j \notin 0 .. k - 1}
                          THEN e[fileSinkPath][i - 1]
                     ELSE IF i \in {j \in Suffixes : e[fileSinkPath][j] # None /\ j \notin 0 .. k - 1}
                          THEN None ELSE e[fileSinkPath][i]
  BY ONLY <1>2, <1>3, <1>4, ShiftedAt
<1> HIDE DEF d
<1>6. \A p \in Paths : p # fileSink => \A i \in Suffixes : d[p][i] = disk[p][i]
  BY <1>2, <1>3, <1>5
<1>7. Shifts(names, d[fileSink], k)
  <2> SUFFICES ASSUME NEW i \in Suffixes
               PROVE  d[fileSink][i] = IF i < k THEN names[i]
                                       ELSE IF i = k THEN None ELSE names[i - 1]
    BY DEF Shifts
  <2> HIDE DEF names
  <2>1. i \in Nat /\ k \in Nat BY SuffixZero
  <2>2. d[fileSink][i] = IF i - 1 \in Suffixes /\ names[i - 1] # None /\ i - 1 \notin 0 .. k - 1
                         THEN names[i - 1]
                         ELSE IF names[i] # None /\ i \notin 0 .. k - 1 THEN None ELSE names[i]
    BY <1>2, <1>5 DEF names
  <2>3. CASE i < k
    <3>1. i \in 0 .. k - 1 /\ (i - 1 \in Suffixes => i - 1 \in 0 .. k - 1)
      BY <2>1, <2>3, SuffixZero
    <3> QED BY <2>2, <2>3, <3>1
  <2>4. CASE i = k
    <3>1. i \notin 0 .. k - 1 /\ (i - 1 \in Suffixes => i - 1 \in 0 .. k - 1)
      BY <2>1, <2>4, SuffixZero
    <3> QED BY <2>1, <2>2, <2>4, <3>1
  <2>5. CASE i > k
    <3>1. i - 1 \in Suffixes /\ i \notin 0 .. k - 1 /\ i - 1 \notin 0 .. k - 1
      BY <2>1, <2>5, SinkAssumption DEF Suffixes
    <3> QED BY <2>1, <2>2, <2>5, <3>1
  <2> QED BY <2>1, <2>3, <2>4, <2>5
<1>8. ASSUME NEW i \in Suffixes
      PROVE  /\ i # 0 => names[i] = disk[fileSink][i]
             /\ Contents(names[i]) = Added(fileSink, n)[i]
             /\ i = 0 => names[i] # None
  <2>1. Added(fileSink, n)[i] \in Bytes BY <1>1, <1>2, AddedTyped DEF Files
  <2>2. CASE i = 0
    <3>1. names[i] = Added(fileSink, n)[i] BY <1>2, <1>3, <2>2
    <3>2. names[i] # None BY <2>1, <3>1, SinkAssumption DEF Bytes
    <3> QED BY <2>2, <3>1, <3>2 DEF Contents
  <2>3. CASE i # 0
    <3>1. names[i] = disk[fileSink][i] BY <1>2, <1>3, <2>3
    <3>2. Added(fileSink, n)[i] = Contents(disk[fileSink][i])
      BY <1>1, <1>2, <2>3, AddedTyped, SinkTyped
    <3> QED BY <2>3, <3>1, <3>2
  <2> QED BY <2>2, <2>3
<1>9. Len(Added(fileSink, n)[0]) >= MaxBytes
  <2>1. disk[fileSink][0] # None /\ fileSize = Len(disk[fileSink][0]) + Len(buffer)
    BY <1>2, SinkAssumption DEF Opened
  <2>2. disk[fileSink][0] \in Bytes /\ buffer \in Bytes
    BY <1>1, <1>2, <2>1, FileRead, SuffixZero DEF SinkTypes
  <2>3. Whole(fileSink)[0] = disk[fileSink][0] \o buffer
    BY <1>2, <2>1, SinkTyped, SuffixZero DEF Contents
  <2>4. Len(Whole(fileSink)[0]) = fileSize BY <2>1, <2>2, <2>3 DEF Bytes
  <2>5. Len(Added(fileSink, n)[0]) = Len(Whole(fileSink)[0]) + n
    BY <1>1, <1>2, AddedTyped, SuffixZero
  <2> QED BY <1>1, <2>4, <2>5
<1>10. d = Rotated(n, TRUE, 0 .. k - 1) BY DEF d, e, Rotated, Full
<1> QED BY <1>5, <1>6, <1>7, <1>8, <1>9, <1>10, SuffixZero DEF e, names

\* The gaps below a suffix are of finite number.
LEMMA GapsFinite ==
  ASSUME NEW names, NEW i \in Nat
  PROVE  IsFiniteSet(Gaps(names, i)) /\ Cardinality(Gaps(names, i)) \in Nat
<1>1. Gaps(names, i) \subseteq 1 .. i - 1 BY DEF Gaps
<1>2. IsFiniteSet(1 .. i - 1) BY FS_Interval
<1>3. IsFiniteSet(Gaps(names, i)) BY <1>1, <1>2, FS_Subset, Zenon
<1> QED BY <1>3, FS_CardinalityType

\* Below a file that moved there is one gap more, or none if all of them moved.
LEMMA GapsShifted ==
  ASSUME NEW before, NEW after, NEW k \in Nat, Shifts(before, after, k),
         before[0] # None, NEW i \in Suffixes, i > k
  PROVE  Cardinality(Gaps(after, i)) <= Cardinality(Gaps(before, i - 1)) + (IF k = 0 THEN 0 ELSE 1)
<1> DEFINE old == Gaps(before, i - 1)
           new == Gaps(after, i)
           place == [j \in old |-> IF j < k THEN j ELSE j + 1]
           moved == {place[j] : j \in old}
<1>1. i \in Nat /\ i - 1 \in Nat /\ i - 1 \in Suffixes
  BY SuffixZero, SinkAssumption DEF Suffixes
<1>2. IsFiniteSet(old) /\ Cardinality(old) \in Nat BY <1>1, GapsFinite
<1>3. IsFiniteSet(moved) /\ Cardinality(moved) <= Cardinality(old)
  <2>1. place \in Surjection(old, moved)
    <3> HIDE DEF old
    <3>1. DOMAIN place = old OBVIOUS
    <3> HIDE DEF place
    <3>2. place \in [old -> moved] /\ \A t \in moved : \E j \in old : place[j] = t
      <4>1. place = [j \in old |-> place[j]] BY <3>1 DEF place
      <4> QED BY <4>1
    <3> QED BY <3>2 DEF Surjection
  <2> HIDE DEF old, moved, place
  <2> QED BY <1>2, <2>1, FS_Surjection
<1>4. Cardinality(moved) \in Nat BY <1>3, FS_CardinalityType
<1>5. IsFiniteSet(new) /\ Cardinality(new) \in Nat BY <1>1, GapsFinite
<1>6. ASSUME NEW j \in new, j # k PROVE j \in moved
  <2>1. j \in 1 .. i - 1 /\ after[j] = None BY DEF new, Gaps
  <2>2. j \in Suffixes /\ j \in Nat /\ j > 0 BY <1>1, <2>1, SinkAssumption DEF Suffixes
  <2>3. after[j] = IF j < k THEN before[j] ELSE before[j - 1] BY <1>6, <2>2 DEF Shifts
  <2>4. CASE j < k
    <3>1. j \in 1 .. (i - 1) - 1 BY <1>1, <2>1, <2>4
    <3>2. j \in old BY <2>1, <2>3, <2>4, <3>1 DEF old, Gaps
    <3>3. place[j] = j BY <2>4, <3>2
    <3> QED BY <3>2, <3>3
  <2>5. CASE j > k
    <3>1. before[j - 1] = None BY <2>1, <2>2, <2>3, <2>5
    <3>2. j - 1 # 0 BY <3>1
    <3>3. j - 1 \in 1 .. (i - 1) - 1 BY <1>1, <2>1, <2>2, <3>2
    <3>4. j - 1 \in old BY <3>1, <3>3 DEF old, Gaps
    <3>5. place[j - 1] = j BY <2>2, <2>5, <3>4
    <3> QED BY <3>4, <3>5
  <2> QED BY <1>6, <2>2, <2>4, <2>5
<1>7. CASE k = 0
  <2>1. 0 \notin new BY DEF new, Gaps
  <2>2. new \subseteq moved BY <1>6, <1>7, <2>1
  <2> HIDE DEF new, moved
  <2>3. Cardinality(new) <= Cardinality(moved) BY <1>3, <2>2, FS_Subset, Zenon
  <2> QED BY <1>2, <1>3, <1>4, <1>5, <1>7, <2>3 DEF new, old
<1>8. CASE k # 0
  <2>1. new \subseteq moved \cup {k} BY <1>6
  <2> HIDE DEF new, moved, old, place
  <2>2. IsFiniteSet(moved \cup {k}) /\ Cardinality(moved \cup {k}) \in Nat
    BY <1>3, FS_AddElement, FS_CardinalityType
  <2>3. Cardinality(moved \cup {k}) <= Cardinality(moved) + 1
    <3>1. Cardinality(moved \cup {k}) = IF k \in moved THEN Cardinality(moved) ELSE Cardinality(moved) + 1
      BY <1>3, FS_AddElement, Zenon
    <3> QED BY <1>4, <3>1
  <2>4. Cardinality(new) <= Cardinality(moved \cup {k}) BY <2>1, <2>2, FS_Subset, Zenon
  <2> QED BY <1>2, <1>3, <1>4, <1>5, <1>8, <2>2, <2>3, <2>4 DEF new, old
<1> QED BY <1>7, <1>8

\* A rotation without a fault of the disk is one of these.
LEMMA RotatesAt ==
  ASSUME TypeOK, Opened, NEW n \in 1 .. Longest, Rotates(n), faults' = {}
  PROVE  \E k \in 0 .. MaxCount :
           /\ MustRotate(n) /\ Fresh(Rotated(n, TRUE, 0 .. k - 1))
           /\ kept' = kept + (IF k = 0 THEN 0 ELSE 1)
<1>1. PICK ok \in BOOLEAN, stuck \in SUBSET Suffixes :
        /\ MustRotate(n) /\ Fresh(Rotated(n, ok, stuck))
        /\ ok /\ \E k \in 0 .. MaxCount : stuck = 0 .. k - 1
        /\ kept' = IF 0 \in stuck THEN kept + 1 ELSE kept
  BY DEF Rotates
<1>2. PICK k \in 0 .. MaxCount : stuck = 0 .. k - 1 BY <1>1
<1>3. 0 \in 0 .. k - 1 <=> k # 0 OBVIOUS
<1>4. kept \in Nat BY DEF TypeOK
<1>5. ok = TRUE BY <1>1
<1>6. kept' = kept + (IF k = 0 THEN 0 ELSE 1) BY <1>1, <1>2, <1>3, <1>4
<1>7. Fresh(Rotated(n, TRUE, 0 .. k - 1)) BY <1>1, <1>2, <1>5
<1> QED BY <1>1, <1>6, <1>7

\* Unless the disk fails the files stay full, and no more are missing, by every step.
LEMMA FilledStep ==
  ASSUME TypeOK, Opened, Filled, [Next]_vars
  PROVE  Filled'
<1> SUFFICES ASSUME faults' = {},
                    NEW path \in Paths, NEW i \in Suffixes, i # 0, disk'[path][i] # None
             PROVE  /\ Len(disk'[path][i]) >= MaxBytes
                    /\ Cardinality(Gaps(disk'[path], i)) <= kept'
  BY DEF Filled, Gaps
<1>1. \A p \in Paths, k \in Suffixes : k # 0 /\ disk[p][k] # None =>
        Len(disk[p][k]) >= MaxBytes /\ Cardinality(Gaps(disk[p], k)) <= kept
  BY StepEffect DEF Filled
<1>2. kept \in Nat /\ kept' \in Nat /\ kept <= kept'
  BY StepEffect DEF OtherStep, WriteStep, Sized, TypeOK
<1>3. \A j \in Suffixes : j \in Nat BY SuffixZero
\* A path whose older files are left alone.
<1>4. ASSUME \A k \in Suffixes : k # 0 => disk'[path][k] = disk[path][k]
      PROVE  /\ Len(disk'[path][i]) >= MaxBytes
             /\ Cardinality(Gaps(disk'[path], i)) <= kept'
  <2>1. \A j \in 1 .. i - 1 : j \in Suffixes /\ j # 0 BY SinkAssumption DEF Suffixes
  <2>2. Gaps(disk'[path], i) = Gaps(disk[path], i) BY <1>4, <2>1 DEF Gaps
  <2>3. Len(disk[path][i]) >= MaxBytes /\ Cardinality(Gaps(disk[path], i)) <= kept
    BY <1>1, <1>4
  <2>4. Cardinality(Gaps(disk[path], i)) \in Nat BY <1>3, GapsFinite
  <2> QED BY <1>2, <1>4, <2>2, <2>3, <2>4
<1>5. CASE Grown(disk') BY <1>4, <1>5 DEF Grown
<1>6. ASSUME NEW n \in 1 .. Longest, Rotates(n)
      PROVE  /\ Len(disk'[path][i]) >= MaxBytes
             /\ Cardinality(Gaps(disk'[path], i)) <= kept'
  <2>1. PICK k \in 0 .. MaxCount :
          /\ MustRotate(n) /\ Fresh(Rotated(n, TRUE, 0 .. k - 1))
          /\ kept' = kept + (IF k = 0 THEN 0 ELSE 1)
    BY <1>6, RotatesAt
  <2> DEFINE d == Rotated(n, TRUE, 0 .. k - 1)
             before == Full(n)[fileSink]
  <2>2. /\ d \in Disks
        /\ \A p \in Paths : p # fileSink => \A j \in Suffixes : d[p][j] = disk[p][j]
        /\ Shifts(before, d[fileSink], k)
        /\ before[0] # None
        /\ \A j \in Suffixes : /\ j # 0 => before[j] = disk[fileSink][j]
                               /\ Contents(before[j]) = Added(fileSink, n)[j]
        /\ Len(Added(fileSink, n)[0]) >= MaxBytes
    BY <2>1, RotatedAt
  <2>3. d \in Disks /\ Fresh(d) BY <2>1, <2>2
  <2> HIDE DEF d, before
  <2>4. \A j \in Suffixes : j # 0 => disk'[path][j] = d[path][j] BY <2>3, FreshFiles
  <2>5. CASE path # fileSink BY <1>4, <2>2, <2>4, <2>5
  <2>6. CASE path = fileSink /\ i < k
    <3>1. disk'[path][i] = disk[path][i]
      BY <2>2, <2>4, <2>6 DEF Shifts
    <3>2. Len(disk[path][i]) >= MaxBytes /\ Cardinality(Gaps(disk[path], i)) <= kept
      BY <1>1, <3>1
    <3>3. \A j \in 1 .. i - 1 : disk'[path][j] = disk[path][j]
      <4>1. \A j \in 1 .. i - 1 : j \in Suffixes /\ j # 0 /\ j < k
        BY <1>3, <2>6, SinkAssumption DEF Suffixes
      <4> QED BY <2>2, <2>4, <2>6, <4>1 DEF Shifts
    <3>4. Gaps(disk'[path], i) = Gaps(disk[path], i) BY <3>3 DEF Gaps
    <3>5. Cardinality(Gaps(disk[path], i)) \in Nat BY <1>3, GapsFinite
    <3> QED BY <1>2, <3>1, <3>2, <3>4, <3>5
  <2>7. CASE path = fileSink /\ i > k
    <3>1. i - 1 \in Suffixes /\ i - 1 \in Nat BY <1>3, SinkAssumption DEF Suffixes
    <3>2. disk'[path][i] = before[i - 1] BY <1>3, <2>2, <2>4, <2>7 DEF Shifts
    <3>3. Len(before[i - 1]) >= MaxBytes /\ Cardinality(Gaps(before, i - 1)) <= kept
      <4>1. CASE i - 1 = 0
        <5>1. Contents(before[0]) = before[0] BY <2>2 DEF Contents
        <5>2. Gaps(before, i - 1) = {} BY <4>1 DEF Gaps
        <5>3. Cardinality(Gaps(before, i - 1)) = 0 BY <5>2, FS_EmptySet
        <5>4. Len(before[0]) >= MaxBytes BY <2>2, <5>1, SuffixZero
        <5> QED BY <1>2, <4>1, <5>3, <5>4
      <4>2. CASE i - 1 # 0
        <5>1. before[i - 1] = disk[path][i - 1] BY <2>2, <2>7, <3>1, <4>2
        <5>2. \A j \in 1 .. (i - 1) - 1 : j \in Suffixes /\ j # 0
          BY <1>3, SinkAssumption DEF Suffixes
        <5>3. Gaps(before, i - 1) = Gaps(disk[path], i - 1)
          BY <2>2, <2>7, <5>2 DEF Gaps
        <5> QED BY <1>1, <3>1, <3>2, <4>2, <5>1, <5>3
      <4> QED BY <4>1, <4>2
    <3>4. Gaps(disk'[path], i) = Gaps(d[fileSink], i)
      <4>1. \A j \in 1 .. i - 1 : j \in Suffixes /\ j # 0 BY <1>3, SinkAssumption DEF Suffixes
      <4> QED BY <2>4, <2>7, <4>1 DEF Gaps
    <3>5. Cardinality(Gaps(d[fileSink], i)) <= Cardinality(Gaps(before, i - 1)) + (IF k = 0 THEN 0 ELSE 1)
      BY <2>2, <2>7, GapsShifted
    <3>6. Cardinality(Gaps(d[fileSink], i)) \in Nat /\ Cardinality(Gaps(before, i - 1)) \in Nat
      BY <1>3, <3>1, GapsFinite
    <3>7. Cardinality(Gaps(disk'[path], i)) <= kept'
      BY <1>2, <2>1, <3>3, <3>4, <3>5, <3>6
    <3> QED BY <3>2, <3>3, <3>7
  <2>8. path = fileSink => i # k BY <1>3, <2>2, <2>4 DEF Shifts
  <2> QED BY <1>3, <2>5, <2>6, <2>7, <2>8
<1> QED BY <1>5, <1>6, StepEffect DEF OtherStep, WriteStep, Keeps

\* A byte that goes in a step without a fault of the disk was in the last file when
\* a rotation dropped it; the files below it that are there stay, full and newer.
LEMMA RecentStep ==
  ASSUME TypeOK, Opened, Sorted, Filled, [Next]_vars,
         NEW path \in Paths, NEW b \in BytesOf(disk, path) \ BytesOf(disk', path),
         faults' = {}
  PROVE  Cardinality(FullSince(disk', path, b)) >= MaxCount - 1 - kept'
<1> DEFINE last == MaxCount - 1
           T == FullSince(disk', path, b)
<1>1. SinkTypes /\ SinkTypes' BY SinkTyped, StepEffect DEF OtherStep, WriteStep, Keeps, Writes
<1>2. last \in Nat \ {0} /\ Suffixes = 0 .. last BY SinkAssumption DEF Suffixes
<1>3. \A d \in Disks : \A i \in Suffixes :
        /\ DOMAIN Contents(d[path][i]) = 1 .. Len(Contents(d[path][i]))
        /\ Len(Contents(d[path][i])) \in Nat
  BY FileRead DEF Bytes
<1>4. PICK i \in Suffixes : \E j \in 1 .. Len(Contents(disk[path][i])) :
         b = Contents(disk[path][i])[j]
  <2>1. PICK i \in Suffixes :
          b \in {Contents(disk[path][i])[j] : j \in DOMAIN Contents(disk[path][i])}
    BY DEF BytesOf
  <2>2. DOMAIN Contents(disk[path][i]) = 1 .. Len(Contents(disk[path][i]))
    BY <1>1, <1>3 DEF SinkTypes
  <2> QED BY <2>1, <2>2
<1>5. PICK j \in 1 .. Len(Contents(disk[path][i])) : b = Contents(disk[path][i])[j]
  BY <1>4
<1>6. \A k \in Suffixes : \A m \in 1 .. Len(Contents(disk'[path][k])) :
        Contents(disk'[path][k])[m] \in BytesOf(disk', path)
  <2>1. \A k \in Suffixes :
          DOMAIN Contents(disk'[path][k]) = 1 .. Len(Contents(disk'[path][k]))
    BY <1>1, <1>3 DEF SinkTypes
  <2> SUFFICES ASSUME NEW k \in Suffixes, NEW m \in 1 .. Len(Contents(disk'[path][k]))
               PROVE  Contents(disk'[path][k])[m] \in BytesOf(disk', path)
    OBVIOUS
  <2>2. m \in DOMAIN Contents(disk'[path][k]) BY <2>1
  <2>3. Contents(disk'[path][k])[m] \in
          {Contents(disk'[path][k])[x] : x \in DOMAIN Contents(disk'[path][k])}
    BY ONLY <2>2
  <2> QED BY ONLY <2>3, k \in Suffixes DEF BytesOf
<1>7. ~Grown(disk')
  <2> SUFFICES ASSUME Grown(disk') PROVE FALSE
    OBVIOUS
  <2>1. /\ Len(Contents(disk[path][i])) <= Len(Contents(disk'[path][i]))
        /\ Contents(disk[path][i])[j] = Contents(disk'[path][i])[j]
    BY <1>5 DEF Grown
  <2>2. j \in 1 .. Len(Contents(disk'[path][i])) BY <1>1, <1>3, <2>1 DEF SinkTypes
  <2> QED BY <1>5, <1>6, <2>1, <2>2
<1>8. PICK n \in 1 .. Longest : Rotates(n) /\ kept \in Nat /\ kept' \in Nat /\ kept <= kept'
  <2>1. kept \in Nat BY DEF TypeOK
  <2> QED BY <1>7, <2>1, StepEffect DEF OtherStep, Keeps, WriteStep, Sized
<1>9. PICK k \in 0 .. MaxCount : MustRotate(n) /\ Fresh(Rotated(n, TRUE, 0 .. k - 1))
  BY <1>8, RotatesAt
<1> DEFINE d == Rotated(n, TRUE, 0 .. k - 1)
           before == Full(n)[fileSink]
           added == Added(path, n)
<1>10. /\ d \in Disks
       /\ \A p \in Paths : p # fileSink => \A m \in Suffixes : d[p][m] = disk[p][m]
       /\ Shifts(before, d[fileSink], k)
       /\ before[0] # None
       /\ \A m \in Suffixes : /\ m # 0 => before[m] = disk[fileSink][m]
                              /\ Contents(before[m]) = Added(fileSink, n)[m]
       /\ Len(Added(fileSink, n)[0]) >= MaxBytes
  BY <1>9, RotatedAt
<1>11. d \in Disks /\ Fresh(d) BY <1>9, <1>10
<1>12. CanWrite /\ fileSink \in Paths /\ n \in Nat BY <1>9, LineInHand DEF MustRotate
<1> HIDE DEF d, before, T
<1>13. \A m \in Suffixes : Contents(disk'[path][m]) = Contents(d[path][m])
  BY <1>11, FreshFiles
<1>14. path = fileSink BY <1>5, <1>6, <1>10, <1>13
<1>15. added \in Files /\ Ordered(added)
  <2>1. Whole(path) \in Files /\ Ordered(Whole(path)) /\ UpTo(Whole(path), written)
    BY SinkTyped DEF Sorted
  <2> QED BY <1>12, <1>14, <2>1, LongerOrdered DEF Added
\* The place of a file afterwards, where it holds what it held with the line in hand.
<1> DEFINE place(m) == IF m < k THEN m ELSE m + 1
<1>16. ASSUME NEW m \in Suffixes, m < k \/ m < last
       PROVE  place(m) \in Suffixes /\ Contents(disk'[path][place(m)]) = added[m]
  <2>1. m \in Nat /\ k \in Nat BY <1>2
  <2>2. place(m) \in Suffixes BY <1>2, <1>16, <2>1
  <2>3. d[path][place(m)] = before[m]
    <3>1. CASE m < k BY <1>10, <1>14, <3>1 DEF Shifts
    <3>2. CASE ~(m < k)
      <4>1. place(m) = m + 1 /\ ~(m + 1 < k) /\ m + 1 # k /\ (m + 1) - 1 = m BY <2>1, <3>2
      <4> QED BY <1>10, <1>14, <2>2, <4>1 DEF Shifts
    <3> QED BY <3>1, <3>2
  <2>4. Contents(before[m]) = added[m] BY <1>10, <1>14
  <2> QED BY <1>13, <2>2, <2>3, <2>4
<1>17. j \in 1 .. Len(added[i]) /\ added[i][j] = b
  <2>1. /\ Len(Contents(disk[path][i])) <= Len(added[i])
        /\ \A m \in 1 .. Len(Contents(disk[path][i])) : Contents(disk[path][i])[m] = added[i][m]
    <3>1. Flushed(disk, WithLine(n), FALSE) = disk BY DEF Flushed
    <3>2. Kept([m \in Suffixes |-> Contents(disk[path][m])], added) BY <1>12, <3>1, FilledFiles
    <3> QED BY <3>2 DEF Kept
  <2>2. Len(added[i]) \in Nat /\ Len(Contents(disk[path][i])) \in Nat
    BY <1>1, <1>3, <1>15 DEF Files, Bytes, SinkTypes
  <2> QED BY <1>5, <2>1, <2>2
\* The byte was in the last file: any other is in its place.
<1>18. i = last /\ ~(last < k)
  <2> SUFFICES ASSUME i # last \/ last < k PROVE FALSE
    OBVIOUS
  <2>1. i < k \/ i < last BY <1>2
  <2>2. place(i) \in Suffixes /\ Contents(disk'[path][place(i)]) = added[i] BY <1>16, <2>1
  <2> HIDE DEF place, added
  <2> QED BY <1>5, <1>6, <1>17, <2>2
<1> HIDE DEF added
<1> DEFINE E == (0 .. last - 1) \ Gaps(disk[path], last)
           to == [m \in E |-> place(m)]
<1>19. ASSUME NEW m \in E PROVE m \in Suffixes /\ m < last /\ place(m) \in T
  <2>1. m \in 0 .. last - 1 /\ m \in Suffixes /\ m < last /\ (m = 0 \/ disk[path][m] # None)
    BY <1>2 DEF Gaps
  <2>2. place(m) \in Suffixes /\ Contents(disk'[path][place(m)]) = added[m] BY <1>16, <2>1
  <2>3. Len(added[m]) >= MaxBytes
    <3>1. CASE m = 0 BY <1>10, <1>14, <3>1 DEF added
    <3>2. CASE m # 0
      <4>1. disk[path][m] # None /\ before[m] = disk[path][m] BY <1>10, <1>14, <2>1, <3>2
      <4>2. faults = {} BY StepEffect
      <4>3. Len(disk[path][m]) >= MaxBytes BY <2>1, <3>2, <4>1, <4>2 DEF Filled
      <4>4. Contents(before[m]) = before[m] BY <4>1 DEF Contents
      <4> QED BY <1>10, <1>14, <2>1, <4>1, <4>3, <4>4 DEF added
    <3> QED BY <3>1, <3>2
  <2>4. DOMAIN added[m] = 1 .. Len(added[m]) BY <1>15, <2>1 DEF Files, Bytes
  <2>5. ASSUME NEW x \in DOMAIN added[m] PROVE added[m][x] > b
    <3>1. x \in 1 .. Len(added[m]) /\ last \in Suffixes /\ last > m BY <1>2, <2>1, <2>4
    <3>2. added[last][j] < added[m][x] BY <1>15, <1>17, <1>18, <2>1, <3>1 DEF Ordered
    <3>3. added[last][j] \in Nat /\ added[m][x] \in Nat
      BY <1>15, <1>17, <1>18, <2>1, <3>1, ByteNumbers
    <3> QED BY <1>17, <1>18, <3>2, <3>3
  <2> HIDE DEF place
  <2> QED BY <2>1, <2>2, <2>3, <2>5 DEF T, FullSince
<1>20. IsFiniteSet(T)
  <2>1. T \subseteq Suffixes BY DEF T, FullSince
  <2>2. IsFiniteSet(Suffixes) BY <1>2, FS_Interval
  <2> QED BY <2>1, <2>2, FS_Subset, Zenon
<1>21. to \in Injection(E, T)
  <2>1. \A m \in E : m \in Nat BY <1>19, SuffixZero
  <2>2. \A x, y \in E : place(x) = place(y) => x = y BY <2>1
  <2>3. \A m \in E : to[m] = place(m) /\ place(m) \in T BY <1>19
  <2>4. DOMAIN to = E /\ to = [m \in E |-> to[m]] OBVIOUS
  <2> HIDE DEF to, place, E
  <2>5. to \in [E -> T] BY <2>3, <2>4
  <2>6. \A x, y \in E : to[x] = to[y] => x = y BY <2>2, <2>3, Zenon
  <2> QED BY <2>4, <2>5, <2>6 DEF Injection, IsInjective
<1> HIDE DEF to, place
<1>22. Cardinality(E) <= Cardinality(T) BY <1>20, <1>21, FS_Injection
<1>23. Cardinality(Gaps(disk[path], last)) <= kept
  <2>1. last \in Suffixes /\ last # 0 BY <1>2
  <2>2. disk[path][last] # None
    <3>1. Len(Contents(disk[path][last])) # 0
      <4>1. Len(Contents(disk[path][i])) \in Nat BY <1>1, <1>3 DEF SinkTypes
      <4> QED BY <1>5, <1>18, <4>1
    <3>2. Contents(None) = <<>> /\ Len(<<>>) = 0 BY DEF Contents
    <3> QED BY <3>1, <3>2
  <2>3. faults = {} BY StepEffect
  <2> QED BY <2>1, <2>2, <2>3 DEF Filled
<1>24. /\ Cardinality(E) \in Nat
       /\ Cardinality(E) >= last - Cardinality(Gaps(disk[path], last))
  <2> DEFINE G == Gaps(disk[path], last)
             I == 0 .. last - 1
  <2>1. IsFiniteSet(G) /\ Cardinality(G) \in Nat BY <1>2, GapsFinite
  <2>2. IsFiniteSet(I) /\ Cardinality(I) = last
    <3> HIDE DEF last
    <3>1. last - 1 \in Int /\ 0 \in Int /\ (last - 1) - 0 + 1 = last BY <1>2
    <3>2. IsFiniteSet(I) BY <3>1, FS_Interval
    <3>3. Cardinality(I) = IF 0 > last - 1 THEN 0 ELSE (last - 1) - 0 + 1 BY <3>1, FS_Interval
    <3> QED BY <1>2, <3>1, <3>2, <3>3
  <2> HIDE DEF G, I
  <2>3. IsFiniteSet(I \ G) /\ Cardinality(I \ G) = Cardinality(I) - Cardinality(I \cap G)
    BY <2>2, FS_Difference
  <2>4. I \cap G \subseteq G OBVIOUS
  <2>5. Cardinality(I \cap G) <= Cardinality(G) /\ IsFiniteSet(I \cap G)
    BY <2>1, <2>4, FS_Subset, Zenon
  <2>6. Cardinality(I \cap G) \in Nat /\ Cardinality(I \ G) \in Nat
    BY <2>3, <2>5, FS_CardinalityType
  <2>7. E = I \ G BY DEF I, G
  <2> HIDE DEF E
  <2>8. Cardinality(I \ G) >= last - Cardinality(G) BY <1>2, <2>1, <2>2, <2>3, <2>5, <2>6
  <2> QED BY <2>6, <2>7, <2>8 DEF G
<1>25. Cardinality(Gaps(disk[path], last)) \in Nat /\ Cardinality(T) \in Nat
  BY <1>2, <1>20, GapsFinite, FS_CardinalityType
<1> HIDE DEF E
<1>26. Cardinality(T) >= last - kept' BY <1>2, <1>8, <1>22, <1>23, <1>24, <1>25
<1> QED BY <1>26 DEF T

\* A file that closes, or does not open, is a failure that is remembered until the
\* file is asked for again.
LEMMA ClosedStep ==
  ASSUME TypeOK, ClosedOnlyByFailure, [Next]_vars
  PROVE  ClosedOnlyByFailure'
<1> USE DEF ClosedOnlyByFailure, history
<1>1. CASE PassGate BY <1>1 DEF PassGate, sinkVars
<1>2. CASE FindClosed BY <1>2 DEF FindClosed, sinkVars
<1>3. CASE WriteFails BY <1>3 DEF WriteFails
<1>4. ASSUME NEW n \in 1 .. Longest, WriteLine(n) PROVE ClosedOnlyByFailure'
  BY <1>4 DEF WriteLine
<1>5. ASSUME NEW n \in 1 .. Longest, NEW ok \in BOOLEAN, NEW stuck \in SUBSET Suffixes,
             WriteAndRotate(n, ok, stuck) \/ RotateFails(n, ok, stuck)
      PROVE  ClosedOnlyByFailure'
  BY <1>5 DEF WriteAndRotate, RotateFails, OpenFileSink
<1>6. CASE Flush /\ UNCHANGED fileSinkPath BY <1>6 DEF Flush, sinkVars
<1>7. ASSUME NEW path \in Paths \cup {None}, SetPath(path) PROVE ClosedOnlyByFailure'
  BY <1>7 DEF SetPath, CloseFileSink, OpenFileSink, Closed
<1>8. ASSUME NEW path \in Paths \cup {None}, SetPathFails(path) PROVE ClosedOnlyByFailure'
  BY <1>8 DEF SetPathFails
<1>9. ASSUME NEW c \in Callers, SwitchOff(c) \/ Enable(c) PROVE ClosedOnlyByFailure'
  BY <1>9 DEF SwitchOff, Enable, sinkVars
<1>10. ASSUME NEW c \in Callers, Reopen(c) PROVE ClosedOnlyByFailure'
  <2>1. fileSink \in {fileSinkPath, None} BY DEF TypeOK
  <2> QED BY <1>10, <2>1 DEF Reopen, OpenFileSink, sinkVars
<1>11. Restarted => fileSink' = fileSinkPath' BY DEF Restarted, Closed
<1>12. CASE Kill BY <1>11, <1>12 DEF Kill
<1>13. ASSUME NEW n \in 1 .. Longest, NEW k \in 0 .. MaxCount, KillInRotation(n, k)
       PROVE  ClosedOnlyByFailure'
  BY <1>11, <1>13 DEF KillInRotation
<1>14. CASE UNCHANGED vars BY <1>14 DEF vars, sinkVars
<1>15. Tick \/ (\E c \in Callers : FlushNow(c)) => Flush /\ UNCHANGED fileSinkPath
  BY DEF Tick, FlushNow
<1> HIDE DEF ClosedOnlyByFailure, history
<1> QED
  BY <1>1, <1>2, <1>3, <1>4, <1>5, <1>6, <1>7, <1>8, <1>9, <1>10, <1>12, <1>13, <1>14, <1>15
     DEF Next, LoopStep, CallerStep

-----------------------------------------------------------------------------
(* The theorems.                                                           *)

\* At the start there is no file, on the disk or open.
LEMMA InitInv == Init => Inv
<1> SUFFICES ASSUME Init PROVE Inv
  OBVIOUS
<1>1. TypeOK
  <2>1. disk \in [Paths -> [Suffixes -> Seq(1 .. MaxWritten) \cup {None}]] BY DEF Init
  <2>2. <<>> \in Seq(1 .. MaxWritten) OBVIOUS
  <2>3. pc \in [Callers -> {"idle", "flush", "enable"}] BY DEF Init
  <2>4. /\ fileSinkPath = None /\ fileSize = 0 /\ fileEnabled = FALSE
        /\ fileSink = None /\ buffer = <<>> /\ broken = FALSE
        /\ loop = "select" /\ written = 0 /\ faults = {} /\ kept = 0 /\ refused = FALSE
    BY DEF Init
  <2>5. 0 \in 0 .. MaxWritten /\ 0 \in Nat BY SinkAssumption
  <2>6. faults \in SUBSET {"write", "rename"} BY <2>4
  <2>7. loop # "write" BY <2>4
  <2> QED BY <2>1, <2>2, <2>3, <2>4, <2>5, <2>6, <2>7, Zenon DEF TypeOK
<1>2. Opened /\ ClosedOnlyByFailure BY DEF Init, Opened, ClosedOnlyByFailure
<1>3. \A path \in Paths, i \in Suffixes : Contents(disk[path][i]) = <<>>
  BY DEF Init, Contents
<1>4. \A path \in Paths, i \in Suffixes : Whole(path)[i] = <<>>
  BY <1>1, <1>3, SinkTyped, SinkAssumption DEF Init
<1>5. Sorted BY <1>4 DEF Sorted, Ordered, UpTo
<1>6. Sizes
  <2>1. MaxBytes + kept * Longest = MaxBytes /\ 0 < MaxBytes /\ 0 < MaxBytes + Longest
    BY SinkAssumption DEF Init
  <2>2. Len(<<>>) = 0 /\ fileSink = None BY DEF Init
  <2>3. ShortFiles(disk, MaxBytes) BY <1>3, <2>1, <2>2, SuffixZero DEF ShortFiles
  <2> QED BY <2>1, <2>2, <2>3 DEF Sizes, Short, ShortSink
<1>7. \A path \in Paths, i \in Suffixes : disk[path][i] = None BY DEF Init
<1>8. Filled BY <1>7 DEF Filled
<1> QED BY <1>1, <1>2, <1>5, <1>6, <1>8 DEF Inv

\* The file that is open matches what is counted of it.
LEMMA OpenedStep ==
  ASSUME TypeOK, Opened, [Next]_vars
  PROVE  Opened'
BY StepEffect DEF OtherStep, WriteStep, Keeps, Writes

\* The invariant holds in every state of log_file.go's sink.
THEOREM InvAlways == Spec => []Inv
<1>1. Inv /\ [Next]_vars => Inv'
  BY TypesStep, OpenedStep, ClosedStep, SortedStep, SizesStep, FilledStep DEF Inv
<1> QED BY <1>1, InitInv, PTL DEF Spec

\* The variables keep their types: what is open is the path that is set, and
\* with nothing open the buffer is empty.
THEOREM TypesCorrect == Spec => []TypeOK
<1>1. Inv => TypeOK BY DEF Inv
<1> QED BY <1>1, InvAlways, PTL

\* The bytes of a path come in the order they were written, none twice, through
\* rotations, failures, moves and restarts, for any number and size of files.
THEOREM LinesInOrder == Spec => []NewestFirst
<1>1. Inv => NewestFirst
  <2> SUFFICES ASSUME Inv, NEW path \in Paths
               PROVE  LET all(i) == FilesOf(path)[i] \o (IF i = 0 /\ fileSink = path THEN buffer ELSE <<>>)
                      IN \A i, j \in Suffixes : \A m \in DOMAIN all(i), n \in DOMAIN all(j) :
                           (i > j \/ (i = j /\ m < n)) => all(i)[m] < all(j)[n]
    BY DEF NewestFirst
  <2> DEFINE all(i) == FilesOf(path)[i] \o (IF i = 0 /\ fileSink = path THEN buffer ELSE <<>>)
  <2>1. \A i \in Suffixes : all(i) = Whole(path)[i] BY DEF FilesOf, Whole, WholeOf
  <2>2. \A i \in Suffixes : Whole(path)[i] \in Bytes BY SinkTyped DEF Inv, Files
  <2>3. \A i \in Suffixes : DOMAIN Whole(path)[i] = 1 .. Len(Whole(path)[i]) BY <2>2 DEF Bytes
  <2>4. Ordered(Whole(path)) BY DEF Inv, Sorted
  <2> HIDE DEF all
  <2>5. \A i, j \in Suffixes : \A m \in DOMAIN all(i), n \in DOMAIN all(j) :
          (i > j \/ (i = j /\ m < n)) => all(i)[m] < all(j)[n]
    BY <2>1, <2>3, <2>4 DEF Ordered
  <2> QED BY <2>5 DEF all
<1> QED BY <1>1, InvAlways, PTL

\* A file outgrows fileSinkMaxBytes by less than a line, and by a line more for each
\* rotation that left it in its place, for any length of lines, whatever fails.
THEOREM FilesStayBounded == Spec => []FilesBounded
<1>1. Inv => FilesBounded
  <2> SUFFICES ASSUME Inv, NEW path \in Paths, NEW i \in Suffixes
               PROVE  Len(FilesOf(path)[i]) < MaxBytes + (1 + kept) * Longest
    BY DEF FilesBounded
  <2>1. Len(Contents(disk[path][i])) < (MaxBytes + kept * Longest) + Longest
    BY DEF Inv, Sizes, Short, ShortSink, ShortFiles
  <2>2. kept \in Nat /\ Longest \in Nat /\ MaxBytes \in Nat
    BY SinkAssumption DEF Inv, TypeOK
  <2>3. (MaxBytes + kept * Longest) + Longest = MaxBytes + (1 + kept) * Longest BY <2>2
  <2> QED BY <2>1, <2>3 DEF FilesOf
<1> QED BY <1>1, InvAlways, PTL

\* Unless the disk failed, a byte goes only when fileSinkMaxCount - 1 files are full
\* of newer ones, less one for each rotation that a kill cut short.
THEOREM RecentLinesKept == Spec => KeepsRecent
<1> DEFINE Recent ==
      \A path \in Paths : \A b \in BytesOf(disk, path) \ BytesOf(disk', path) :
        faults' = {} => Cardinality(FullSince(disk', path, b)) >= MaxCount - 1 - kept'
<1>1. Inv /\ [Next]_vars => [Recent]_vars BY RecentStep DEF Inv
<1>2. [][Recent]_vars <=> KeepsRecent BY DEF KeepsRecent
<1> QED BY <1>1, <1>2, InvAlways, PTL DEF Spec

\* With a path set the file is closed only from a failure until it is asked for again.
THEOREM OpenUnlessFailed == Spec => []ClosedOnlyByFailure
<1>1. Inv => ClosedOnlyByFailure BY DEF Inv
<1> QED BY <1>1, InvAlways, PTL

=============================================================================
