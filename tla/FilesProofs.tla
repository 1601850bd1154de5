----------------------------- MODULE FilesProofs -----------------------------
(***************************************************************************)
(* Proofs about what the program leaves on disk: the worklog files of      *)
(* WorkLog, for any days, any number of rows and of runs, and the          *)
(* status.json of StatusStore, for any number of processes and readers and *)
(* any set of statuses.                                                    *)
(*                                                                         *)
(* WorkLog's Inv has a part for what the files hold (DiskInv), one for the *)
(* rows that are still buffered, which must be fit to follow those on      *)
(* disk, and one each for torn and for acknowledged rows.  All that ever   *)
(* changes a file is Written, and WrittenAppends says how.                 *)
(*                                                                         *)
(* What makes status.json a register is WholeTemp: past its encoding a     *)
(* temporary file holds all of its writer's status, so that a rename puts  *)
(* that very status in place, and a whole one.                             *)
(***************************************************************************)
EXTENDS WorkLog, StatusStore, SequenceTheorems, FiniteSetTheorems, TLAPS

(* What the files D may hold: rows numbered below t, of runs that have     *)
(* begun; in the file of their day and in order; none after a torn one of  *)
(* their run.                                                              *)
Numbered(D, t) ==
    \A d \in Days : \A i \in DOMAIN D[d] : D[d][i].row.id < t /\ D[d][i].row.by <= runs
InOrder(D) ==
    \A d \in Days :
        /\ \A i \in DOMAIN D[d] : D[d][i].row.day = d
        /\ \A i, j \in DOMAIN D[d] : i < j => D[d][i].row.id < D[d][j].row.id
TornLast(D) ==
    \A d, e \in Days : \A i \in DOMAIN D[d], j \in DOMAIN D[e] :
        ~D[d][i].whole /\ D[e][j].row.by = D[d][i].row.by => D[e][j].row.id <= D[d][i].row.id

(* No row that this run wrote to D is torn.                                *)
Untorn(D) ==
    \A d \in Days : \A i \in DOMAIN D[d] : D[d][i].row.by = runs => D[d][i].whole

(* The rows of b, numbered below t, may follow what the files hold: they   *)
(* are of this run, of the open file's day, in order, and all of them      *)
(* later than any row on disk.                                             *)
MayFollow(b, t) ==
    \A i \in DOMAIN b :
        /\ b[i].day = path /\ b[i].by = runs /\ b[i].id < t
        /\ \A j \in DOMAIN b : i < j => b[i].id < b[j].id
        /\ \A d \in Days : \A k \in DOMAIN disk[d] : disk[d][k].row.id < b[i].id

(* The writer's buffer: after an error it is only ever passed on when the  *)
(* writer's own error does not forbid it, and then it is empty.            *)
BufferInv ==
    /\ phase = "up" => ~broken /\ MayFollow(buf, next)
    /\ phase = "failed" => broken \/ buf = <<>>
    /\ phase # "down" => runs > 0

(* A run that tore a row is over, or its writer is broken.                 *)
TornInv == phase = "up" \/ (phase = "failed" /\ ~broken) => Untorn(disk)

(* Acknowledged rows are in the file of their day, whole.                  *)
OnDisk(D, r) == \E i \in DOMAIN D[r.day] : D[r.day][i] = [row |-> r, whole |-> TRUE]
AckedInv == \A r \in acked : OnDisk(disk, r)

DiskInv == Numbered(disk, next) /\ InOrder(disk) /\ TornLast(disk)
Inv == TypeOK /\ NoLeakedFile /\ DiskInv /\ BufferInv /\ TornInv /\ AckedInv

-----------------------------------------------------------------------------
(* What a file gains: the first n rows of b whole, then m - n torn ones.   *)
Gained(b, n, m) == [i \in 1..m |-> [row |-> b[i], whole |-> i <= n]]

(* The rows a file gains are a sequence of lines, as long as it should be. *)
LEMMA GainedType ==
    ASSUME NEW b \in Seq(Row), NEW n \in Nat, NEW m \in 0..Len(b)
    PROVE  Gained(b, n, m) \in Seq(Line) /\ Len(Gained(b, n, m)) = m
<1>1. \A i \in 1..m : b[i] \in Row
  BY ElementOfSeq, LenProperties
<1>2. Gained(b, n, m) \in [1..m -> Line]
  BY <1>1 DEF Gained, Line
<1>3. Gained(b, n, m) \in Seq(Line)
  BY <1>2, SeqDef
<1>4. DOMAIN Gained(b, n, m) = 1..m
  BY DEF Gained
<1> QED
  BY <1>3, <1>4, LenProperties

(* A sequence put after another keeps both, the second moved up.           *)
LEMMA Concatenation ==
    ASSUME NEW S, NEW s \in Seq(S), NEW g \in Seq(S)
    PROVE  /\ s \o g \in Seq(S) /\ DOMAIN (s \o g) = 1..(Len(s) + Len(g))
           /\ \A i \in 1..Len(s) : (s \o g)[i] = s[i]
           /\ \A i \in 1..Len(g) : (s \o g)[Len(s) + i] = g[i]
<1>1. Len(s) \in Nat /\ Len(g) \in Nat
  BY LenProperties
<1>2. s \o g \in Seq(S) /\ Len(s \o g) = Len(s) + Len(g)
  BY ConcatProperties
<1>3. \A i \in 1..(Len(s) + Len(g)) :
         (s \o g)[i] = IF i <= Len(s) THEN s[i] ELSE g[i - Len(s)]
  BY ConcatProperties
<1>4. DOMAIN (s \o g) = 1..(Len(s) + Len(g))
  BY <1>2, LenProperties
<1>5. ASSUME NEW i \in 1..Len(g) PROVE (s \o g)[Len(s) + i] = g[i]
  <2>1. Len(s) + i \in 1..(Len(s) + Len(g)) /\ ~(Len(s) + i <= Len(s)) /\ (Len(s) + i) - Len(s) = i
    BY <1>1
  <2> QED
    BY <1>3, <2>1
<1>6. ASSUME NEW i \in 1..Len(s) PROVE (s \o g)[i] = s[i]
  <2>1. i \in 1..(Len(s) + Len(g)) /\ i <= Len(s)
    BY <1>1
  <2> QED
    BY <1>3, <2>1
<1> QED
  BY <1>2, <1>4, <1>5, <1>6

(* D is what the files hold, the open one with m rows of b after that, the *)
(* first n of them whole.                                                  *)
Appends(D, b, n, m) ==
    LET k == Len(disk[file])
    IN  /\ D \in [Days -> Seq(Line)]
        /\ m \in 0..Len(b) /\ k \in Nat
        /\ \A d \in Days : d # file => D[d] = disk[d]
        /\ DOMAIN disk[file] = 1..k /\ DOMAIN D[file] = 1..(k + m)
        /\ \A i \in 1..k : D[file][i] = disk[file][i]
        /\ \A i \in 1..m : D[file][k + i].row = b[i] /\ (D[file][k + i].whole <=> i <= n)

(* Written leaves every file but the open one alone, and adds to that one  *)
(* the rows it names, in their order and after what it holds.              *)
LEMMA WrittenAppends ==
    ASSUME TypeOK, file \in Days, NEW b \in Seq(Row), NEW n \in Nat, NEW torn \in BOOLEAN,
           NEW m, m = (IF torn THEN n + 1 ELSE n), m <= Len(b),
           NEW D, D = Written(b, n, torn)
    PROVE  Appends(D, b, n, m)
<1>0. PICK k : k = Len(disk[file])
  OBVIOUS
<1>1. m \in 0..Len(b)
  BY LenProperties
<1>2. disk[file] \in Seq(Line) /\ k \in Nat /\ DOMAIN disk[file] = 1..k
  BY <1>0, LenProperties DEF TypeOK
<1>3. Gained(b, n, m) \in Seq(Line) /\ Len(Gained(b, n, m)) = m
  BY <1>1, GainedType
<1>4. D = [disk EXCEPT ![file] = disk[file] \o Gained(b, n, m)]
  BY DEF Written, Gained
<1> DEFINE s == disk[file]
           g == Gained(b, n, m)
<1>5. s \in Seq(Line) /\ g \in Seq(Line) /\ Len(s) = k /\ Len(g) = m
  BY <1>0, <1>2, <1>3
<1>6. D = [disk EXCEPT ![file] = s \o g]
  BY <1>4
<1>7. \A i \in 1..m : g[i].row = b[i] /\ (g[i].whole <=> i <= n)
  BY DEF Gained
<1> HIDE DEF g
<1>8. disk[file] = s
  OBVIOUS
<1> HIDE DEF s
<1>9. /\ s \o g \in Seq(Line) /\ DOMAIN (s \o g) = 1..(Len(s) + Len(g))
      /\ \A i \in 1..Len(s) : (s \o g)[i] = s[i]
      /\ \A i \in 1..Len(g) : (s \o g)[Len(s) + i] = g[i]
  <2>1. s \o g \in Seq(Line)
    BY <1>5, Concatenation
  <2>2. DOMAIN (s \o g) = 1..(Len(s) + Len(g))
    BY <1>5, Concatenation
  <2>3. \A i \in 1..Len(s) : (s \o g)[i] = s[i]
    BY <1>5, Concatenation
  <2>4. \A i \in 1..Len(g) : (s \o g)[Len(s) + i] = g[i]
    BY <1>5, Concatenation
  <2> QED
    BY <2>1, <2>2, <2>3, <2>4
<1>10. D[file] = s \o g /\ D \in [Days -> Seq(Line)] /\ \A d \in Days : d # file => D[d] = disk[d]
  BY <1>6, <1>9 DEF TypeOK
<1>11. /\ DOMAIN D[file] = 1..(k + m)
       /\ \A i \in 1..k : D[file][i] = disk[file][i]
       /\ \A i \in 1..m : D[file][k + i] = g[i]
  BY <1>5, <1>8, <1>9, <1>10
<1> QED
  BY <1>0, <1>1, <1>2, <1>7, <1>10, <1>11 DEF Appends

(* D is a disk a step may leave behind: in order, its rows numbered below  *)
(* t, and nothing that was there is gone.                                  *)
Keeps(D, t) ==
    /\ D \in [Days -> Seq(Line)]
    /\ Numbered(D, t) /\ InOrder(D) /\ TornLast(D)
    /\ \A d \in Days : \A i \in DOMAIN disk[d] : i \in DOMAIN D[d] /\ D[d][i] = disk[d][i]

(* Passing rows that may follow on to the open file keeps what the files   *)
(* hold in order, whatever part of them gets there; and no row of this run *)
(* is torn unless one of these is.                                         *)
LEMMA WrittenKeepsOrder ==
    ASSUME TypeOK, DiskInv, Untorn(disk), file \in Days, file = path,
           NEW b \in Seq(Row), NEW t \in Nat, next <= t, MayFollow(b, t),
           NEW n \in 0..Len(b), NEW torn \in BOOLEAN, torn => n < Len(b),
           NEW D, D = Written(b, n, torn)
    PROVE  /\ Keeps(D, t)
           /\ ~torn => Untorn(D)
           /\ \A j \in 1..n : OnDisk(D, b[j])
<1>0. PICK k, m : k = Len(disk[file]) /\ m = (IF torn THEN n + 1 ELSE n)
  OBVIOUS
<1>1. /\ D \in [Days -> Seq(Line)]
      /\ n \in Nat /\ m = (IF torn THEN n + 1 ELSE n)
      /\ m \in 0..Len(b) /\ k \in Nat
      /\ \A d \in Days : d # file => D[d] = disk[d]
      /\ DOMAIN disk[file] = 1..k /\ DOMAIN D[file] = 1..(k + m)
      /\ \A i \in 1..k : D[file][i] = disk[file][i]
      /\ \A i \in 1..m : D[file][k + i].row = b[i] /\ (D[file][k + i].whole <=> i <= n)
  <2>1. Len(b) \in Nat
    BY LenProperties
  <2>2. n \in Nat /\ m <= Len(b)
    BY <1>0, <2>1
  <2>3. Appends(D, b, n, m)
    BY <1>0, <2>2, WrittenAppends
  <2> QED
    BY <1>0, <2>2, <2>3 DEF Appends
<1> DEFINE Old(d, i) == i \in DOMAIN disk[d] /\ D[d][i] = disk[d][i]
           New(d, i, j) == d = file /\ i = k + j /\ D[d][i].row = b[j] /\ (D[d][i].whole <=> j <= n)
<1>2. \A d \in Days : \A i \in DOMAIN D[d] : Old(d, i) \/ \E j \in 1..m : New(d, i, j)
  <2> SUFFICES ASSUME NEW d \in Days, NEW i \in DOMAIN D[d], ~Old(d, i)
               PROVE  \E j \in 1..m : New(d, i, j)
    OBVIOUS
  <2>1. d = file /\ i \in 1..(k + m) /\ i \notin 1..k
    BY <1>1
  <2>2. i - k \in 1..m /\ i = k + (i - k)
    BY <1>1, <2>1
  <2> QED
    BY <1>1, <2>1, <2>2
<1>3. \A j \in 1..m : /\ j \in DOMAIN b /\ b[j] \in Row
                      /\ b[j].day = file /\ b[j].by = runs /\ b[j].id < t
                      /\ \A i \in 1..m : i < j => b[i].id < b[j].id
                      /\ \A d \in Days : \A i \in DOMAIN disk[d] : disk[d][i].row.id < b[j].id
  <2>1. DOMAIN b = 1..Len(b) /\ Len(b) \in Nat
    BY LenProperties
  <2>2. 1..m \subseteq DOMAIN b
    BY <1>1, <2>1
  <2>3. \A j \in DOMAIN b : b[j] \in Row
    BY <2>1, ElementOfSeq
  <2> QED
    BY <2>2, <2>3 DEF MayFollow
<1>4. \A d \in Days : \A i \in DOMAIN disk[d] : disk[d][i] \in Line /\ i \in Nat
  BY LenProperties, ElementOfSeq DEF TypeOK
<1>5. runs \in Nat /\ next \in Nat
  BY BoundsAssumption DEF TypeOK
<1>6. \A d \in Days : \A i \in DOMAIN disk[d] : i \in DOMAIN D[d] /\ D[d][i] = disk[d][i]
  <2> HIDE DEF Old, New
  <2> SUFFICES ASSUME NEW d \in Days, NEW i \in DOMAIN disk[d]
               PROVE  i \in DOMAIN D[d] /\ D[d][i] = disk[d][i]
    OBVIOUS
  <2>1. CASE d = file
    <3>1. i \in 1..k /\ i \in 1..(k + m)
      BY <1>1, <2>1
    <3> QED
      BY <1>1, <2>1, <3>1
  <2>2. CASE d # file
    BY <1>1, <2>2
  <2> QED
    BY <2>1, <2>2
<1>7. Numbered(D, t)
  <2> SUFFICES ASSUME NEW d \in Days, NEW i \in DOMAIN D[d]
               PROVE  D[d][i].row.id < t /\ D[d][i].row.by <= runs
    BY DEF Numbered
  <2>1. CASE Old(d, i)
    BY <1>4, <1>5, <2>1 DEF DiskInv, Numbered, Line, Row
  <2>2. CASE \E j \in 1..m : New(d, i, j)
    BY <1>3, <1>5, <2>2
  <2> QED
    BY <1>2, <2>1, <2>2
<1>8. InOrder(D)
  <2>1. ASSUME NEW d \in Days, NEW i \in DOMAIN D[d] PROVE D[d][i].row.day = d
    <3>1. CASE Old(d, i)
      BY <3>1 DEF DiskInv, InOrder
    <3>2. CASE \E j \in 1..m : New(d, i, j)
      BY <1>3, <3>2
    <3> QED
      BY <1>2, <3>1, <3>2
  <2>2. ASSUME NEW d \in Days, NEW i \in DOMAIN D[d], NEW j \in DOMAIN D[d], i < j
        PROVE  D[d][i].row.id < D[d][j].row.id
    <3>1. CASE Old(d, i) /\ Old(d, j)
      BY <2>2, <3>1 DEF DiskInv, InOrder
    <3>2. CASE Old(d, i) /\ \E y \in 1..m : New(d, j, y)
      BY <1>3, <3>2
    <3>3. ASSUME NEW x \in 1..m, New(d, i, x) PROVE D[d][i].row.id < D[d][j].row.id
      <4>1. ~Old(d, j)
        BY <1>1, <2>2, <3>3
      <4>2. PICK y \in 1..m : New(d, j, y)
        BY <1>2, <4>1
      <4>3. x < y
        BY <1>1, <2>2, <3>3, <4>2
      <4> QED
        BY <1>3, <3>3, <4>2, <4>3
    <3> QED
      BY <1>2, <3>1, <3>2, <3>3
  <2> QED
    BY <2>1, <2>2 DEF InOrder
<1>9. TornLast(D)
  <2> SUFFICES ASSUME NEW d \in Days, NEW e \in Days, NEW i \in DOMAIN D[d], NEW j \in DOMAIN D[e],
                      ~D[d][i].whole, D[e][j].row.by = D[d][i].row.by
               PROVE  D[e][j].row.id <= D[d][i].row.id
    BY DEF TornLast
  <2>1. CASE Old(d, i) /\ Old(e, j)
    BY <2>1 DEF DiskInv, TornLast
  <2>2. ASSUME Old(d, i), NEW y \in 1..m, New(e, j, y) PROVE FALSE
    <3>1. D[d][i].row.by = runs
      BY <1>3, <2>2
    <3> QED
      BY <2>2, <3>1 DEF Untorn
  <2>3. ASSUME NEW x \in 1..m, New(d, i, x) PROVE D[e][j].row.id <= D[d][i].row.id
    <3>1. x > n /\ x = m
      <4>1. D[d][i].whole <=> x <= n
        BY <2>3
      <4> QED
        BY <1>1, <4>1
    <3>2. CASE Old(e, j)
      <4>1. D[d][i].row = b[x] /\ b[x].id \in Nat
        BY <1>3, <2>3 DEF Row
      <4>2. D[e][j].row.id \in Nat
        BY <1>4, <3>2 DEF Line, Row
      <4>3. D[e][j].row.id < b[x].id
        BY <1>3, <3>2
      <4> QED
        BY <4>1, <4>2, <4>3
    <3>3. ASSUME NEW y \in 1..m, New(e, j, y) PROVE D[e][j].row.id <= D[d][i].row.id
      <4>1. y < x \/ y = x
        BY <1>1, <3>1
      <4>2. D[d][i].row = b[x] /\ D[e][j].row = b[y] /\ b[x].id \in Nat
        BY <1>3, <2>3, <3>3 DEF Row
      <4>3. y < x => b[y].id < b[x].id
        BY <1>3
      <4> QED
        BY <1>3, <4>1, <4>2, <4>3 DEF Row
    <3> QED
      BY <1>2, <3>2, <3>3
  <2> QED
    BY <1>2, <2>1, <2>2, <2>3
<1>10. ASSUME ~torn PROVE Untorn(D)
  <2> SUFFICES ASSUME NEW d \in Days, NEW i \in DOMAIN D[d], D[d][i].row.by = runs
               PROVE  D[d][i].whole
    BY DEF Untorn
  <2>1. CASE Old(d, i)
    BY <2>1 DEF Untorn
  <2>2. CASE \E j \in 1..m : New(d, i, j)
    <3>1. PICK j \in 1..m : New(d, i, j)
      BY <2>2
    <3>2. j <= n
      BY <1>1, <1>10
    <3>3. D[d][i].whole <=> j <= n
      BY <3>1
    <3> QED
      BY <3>2, <3>3
  <2> QED
    BY <1>2, <2>1, <2>2
<1>11. ASSUME NEW j \in 1..n PROVE OnDisk(D, b[j])
  <2>1. j \in 1..m /\ k + j \in 1..(k + m)
    BY <1>1
  <2>2. D[file][k + j] = [row |-> b[j], whole |-> TRUE]
    <3>1. D[file][k + j] \in Line
      BY <1>1, <2>1, LenProperties, ElementOfSeq
    <3>2. D[file][k + j].row = b[j] /\ (D[file][k + j].whole <=> j <= n)
      BY <1>1, <2>1
    <3>3. \A l \in Line : l = [row |-> l.row, whole |-> l.whole] /\ l.whole \in BOOLEAN
      BY DEF Line
    <3>4. j <= n
      BY <1>1
    <3> QED
      BY <3>1, <3>2, <3>3, <3>4, Zenon
  <2>3. b[j].day = file
    BY <1>3, <2>1
  <2> QED
    BY <1>1, <2>1, <2>2, <2>3 DEF OnDisk
<1> QED
  BY <1>1, <1>6, <1>7, <1>8, <1>9, <1>10, <1>11 DEF Keeps

-----------------------------------------------------------------------------
(* A step that leaves the disk alone keeps it.                             *)
LEMMA UnchangedKeeps ==
    ASSUME TypeOK, DiskInv, UNCHANGED disk, NEW t \in Nat, next <= t
    PROVE  Keeps(disk', t)
<1>1. \A d \in Days : \A i \in DOMAIN disk[d] : disk[d][i] \in Line
  BY LenProperties, ElementOfSeq DEF TypeOK
<1>2. Numbered(disk, t)
  BY <1>1, BoundsAssumption DEF TypeOK, DiskInv, Numbered, Line, Row
<1> QED
  BY <1>2 DEF TypeOK, DiskInv, Keeps, Numbered, InOrder, TornLast

(* A buffer that may follow may still do so with the next row behind it.   *)
LEMMA NextRowMayFollow ==
    ASSUME Inv, phase = "up", next <= MaxRows
    PROVE  LET b == Append(buf, NextRow(path))
           IN  b \in Seq(Row) /\ MayFollow(b, next + 1)
<1> DEFINE r == NextRow(path)
           b == Append(buf, r)
<1>1. path \in Days
  BY DEF Inv, TypeOK, NoLeakedFile
<1>2. r \in Row /\ r.id = next /\ r.day = path /\ r.by = runs
  BY <1>1, BoundsAssumption DEF Inv, TypeOK, BufferInv, NextRow, Row
<1>3. buf \in Seq(Row) /\ MayFollow(buf, next) /\ next \in Nat /\ Numbered(disk, next)
  BY BoundsAssumption DEF Inv, TypeOK, BufferInv, DiskInv
<1> HIDE DEF r
<1>4. /\ b \in Seq(Row) /\ Len(b) = Len(buf) + 1 /\ Len(buf) \in Nat
      /\ DOMAIN b = 1..Len(b) /\ DOMAIN buf = 1..Len(buf)
  BY <1>2, <1>3, AppendProperties, LenProperties
<1>5. (\A i \in DOMAIN buf : b[i] = buf[i]) /\ b[Len(buf) + 1] = r
  BY <1>2, <1>3, <1>4, AppendProperties
<1> HIDE DEF b
<1>6. \A i \in DOMAIN b : i \in DOMAIN buf \/ i = Len(buf) + 1
  BY <1>4
<1>7. \A i \in DOMAIN buf : buf[i].id \in Nat /\ buf[i].id < next
  <2>1. \A i \in DOMAIN buf : buf[i] \in Row
    BY <1>3, <1>4, ElementOfSeq
  <2> QED
    BY <1>3, <2>1 DEF MayFollow, Row
<1>8. ASSUME NEW i \in DOMAIN b PROVE b[i].day = path /\ b[i].by = runs /\ b[i].id < next + 1
  BY <1>2, <1>3, <1>5, <1>6, <1>7 DEF MayFollow
<1>9. ASSUME NEW i \in DOMAIN b, NEW j \in DOMAIN b, i < j PROVE b[i].id < b[j].id
  <2>1. i \in DOMAIN buf
    BY <1>4, <1>9
  <2>2. CASE j \in DOMAIN buf
    BY <1>3, <1>5, <1>9, <2>1, <2>2 DEF MayFollow
  <2>3. CASE j = Len(buf) + 1
    BY <1>2, <1>5, <1>7, <2>1, <2>3
  <2> QED
    BY <1>6, <2>2, <2>3
<1>10. ASSUME NEW i \in DOMAIN b, NEW d \in Days, NEW k \in DOMAIN disk[d]
       PROVE  disk[d][k].row.id < b[i].id
  BY <1>2, <1>3, <1>5, <1>6 DEF MayFollow, Numbered
<1> QED
  BY <1>4, <1>8, <1>9, <1>10 DEF MayFollow, b, r

(* A flush that succeeds keeps the disk, tears nothing, and has put every  *)
(* buffered row into the file of its day.                                  *)
LEMMA FlushOkKeeps ==
    ASSUME Inv, phase \in {"up", "failed"}, FlushOk
    PROVE  /\ Keeps(disk', next) /\ Untorn(disk')
           /\ \A r \in ToSet(buf) : OnDisk(disk', r)
<1>1. TypeOK /\ DiskInv /\ next \in Nat
  BY BoundsAssumption DEF Inv, TypeOK
<1>2. ~broken /\ Untorn(disk)
  BY DEF FlushOk, Inv, TornInv
<1>3. CASE buf = <<>>
  <2>1. UNCHANGED disk
    BY <1>3 DEF FlushOk
  <2>2. Keeps(disk', next)
    BY <1>1, <2>1, UnchangedKeeps
  <2>3. ToSet(buf) = {}
    BY <1>3 DEF ToSet
  <2> QED
    BY <1>2, <2>1, <2>2, <2>3
<1>4. CASE buf # <<>>
  <2>1. phase = "up" /\ file \in Days /\ file = path /\ MayFollow(buf, next)
    BY <1>2, <1>4 DEF Inv, BufferInv, NoLeakedFile, TypeOK, FlushOk
  <2>2. buf \in Seq(Row) /\ Len(buf) \in Nat /\ DOMAIN buf = 1..Len(buf)
    BY <1>1, LenProperties DEF TypeOK
  <2>3. disk' = Written(buf, Len(buf), FALSE)
    BY <1>4 DEF FlushOk
  <2>4. Len(buf) \in 0..Len(buf) /\ next <= next /\ FALSE \in BOOLEAN
    BY <1>1, <2>2
  <2>5. Keeps(disk', next)
    BY <1>1, <1>2, <2>1, <2>2, <2>3, <2>4, WrittenKeepsOrder, Zenon
  <2>6. Untorn(disk')
    BY <1>1, <1>2, <2>1, <2>2, <2>3, <2>4, WrittenKeepsOrder, Zenon
  <2>7. \A j \in 1..Len(buf) : OnDisk(disk', buf[j])
    BY <1>1, <1>2, <2>1, <2>2, <2>3, <2>4, WrittenKeepsOrder, Zenon
  <2>8. \A r \in ToSet(buf) : \E j \in 1..Len(buf) : r = buf[j]
    BY <2>2 DEF ToSet
  <2> QED
    BY <2>4, <2>5, <2>6, <2>7, <2>8
<1> QED
  BY <1>3, <1>4

(* A write that fails keeps it too, if rows that may follow were passed on *)
(* or the writer had failed before.                                        *)
LEMMA FailsKeeps ==
    ASSUME Inv, NEW b \in Seq(Row), NEW t \in Nat, next <= t,
           broken \/ b = <<>> \/ (phase = "up" /\ MayFollow(b, t)),
           Fails(b)
    PROVE  Keeps(disk', t)
<1>1. TypeOK /\ DiskInv
  BY DEF Inv
<1>2. CASE UNCHANGED disk
  BY <1>1, <1>2, UnchangedKeeps
<1>3. CASE ~UNCHANGED disk
  <2>1. ~broken /\ file \in fds
    BY <1>3 DEF Fails
  <2>2. PICK n \in 0..(Len(b) - 1), torn \in BOOLEAN : disk' = Written(b, n, torn)
    BY <1>3 DEF Fails
  <2>3. Len(b) \in Nat /\ Len(b) > 0
    BY <2>2, LenProperties
  <2>4. phase = "up" /\ MayFollow(b, t) /\ file \in Days /\ file = path /\ Untorn(disk)
    BY <2>1, <2>3, EmptySeq DEF Inv, TypeOK, NoLeakedFile, TornInv
  <2>5. n \in 0..Len(b) /\ (torn => n < Len(b))
    BY <2>3
  <2> QED
    BY <1>1, <2>2, <2>4, <2>5, WrittenKeepsOrder
<1> QED
  BY <1>2, <1>3

(* What a crash lets through keeps it as well.                             *)
LEMMA CrashKeeps == Inv /\ Crash => Keeps(disk', next)
<1> SUFFICES ASSUME Inv, Crash PROVE Keeps(disk', next)
  OBVIOUS
<1>1. TypeOK /\ DiskInv /\ next \in Nat
  BY BoundsAssumption DEF Inv, TypeOK
<1>2. CASE UNCHANGED disk
  BY <1>1, <1>2, UnchangedKeeps
<1>3. CASE ~UNCHANGED disk
  <2>1. ~broken /\ file \in fds /\ buf # <<>>
    BY <1>3 DEF Crash
  <2>2. PICK n \in 0..Len(buf), torn \in BOOLEAN :
            (torn => n < Len(buf)) /\ disk' = Written(buf, n, torn)
    BY <1>3 DEF Crash
  <2>3. phase = "up" /\ MayFollow(buf, next) /\ file \in Days /\ file = path /\ Untorn(disk)
    BY <1>1, <2>1 DEF Inv, TypeOK, NoLeakedFile, BufferInv, TornInv, Crash
  <2>4. buf \in Seq(Row) /\ next <= next
    BY <1>1 DEF TypeOK
  <2> QED
    BY <1>1, <2>2, <2>3, <2>4, WrittenKeepsOrder
<1> QED
  BY <1>2, <1>3

(* Every step keeps the disk; the action that numbers a row counts it.     *)
LEMMA StepKeeps ==
    Inv /\ [Next]_vars =>
        Keeps(disk', next') /\ next <= next' /\ next' \in 1..(MaxRows + 1)
<1> SUFFICES ASSUME Inv, [Next]_vars
             PROVE  Keeps(disk', next') /\ next <= next' /\ next' \in 1..(MaxRows + 1)
  OBVIOUS
<1>1. /\ TypeOK /\ DiskInv /\ next \in 1..(MaxRows + 1) /\ MaxRows \in Nat /\ next \in Nat
      /\ buf \in Seq(Row)
  BY BoundsAssumption DEF Inv, TypeOK
<1>2. ASSUME UNCHANGED <<disk, next>> PROVE Keeps(disk', next') /\ next <= next'
  BY <1>1, <1>2, UnchangedKeeps
<1>3. ASSUME NEW d \in Days, Open(d) PROVE UNCHANGED <<disk, next>>
  BY <1>3 DEF Open
<1>4. ASSUME NEW d \in Days, Write(d) PROVE Keeps(disk', next')
  <2>1. UNCHANGED disk /\ next' = next + 1
    BY <1>4 DEF Write
  <2> QED
    BY <1>1, <2>1, UnchangedKeeps
<1>5. ASSUME NEW d \in Days, WriteFails(d) PROVE Keeps(disk', next')
  <2>1. phase = "up" /\ next <= MaxRows /\ d = path /\ next' = next + 1
    BY <1>5 DEF WriteFails
  <2>2. PICK b : b = Append(buf, NextRow(path))
    OBVIOUS
  <2>3. b \in Seq(Row) /\ MayFollow(b, next + 1)
    BY <2>1, <2>2, NextRowMayFollow
  <2>4. Fails(b)
    BY <1>5, <2>1, <2>2 DEF WriteFails
  <2>5. next + 1 \in Nat /\ next <= next + 1
    BY <1>1
  <2> QED
    BY <2>1, <2>3, <2>4, <2>5, FailsKeeps
<1>6. ASSUME NEW d \in Days, Rotate(d) PROVE Keeps(disk', next')
  <2>1. Keeps(disk', next) /\ next' = next + 1
    BY <1>6, FlushOkKeeps DEF Rotate
  <2>2. \A e \in Days : \A i \in DOMAIN disk'[e] : disk'[e][i] \in Line
    BY <2>1, LenProperties, ElementOfSeq DEF Keeps
  <2>3. Numbered(disk', next + 1)
    BY <1>1, <2>1, <2>2 DEF Keeps, Numbered, Line, Row
  <2> QED
    BY <2>1, <2>3 DEF Keeps
<1>7. ASSUME FlushOk, phase \in {"up", "failed"}, next' = next PROVE Keeps(disk', next')
  BY <1>7, FlushOkKeeps
<1>8. ASSUME FlushFails, phase \in {"up", "failed"}, next' = next PROVE Keeps(disk', next')
  <2>1. broken \/ buf = <<>> \/ (phase = "up" /\ MayFollow(buf, next))
    BY <1>8 DEF Inv, BufferInv
  <2>2. next <= next /\ Fails(buf)
    BY <1>1, <1>8 DEF FlushFails
  <2> QED
    BY <1>1, <1>8, <2>1, <2>2, FailsKeeps
<1>9. ASSUME NEW d \in Days, RotateFails(d) PROVE Keeps(disk', next') /\ next' = next
  BY <1>7, <1>8, <1>9 DEF RotateFails
<1>10. ASSUME Flush PROVE Keeps(disk', next') /\ next' = next
  BY <1>7, <1>8, <1>10 DEF Flush
<1>11. ASSUME Close PROVE Keeps(disk', next') /\ next' = next
  BY <1>7, <1>8, <1>11 DEF Close
<1>12. ASSUME Crash PROVE Keeps(disk', next') /\ next' = next
  BY <1>12, CrashKeeps DEF Crash
<1>13. ASSUME UNCHANGED vars PROVE UNCHANGED <<disk, next>>
  BY <1>13 DEF vars
<1>14. Keeps(disk', next')
  BY <1>2, <1>3, <1>4, <1>5, <1>6, <1>9, <1>10, <1>11, <1>12, <1>13 DEF Next, Done
<1>15. next' = next \/ (next <= MaxRows /\ next' = next + 1)
  BY <1>3, <1>9, <1>10, <1>11, <1>12, <1>13 DEF Next, Done, Write, WriteFails, Rotate
<1> QED
  BY <1>1, <1>14, <1>15

-----------------------------------------------------------------------------
(* Every step keeps the variables in their types.                          *)
LEMMA TypeStep == Inv /\ [Next]_vars => TypeOK'
<1> SUFFICES ASSUME Inv, [Next]_vars PROVE TypeOK'
  OBVIOUS
<1>1. disk' \in [Days -> Seq(Line)] /\ next' \in 1..(MaxRows + 1)
  BY StepKeeps DEF Keeps
<1>2. \A d \in Days : NextRow(d) \in Row \/ phase = "down" \/ next > MaxRows
  BY BoundsAssumption DEF Inv, BufferInv, TypeOK, NextRow, Row
<1>3. /\ <<>> \in Seq(Row) /\ ToSet(buf) \subseteq Row
      /\ \A r \in Row : Append(buf, r) \in Seq(Row) /\ <<r>> \in Seq(Row)
  <2>1. buf \in Seq(Row)
    BY DEF Inv, TypeOK
  <2>2. ToSet(buf) \subseteq Row
    BY <2>1, LenProperties, ElementOfSeq DEF ToSet
  <2>3. \A r \in Row : Append(buf, r) \in Seq(Row)
    BY <2>1, AppendProperties
  <2>4. \A r \in Row : <<r>> \in Seq(Row)
    OBVIOUS
  <2> QED
    BY <2>2, <2>3, <2>4
<1> DEFINE Rest == /\ phase' \in {"down", "up", "failed"}
                   /\ path' \in Days \cup {NoDay} /\ file' \in Days \cup {NoDay}
                   /\ fds' \subseteq Days
                   /\ runs' \in 0..MaxRuns /\ begun' \subseteq Days
           Buffer == buf' \in Seq(Row) /\ broken' \in BOOLEAN /\ acked' \subseteq Row
<1> USE BoundsAssumption DEF Inv, TypeOK
<1>4. ASSUME NEW d \in Days, Open(d) PROVE Rest /\ Buffer
  <2>1. broken' \in BOOLEAN
    BY <1>4, Zenon DEF Open
  <2>2. phase' \in {"down", "up", "failed"} /\ fds' \subseteq Days /\ begun' \subseteq Days
    BY <1>4 DEF Open
  <2>3. path' \in Days \cup {NoDay} /\ file' \in Days \cup {NoDay} /\ runs' \in 0..MaxRuns
    BY <1>4 DEF Open
  <2>4. buf' \in Seq(Row) /\ acked' \subseteq Row
    BY <1>3, <1>4 DEF Open
  <2> QED
    BY <2>1, <2>2, <2>3, <2>4
<1>5. ASSUME NEW d \in Days, Write(d) PROVE Rest /\ Buffer
  BY <1>2, <1>3, <1>5 DEF Write
<1>6. ASSUME NEW d \in Days, WriteFails(d) PROVE Rest /\ Buffer
  BY <1>2, <1>3, <1>6 DEF WriteFails, Fails
<1>7. ASSUME NEW d \in Days, Rotate(d) PROVE Rest /\ Buffer
  BY <1>2, <1>3, <1>7 DEF Rotate
<1>8. ASSUME NEW d \in Days, RotateFails(d) PROVE Rest /\ Buffer
  BY <1>3, <1>8 DEF RotateFails, FlushFails, Fails
<1>9. ASSUME Flush PROVE Rest /\ Buffer
  BY <1>3, <1>9 DEF Flush, FlushFails, Fails
<1>10. ASSUME Close PROVE Rest /\ Buffer
  <2>1. Rest
    BY <1>10 DEF Close
  <2>2. CASE FlushFails
    BY <1>10, <2>1, <2>2 DEF FlushFails, Fails
  <2>3. CASE buf' = <<>> /\ acked' = acked \cup ToSet(buf) /\ UNCHANGED broken
    BY <1>3, <2>1, <2>3
  <2> QED
    BY <1>10, <2>2, <2>3 DEF Close
<1>11. ASSUME Crash PROVE Rest /\ Buffer
  BY <1>3, <1>11 DEF Crash
<1>12. ASSUME UNCHANGED vars PROVE Rest /\ Buffer
  BY <1>12 DEF vars
<1> HIDE DEF Inv, TypeOK
<1>13. Rest /\ Buffer
  BY <1>4, <1>5, <1>6, <1>7, <1>8, <1>9, <1>10, <1>11, <1>12 DEF Next, Done
<1> QED
  BY <1>1, <1>13 DEF TypeOK

(* The writer's files: after a failed close of the old file it has none.   *)
LEMMA FilesStep == Inv /\ [Next]_vars => NoLeakedFile'
<1> SUFFICES ASSUME Inv, [Next]_vars PROVE NoLeakedFile'
  OBVIOUS
<1> USE DEF Inv, TypeOK, NoLeakedFile
<1>1. ASSUME NEW d \in Days, Open(d) PROVE NoLeakedFile'
  BY <1>1 DEF Open
<1>2. ASSUME NEW d \in Days, Write(d) PROVE NoLeakedFile'
  BY <1>2 DEF Write
<1>3. ASSUME NEW d \in Days, WriteFails(d) PROVE NoLeakedFile'
  BY <1>3 DEF WriteFails
<1>4. ASSUME NEW d \in Days, Rotate(d) PROVE NoLeakedFile'
  BY <1>4 DEF Rotate
<1>5. ASSUME NEW d \in Days, RotateFails(d) PROVE NoLeakedFile'
  BY <1>5 DEF RotateFails
<1>6. ASSUME Flush PROVE NoLeakedFile'
  BY <1>6 DEF Flush
<1>7. ASSUME Close PROVE NoLeakedFile'
  BY <1>7 DEF Close
<1>8. ASSUME Crash PROVE NoLeakedFile'
  BY <1>8 DEF Crash
<1>9. ASSUME UNCHANGED vars PROVE NoLeakedFile'
  BY <1>9 DEF vars
<1> HIDE DEF Inv, TypeOK, NoLeakedFile
<1> QED
  BY <1>1, <1>2, <1>3, <1>4, <1>5, <1>6, <1>7, <1>8, <1>9 DEF Next, Done

(* What the files hold stays in order.                                     *)
LEMMA DiskStep == Inv /\ [Next]_vars => DiskInv'
<1> SUFFICES ASSUME Inv, [Next]_vars PROVE DiskInv'
  OBVIOUS
<1>1. Keeps(disk', next')
  BY StepKeeps
<1>2. \A d \in Days : \A i \in DOMAIN disk'[d] : disk'[d][i] \in Line
  BY <1>1, LenProperties, ElementOfSeq DEF Keeps
<1>3. runs \in Nat /\ runs' \in Nat /\ runs <= runs'
  BY BoundsAssumption
     DEF Inv, TypeOK, Next, vars, Open, Write, WriteFails, Rotate, RotateFails, Flush, Close,
         Crash, Done
<1>4. Numbered(disk, next)'
  BY <1>1, <1>2, <1>3 DEF Keeps, Numbered, Line, Row
<1>5. InOrder(disk)' /\ TornLast(disk)'
  BY <1>1 DEF Keeps, InOrder, TornLast
<1> QED
  BY <1>4, <1>5 DEF DiskInv

(* An acknowledged row stays, and a flush acknowledges only what is there. *)
LEMMA AckedStep == Inv /\ [Next]_vars => AckedInv'
<1> SUFFICES ASSUME Inv, [Next]_vars PROVE AckedInv'
  OBVIOUS
<1>1. \A r \in acked : OnDisk(disk', r)
  <2> SUFFICES ASSUME NEW r \in acked PROVE OnDisk(disk', r)
    OBVIOUS
  <2>1. r.day \in Days
    BY DEF Inv, TypeOK, Row
  <2>2. Keeps(disk', next')
    BY StepKeeps
  <2> QED
    BY <2>1, <2>2 DEF Inv, AckedInv, Keeps, OnDisk
<1>2. \/ UNCHANGED acked
      \/ /\ FlushOk /\ phase \in {"up", "failed"}
         /\ acked' = acked \cup ToSet(buf)
  BY DEF Next, vars, Open, Write, WriteFails, Rotate, RotateFails, Flush, Close, Crash, Done,
         Fails, FlushFails
<1>3. \A r \in acked' : OnDisk(disk', r)
  BY <1>1, <1>2, FlushOkKeeps
<1> QED
  BY <1>3 DEF AckedInv, OnDisk

(* The buffer holds what may follow as long as the writer works; after an  *)
(* error it is lost with the writer, or already empty.                     *)
LEMMA BufferStep == Inv /\ [Next]_vars => BufferInv'
<1> SUFFICES ASSUME Inv, [Next]_vars PROVE BufferInv'
  OBVIOUS
<1>0. /\ runs \in 0..MaxRuns /\ runs \in Nat /\ next \in Nat
      /\ phase = "up" => ~broken /\ MayFollow(buf, next)
      /\ phase = "failed" => broken \/ buf = <<>>
      /\ phase # "down" => runs > 0
  BY BoundsAssumption DEF Inv, TypeOK, BufferInv
<1>1. ASSUME NEW d \in Days, Open(d) PROVE BufferInv'
  <2>1. runs' = runs + 1
    BY <1>1 DEF Open
  <2>2. CASE UNCHANGED <<phase, path, file, fds, buf, broken>>
    BY <1>0, <1>1, <2>1, <2>2 DEF BufferInv, Open
  <2>3. CASE phase' = "up" /\ buf' = <<>> /\ broken' = FALSE
    BY <1>0, <2>1, <2>3 DEF BufferInv, MayFollow
  <2> QED
    BY <1>1, <2>2, <2>3 DEF Open
<1>2. ASSUME NEW d \in Days, Write(d) PROVE BufferInv'
  <2>1. /\ phase = "up" /\ next <= MaxRows /\ buf' = Append(buf, NextRow(path)) /\ next' = next + 1
        /\ UNCHANGED <<disk, phase, path, broken, runs>>
    BY <1>2 DEF Write
  <2>2. MayFollow(Append(buf, NextRow(path)), next + 1)
    BY <2>1, NextRowMayFollow
  <2>3. MayFollow(buf, next)'
    BY <2>1, <2>2 DEF MayFollow
  <2> QED
    BY <1>0, <2>1, <2>3 DEF BufferInv
<1>3. ASSUME NEW d \in Days, WriteFails(d) PROVE BufferInv'
  BY <1>0, <1>3 DEF BufferInv, WriteFails, Fails
<1>4. ASSUME NEW d \in Days, Rotate(d) PROVE BufferInv'
  <2>1. /\ phase = "up" /\ FlushOk /\ path' = d /\ buf' = <<NextRow(d)>> /\ next' = next + 1
        /\ UNCHANGED <<phase, broken, runs>>
    BY <1>4 DEF Rotate
  <2>2. Keeps(disk', next)
    BY <2>1, FlushOkKeeps
  <2>3. NextRow(d).id = next /\ NextRow(d).day = d /\ NextRow(d).by = runs
    BY DEF NextRow
  <2>4. DOMAIN buf' = {1} /\ buf'[1] = NextRow(d)
    BY <2>1
  <2>5. \A e \in Days : \A k \in DOMAIN disk'[e] : disk'[e][k].row.id < next
    BY <2>2 DEF Keeps, Numbered
  <2>6. MayFollow(buf, next)'
    BY <1>0, <2>1, <2>3, <2>4, <2>5 DEF MayFollow
  <2> QED
    BY <1>0, <2>1, <2>6 DEF BufferInv
<1>5. ASSUME NEW d \in Days, RotateFails(d) PROVE BufferInv'
  BY <1>0, <1>5 DEF BufferInv, RotateFails, FlushFails, Fails
<1>6. ASSUME Flush PROVE BufferInv'
  <2>1. CASE phase' = phase
    BY <1>0, <1>6, <2>1 DEF BufferInv, Flush, MayFollow
  <2>2. CASE FlushFails /\ phase' = "failed"
    BY <1>0, <1>6, <2>2 DEF BufferInv, Flush, FlushFails, Fails
  <2> QED
    BY <1>6, <2>1, <2>2 DEF Flush
<1>7. ASSUME Close PROVE BufferInv'
  BY <1>7 DEF BufferInv, Close
<1>8. ASSUME Crash PROVE BufferInv'
  BY <1>8 DEF BufferInv, Crash
<1>9. ASSUME UNCHANGED vars PROVE BufferInv'
  BY <1>0, <1>9 DEF BufferInv, MayFollow, vars
<1> QED
  BY <1>1, <1>2, <1>3, <1>4, <1>5, <1>6, <1>7, <1>8, <1>9 DEF Next, Done

(* A run that tears a row breaks its writer or ends.                       *)
LEMMA TornStep == Inv /\ [Next]_vars => TornInv'
<1> SUFFICES ASSUME Inv, [Next]_vars, phase' = "up" \/ (phase' = "failed" /\ ~broken')
             PROVE  Untorn(disk)'
  BY DEF TornInv
<1>1. ASSUME NEW d \in Days, Open(d) PROVE Untorn(disk)'
  <2>1. runs' = runs + 1 /\ disk' = disk
    BY <1>1 DEF Open
  <2>2. \A e \in Days : \A i \in DOMAIN disk[e] : disk[e][i] \in Line
    BY LenProperties, ElementOfSeq DEF Inv, TypeOK
  <2>3. \A e \in Days : \A i \in DOMAIN disk[e] : disk[e][i].row.by # runs + 1
    BY <2>2, BoundsAssumption DEF Inv, TypeOK, DiskInv, Numbered, Line, Row
  <2> QED
    BY <2>1, <2>3 DEF Untorn
<1>2. ASSUME FlushOk, phase \in {"up", "failed"}, runs' = runs PROVE Untorn(disk)'
  <2>1. Untorn(disk')
    BY <1>2, FlushOkKeeps
  <2> QED
    BY <1>2, <2>1 DEF Untorn
<1>3. ASSUME UNCHANGED <<disk, runs, phase, broken>> PROVE Untorn(disk)'
  BY <1>3 DEF Inv, TornInv, Untorn
<1>4. ASSUME NEW d \in Days, Write(d) PROVE Untorn(disk)'
  BY <1>3, <1>4 DEF Write
<1>5. ASSUME NEW d \in Days, WriteFails(d) PROVE Untorn(disk)'
  BY <1>5 DEF WriteFails, Fails
<1>6. ASSUME NEW d \in Days, Rotate(d) PROVE Untorn(disk)'
  BY <1>2, <1>6 DEF Rotate
<1>7. ASSUME NEW d \in Days, RotateFails(d) PROVE Untorn(disk)'
  BY <1>2, <1>7 DEF RotateFails, FlushFails, Fails
<1>8. ASSUME Flush PROVE Untorn(disk)'
  BY <1>2, <1>8 DEF Flush, FlushFails, Fails
<1>9. ASSUME UNCHANGED vars PROVE Untorn(disk)'
  BY <1>3, <1>9 DEF vars
<1> QED
  BY <1>1, <1>4, <1>5, <1>6, <1>7, <1>8, <1>9 DEF Next, Done, Close, Crash

(* The invariant holds at the start.                                       *)
LEMMA InvInit == Init => Inv
<1> SUFFICES ASSUME Init PROVE Inv
  OBVIOUS
<1>1. \A d \in Days : disk[d] = <<>>
  BY DEF Init
<1>2. TypeOK
  <2>1. disk \in [Days -> Seq(Line)]
    BY DEF Init
  <2>2. next \in 1..(MaxRows + 1) /\ runs \in 0..MaxRuns
    BY BoundsAssumption DEF Init
  <2>3. buf \in Seq(Row) /\ broken \in BOOLEAN
    <3>1. buf = <<>> /\ broken = FALSE
      BY DEF Init
    <3> QED
      BY <3>1, EmptySeq
  <2>4. /\ phase \in {"down", "up", "failed"}
        /\ path \in Days \cup {NoDay} /\ file \in Days \cup {NoDay}
    BY DEF Init
  <2>5. fds \subseteq Days /\ acked \subseteq Row /\ begun \subseteq Days
    BY DEF Init
  <2> QED
    BY <2>1, <2>2, <2>3, <2>4, <2>5 DEF TypeOK
<1>3. DiskInv /\ Untorn(disk)
  BY <1>1 DEF DiskInv, Numbered, InOrder, TornLast, Untorn
<1> QED
  BY <1>2, <1>3 DEF Init, Inv, NoLeakedFile, BufferInv, TornInv, AckedInv

(* Every step keeps the invariant.                                         *)
LEMMA InvStep == Inv /\ [Next]_vars => Inv'
  BY TypeStep, FilesStep, DiskStep, BufferStep, TornStep, AckedStep DEF Inv

(* The inductive invariant holds in every reachable state.                 *)
THEOREM InvHolds == Spec => []Inv
<1> QED
  BY InvInit, InvStep, PTL DEF Spec

-----------------------------------------------------------------------------
(* The state of the writer and of its files is well typed, so that no more *)
(* than MaxRows rows are ever numbered.                                    *)
THEOREM TypesHold == Spec => []TypeOK
<1>1. Inv => TypeOK
  BY DEF Inv
<1> QED
  BY <1>1, InvHolds, PTL

(* Whatever step of a rotation fails, no file but the current one is open, *)
(* and none once the program has closed it.                                *)
THEOREM NoFileLeaks == Spec => []NoLeakedFile
<1>1. Inv => NoLeakedFile
  BY DEF Inv
<1> QED
  BY <1>1, InvHolds, PTL

(* Whatever fails or crashes, a file holds the rows of its own day, in the *)
(* order they were sampled, and none twice.                                *)
THEOREM RowsKeepOrder == Spec => []RowsInOrderOfTheirDay
<1>1. Inv => RowsInOrderOfTheirDay
  BY DEF Inv, DiskInv, InOrder, RowsInOrderOfTheirDay
<1> QED
  BY <1>1, InvHolds, PTL

(* A run that tore a row writes nothing after it, in no file.              *)
THEOREM TornRowsAreLast == Spec => []TornRowIsLast
<1>1. Inv => TornRowIsLast
  BY DEF Inv, DiskInv, TornLast, TornRowIsLast
<1> QED
  BY <1>1, InvHolds, PTL

(* A row that Flush reported as written is in the file of its day, whole,  *)
(* and once: the order of the file leaves room for it only once.           *)
THEOREM AckedRowsStay == Spec => []AckedRowsSurvive
<1>1. ASSUME Inv PROVE AckedRowsSurvive
  <2> SUFFICES ASSUME NEW r \in acked
               PROVE  Cardinality({i \in DOMAIN disk[r.day] :
                                      disk[r.day][i] = [row |-> r, whole |-> TRUE]}) = 1
    BY DEF AckedRowsSurvive
  <2>1. r.day \in Days /\ r.id \in Nat
    BY <1>1 DEF Inv, TypeOK, Row
  <2>2. DOMAIN disk[r.day] \subseteq Nat
    BY <1>1, <2>1, LenProperties DEF Inv, TypeOK
  <2>3. PICK i \in DOMAIN disk[r.day] : disk[r.day][i] = [row |-> r, whole |-> TRUE]
    BY <1>1, <2>1 DEF Inv, AckedInv, OnDisk
  <2>4. ASSUME NEW j \in DOMAIN disk[r.day], disk[r.day][j] = [row |-> r, whole |-> TRUE]
        PROVE  j = i
    <3>1. disk[r.day][i].row = r /\ disk[r.day][j].row = r
      BY <2>3, <2>4
    <3>2. ~(i < j) /\ ~(j < i)
      BY <1>1, <2>1, <3>1 DEF Inv, DiskInv, InOrder
    <3> QED
      BY <2>2, <3>2
  <2>5. {j \in DOMAIN disk[r.day] : disk[r.day][j] = [row |-> r, whole |-> TRUE]} = {i}
    BY <2>3, <2>4
  <2> QED
    BY <2>5, FS_Singleton
<1> QED
  BY <1>1, InvHolds, PTL

-----------------------------------------------------------------------------

WholeTemp ==
    \A w \in Writers :
        /\ pc[w] # "idle" => value[w] \in Values
        /\ pc[w] \in {"close", "rename"} => temp[w] = value[w]

(* What a Write under way has been told, and what one that is over left.   *)
TempInv ==
    \A w \in Writers :
        /\ pc[w] \notin {"idle", "remove"} => told[w] = "none"
        /\ pc[w] = "remove" => told[w] = "failed"
        /\ pc[w] = "create" => temp[w] = NotFound
        /\ pc[w] = "idle" /\ temp[w] # NotFound => refused[w] /\ told[w] = "failed"

StoreInv == StoreTypeOK /\ WholeTemp /\ TempInv
-----------------------------------------------------------------------------
(* The initial state satisfies the invariant. *)
LEMMA StoreInvInit == StoreInit => StoreInv
  BY DEF StoreInit, StoreInv, StoreTypeOK, WholeTemp, TempInv

(* Every step of a writer, of its death, and of a reader preserves it. *)
LEMMA StoreInvStep == StoreInv /\ [StoreNext]_storeVars => StoreInv'
<1> SUFFICES ASSUME StoreInv, [StoreNext]_storeVars PROVE StoreInv'
  OBVIOUS
<1> USE DEF StoreInv, StoreTypeOK, WholeTemp, TempInv, Goto, Holds, Tell, Fail
<1>1. ASSUME NEW w \in Writers, Call(w) PROVE StoreInv'
  BY <1>1 DEF Call
<1>2. ASSUME NEW w \in Writers, Create(w) PROVE StoreInv'
  BY <1>2 DEF Create
<1>3. ASSUME NEW w \in Writers, Encode(w) PROVE StoreInv'
  BY <1>3 DEF Encode
<1>4. ASSUME NEW w \in Writers, CloseTemp(w) PROVE StoreInv'
  BY <1>4 DEF CloseTemp
<1>5. ASSUME NEW w \in Writers, Rename(w) PROVE StoreInv'
  BY <1>5 DEF Rename
<1>6. ASSUME NEW w \in Writers, RemoveTemp(w) PROVE StoreInv'
  BY <1>6 DEF RemoveTemp
<1>7. ASSUME NEW w \in Writers, Die(w) PROVE StoreInv'
  BY <1>7 DEF Die
<1>8. ASSUME NEW r \in Readers, ReadOpen(r) PROVE StoreInv'
  BY <1>8 DEF ReadOpen
<1>9. ASSUME NEW r \in Readers, ReadRest(r) PROVE StoreInv'
  BY <1>9, ValuesAssumption DEF ReadRest, Decoded
<1>10. CASE UNCHANGED storeVars
  BY <1>10 DEF storeVars
<1>11. QED
  BY <1>1, <1>2, <1>3, <1>4, <1>5, <1>6, <1>7, <1>8, <1>9, <1>10 DEF StoreNext, StoreWrite

(* The inductive invariant holds in every reachable state.                 *)
LEMMA StoreInvHolds == StoreSpec => []StoreInv
  BY StoreInvInit, StoreInvStep, PTL DEF StoreSpec
-----------------------------------------------------------------------------
(* status.json is never there in part: the file, and what a reader has     *)
(* open, is a whole status (Store.Write, 89-103).                          *)
THEOREM StatusIsWhole == StoreSpec => []StoreTypeOK
<1>1. StoreInv => StoreTypeOK
  BY DEF StoreInv
<1>2. QED
  BY <1>1, StoreInvHolds, PTL

(* A Write that has returned has left its temporary file behind only if    *)
(* the deferred Remove, whose error is discarded, was refused by the       *)
(* system, and then the Write has returned an error itself (82-102).       *)
THEOREM NoTempStays == StoreSpec => []NoTempLeft
<1>1. StoreInv => NoTempLeft
  BY DEF StoreInv, TempInv, NoTempLeft
<1>2. QED
  BY <1>1, StoreInvHolds, PTL
-----------------------------------------------------------------------------
(* The status of each Write that may still put it in place. *)
Writing == [w \in Writers |-> IF pc[w] \in {"idle", "remove"} THEN NotFound ELSE value[w]]

registerVars == <<stored, Writing, told, opened, got>>

(* A step of w that leaves its Write under way, or over, changes nothing;  *)
(* one that ends it leaves the other writers' alone.                       *)
LEMMA WritingStep ==
  ASSUME StoreInv, NEW w \in Writers, NEW l, pc' = [pc EXCEPT ![w] = l], UNCHANGED value
  PROVE  /\ (l \in {"idle", "remove"} <=> pc[w] \in {"idle", "remove"}) => UNCHANGED Writing
         /\ l \in {"idle", "remove"} => Writing' = [Writing EXCEPT ![w] = NotFound]
<1> USE DEF StoreInv, StoreTypeOK
<1>1. \A x \in Writers : x # w => pc'[x] = pc[x]
  OBVIOUS
<1>2. pc'[w] = l
  OBVIOUS
<1>3. \A x \in Writers : x # w => Writing'[x] = Writing[x]
  BY <1>1 DEF Writing
<1>4. (l \in {"idle", "remove"} <=> pc[w] \in {"idle", "remove"}) => Writing'[w] = Writing[w]
  BY <1>2 DEF Writing
<1>5. l \in {"idle", "remove"} => Writing'[w] = NotFound
  BY <1>2 DEF Writing
<1>6. QED
  BY <1>3, <1>4, <1>5 DEF Writing

(* A Write under way has a status, which is not NotFound. *)
LEMMA UnderWay ==
  ASSUME StoreInv, NEW w \in Writers, pc[w] \notin {"idle", "remove"}
  PROVE  Writing[w] = value[w] /\ Writing[w] # NotFound /\ told[w] = "none"
BY ValuesAssumption DEF StoreInv, StoreTypeOK, WholeTemp, TempInv, Writing

(* A Write that fails before its rename refuses; one that goes on is not   *)
(* seen by the register.                                                   *)
LEMMA FailOrGoOn ==
  ASSUME StoreInv, NEW w \in Writers, pc[w] \notin {"idle", "remove"},
         UNCHANGED <<stored, value, opened, got>>, NEW l,
         \/ l \in {"idle", "remove"} /\ Fail(w, l)
         \/ l \notin {"idle", "remove"} /\ Goto(w, l) /\ UNCHANGED told
  PROVE  Register!Refuse(w) \/ UNCHANGED registerVars
<1>1. CASE l \in {"idle", "remove"} /\ Fail(w, l)
  <2>1. Writing' = [Writing EXCEPT ![w] = NotFound]
    BY <1>1, WritingStep DEF Fail, Goto
  <2>2. QED
    BY <1>1, <2>1, UnderWay DEF Fail, Tell, Register!Refuse, Register!Finish, Writing
<1>2. CASE l \notin {"idle", "remove"} /\ Goto(w, l) /\ UNCHANGED told
  <2>1. UNCHANGED Writing
    BY <1>2, WritingStep DEF Goto
  <2>2. QED
    BY <1>2, <2>1 DEF registerVars
<1>3. QED
  BY <1>1, <1>2

(* What the register sees of a writer: its call, the rename that puts its  *)
(* own status in place, its failure, or its death before either.           *)
LEMMA WriterStep ==
  ASSUME StoreInv, NEW w \in Writers, StoreWrite(w)
  PROVE  \/ Register!Begin(w) \/ Register!Replace(w) \/ Register!Refuse(w)
         \/ Register!Abandon(w) \/ UNCHANGED registerVars
<1>1. CASE Call(w)
  <2>1. PICK v \in Values : value' = [value EXCEPT ![w] = v]
    BY <1>1 DEF Call
  <2>2. pc' = [pc EXCEPT ![w] = "create"] /\ pc[w] = "idle"
    BY <1>1 DEF Call, Goto
  <2>3. \A x \in Writers : x # w => Writing'[x] = Writing[x]
    BY <2>1, <2>2 DEF Writing, StoreInv, StoreTypeOK
  <2>4. Writing'[w] = v /\ Writing[w] = NotFound
    BY <2>1, <2>2 DEF Writing, StoreInv, StoreTypeOK
  <2>5. Writing' = [Writing EXCEPT ![w] = v]
    BY <2>3, <2>4 DEF Writing
  <2>6. QED
    BY <1>1, <2>4, <2>5 DEF Call, Tell, Register!Begin, Writing
<1>2. CASE Create(w)
  BY <1>2, FailOrGoOn DEF Create, Fail, Goto
<1>3. CASE Encode(w)
  BY <1>3, FailOrGoOn DEF Encode, Fail, Goto
<1>4. CASE CloseTemp(w)
  BY <1>4, FailOrGoOn DEF CloseTemp, Fail, Goto
<1>5. CASE Rename(w)
  <2>1. CASE stored' = temp[w] /\ Goto(w, "idle") /\ Tell(w, "ok")
    <3>1. pc[w] = "rename" /\ UNCHANGED <<value, opened, got>>
      BY <1>5 DEF Rename
    <3>2. temp[w] = Writing[w]
      BY <3>1, UnderWay DEF StoreInv, WholeTemp
    <3>3. Writing' = [Writing EXCEPT ![w] = NotFound]
      BY <2>1, <3>1, WritingStep DEF Goto
    <3>4. QED
      BY <2>1, <3>1, <3>2, <3>3, UnderWay
         DEF Tell, Register!Replace, Register!Finish, Writing
  <2>2. CASE Fail(w, "remove") /\ UNCHANGED stored
    BY <1>5, <2>2, FailOrGoOn DEF Rename
  <2>3. QED
    BY <1>5, <2>1, <2>2 DEF Rename
<1>6. CASE RemoveTemp(w)
  <2>1. UNCHANGED Writing
    BY <1>6, WritingStep DEF RemoveTemp, Goto
  <2>2. QED
    BY <1>6, <2>1 DEF RemoveTemp, registerVars
<1>7. CASE Die(w)
  <2>1. CASE pc[w] = "remove"
    <3>1. UNCHANGED Writing
      BY <1>7, <2>1, WritingStep DEF Die, Goto
    <3>2. QED
      BY <1>7, <3>1 DEF Die, registerVars
  <2>2. CASE pc[w] # "remove"
    <3>1. pc[w] \notin {"idle", "remove"}
      BY <1>7, <2>2 DEF Die
    <3>2. Writing' = [Writing EXCEPT ![w] = NotFound]
      BY <1>7, WritingStep DEF Die, Goto
    <3>3. told' = [told EXCEPT ![w] = "none"]
      BY <1>7, <3>1, UnderWay DEF Die, StoreInv, StoreTypeOK
    <3>4. QED
      BY <1>7, <3>1, <3>2, <3>3, UnderWay
         DEF Die, Register!Abandon, Register!Finish, Writing
  <2>3. QED
    BY <2>1, <2>2
<1>8. QED
  BY <1>1, <1>2, <1>3, <1>4, <1>5, <1>6, <1>7 DEF StoreWrite

(* A whole status decodes to itself. *)
LEMMA DecodedWhole == \A v \in Values : Decoded(v) = v
  BY ValuesAssumption DEF Decoded

(* A read finds what it opens, and returns that or an error.               *)
LEMMA ReaderStep ==
  ASSUME StoreInv, NEW r \in Readers, ReadOpen(r) \/ ReadRest(r)
  PROVE  Register!Find(r) \/ Register!Return(r) \/ Register!Miss(r)
<1>1. UNCHANGED Writing
  BY DEF ReadOpen, ReadRest, Writing
<1>2. CASE ReadOpen(r)
  BY <1>1, <1>2 DEF ReadOpen, Register!Find, Register!Miss, Writing
<1>3. CASE ReadRest(r)
  <2>1. Decoded(opened[r]) = opened[r]
    BY <1>3, DecodedWhole DEF ReadRest, StoreInv, StoreTypeOK
  <2>2. QED
    BY <1>1, <1>3, <2>1 DEF ReadRest, Register!Return, Writing
<1>4. QED
  BY <1>2, <1>3

(* status.Store is an atomic register whatever its writers, their deaths   *)
(* and its readers do: a Write that returns nil has put the very status it *)
(* was given in place, and one that returns an error nothing (51-104).     *)
THEOREM StoreIsARegister == StoreSpec => ImplementsRegister
<1>1. StoreInit => Register!Init
  BY DEF StoreInit, Register!Init
<1>2. StoreInv /\ [StoreNext]_storeVars => [Register!Next]_registerVars
  <2> SUFFICES ASSUME StoreInv, [StoreNext]_storeVars
               PROVE  Register!Next \/ UNCHANGED registerVars
    OBVIOUS
  <2>1. ASSUME NEW w \in Writers, StoreWrite(w)
        PROVE  Register!Next \/ UNCHANGED registerVars
    BY <2>1, WriterStep DEF Register!Next
  <2>2. ASSUME NEW r \in Readers, ReadOpen(r) \/ ReadRest(r)
        PROVE  Register!Next
    BY <2>2, ReaderStep DEF Register!Next
  <2>3. CASE UNCHANGED storeVars
    BY <2>3 DEF storeVars, registerVars, Writing
  <2>4. QED
    BY <2>1, <2>2, <2>3 DEF StoreNext
<1>3. QED
  BY <1>1, <1>2, StoreInvHolds, PTL
     DEF StoreSpec, ImplementsRegister, Register!Spec, Register!regVars, registerVars, Writing
=============================================================================
