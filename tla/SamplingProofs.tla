--------------------------- MODULE SamplingProofs ---------------------------
(***************************************************************************)
(* Proofs about Sampling: the grid of wake-up times for every period, the  *)
(* macOS samples for any set of applications, and the walk up any finite   *)
(* tree of windows.  The parts of the model meet only in the phase of the  *)
(* loop, so Inv has one part for the schedule, with the number of the grid *)
(* point the loop is at, one that ties the queries of a macOS sample to    *)
(* the phase, one for each macOS backend on what its queries have found,   *)
(* and X11Inv on the windows the walk has passed.                          *)
(***************************************************************************)
EXTENDS Sampling, WellFoundedInduction, FiniteSetTheorems, TLAPS

ScheduleType ==
    /\ period \in Nat \ {0}
    /\ now \in Nat /\ wakeAt \in Nat /\ resetAt \in Nat /\ alarm \in Nat /\ samples \in Nat
    /\ phase \in {"loop", "reset", "sample", "record", "asleep", "returned"}
    /\ overran \in BOOLEAN

(* The loop is at the grid point k * period, or asleep until it, and the   *)
(* next wake-up is the one after it.  At most one sample was taken for     *)
(* each point, and exactly one if the loop was never late.                 *)
AtPoint(k) ==
    /\ wakeAt = (k + 1) * period
    /\ phase \in {"loop", "reset"} =>
           k * period <= now /\ samples <= k /\ (overran = TRUE \/ samples = k)
    /\ phase \in {"sample", "record"} =>
           k * period <= now /\ samples <= k + 1 /\ (overran = TRUE \/ samples = k + 1)
    /\ phase = "asleep" =>
           /\ alarm = k * period /\ alarm - now \in 0..period
           /\ samples <= k /\ (overran = TRUE \/ samples = k)

(* After the loop nothing but the bound on the samples is of interest. *)
GridInv ==
    /\ phase # "returned" => \E k \in Nat : AtPoint(k)
    /\ phase = "returned" => \E j \in Nat : j * period <= now /\ samples <= j + 1

MacType ==
    /\ kind \in {"native", "subprocess", "linux"}
    /\ {front, pid, program, title} \subseteq Apps \cup {None}
    /\ titled \subseteq Apps
    /\ {permitted, recordable, axTrusted, switched, allowed} \subseteq BOOLEAN
    /\ kind = "native" =>
           query \in {"none", "window", "application", "trust", "title", "idle"}
    /\ kind = "subprocess" => query \in {"none", "name", "caption", "idle"}
    /\ kind = "linux" => query = "none"

(* A macOS sample is made of its queries: none outside, and what they      *)
(* found is forgotten before the next one.                                 *)
QueryInv ==
    /\ kind # "linux" => (query # "none" <=> phase = "sample")
    /\ query \in {"window", "name"} \/ phase \in {"loop", "reset", "asleep"}
       \/ kind = "linux" => pid = None /\ program = None /\ title = None

(* The native backend: process and program are one application, and so is  *)
(* the title if there is one; a permission that holds from the start of    *)
(* the sample has been used by its end.                                    *)
NativeInv ==
    kind = "native" =>
        /\ pid = program
        /\ title \in {None, program}
        /\ query = "application" => title = None
        /\ allowed = TRUE => permitted = TRUE
        /\ query = "idle" \/ phase = "record" =>
               (allowed = TRUE /\ program \in titled => title # None)

(* The subprocess backend: until the user switches, both commands see the  *)
(* same application.                                                       *)
SubprocessInv ==
    kind = "subprocess" /\ switched = FALSE =>
        /\ query = "caption" => program \in {front, None} /\ title = None
        /\ None \in {program, title} \/ program = title

MacInv == MacType /\ QueryInv /\ NativeInv /\ SubprocessInv

Size == Cardinality(Windows)
Places == Windows \cup {Root}
Trees == {p \in [Windows -> Places] : X!IsTree(p)}

(* Windows stay a tree, and a walk happens in a sample without a hint. *)
X11Type ==
    /\ parent \in Trees /\ named \subseteq Windows /\ moved \in BOOLEAN
    /\ focus \in Places \cup {NoWindow} /\ hint \in Windows \cup {NoWindow}
    /\ walk \in {"none", "parent", "title"}
    /\ walk # "none" => phase = "sample" /\ hint = NoWindow /\ focus \in Places

(* As long as no window moves, the walk is at the focus or above it, and   *)
(* the windows it has passed have no title.                                *)
WalkInv ==
    walk # "none" /\ moved = FALSE =>
        LET above == X!Line(focus) \ {focus}
        IN  /\ window = focus \/ window \in above
            /\ \A w \in above \cap named : w \in X!Line(window)
            /\ walk = "parent" => window = focus \/ window \notin named
            /\ walk = "title" => window \in above

X11Inv == kind = "linux" => X11Type /\ WalkInv /\ SampleOfTheTopLevelWindow

Inv == ScheduleType /\ GridInv /\ MacInv /\ X11Inv

-----------------------------------------------------------------------------
(* The points of a grid with p between them.                               *)
LEMMA GridPoints ==
    ASSUME NEW k \in Nat, NEW p \in Nat \ {0}
    PROVE  k * p \in Nat /\ k <= k * p /\ (k + 1) * p = k * p + p
OBVIOUS

(* A point of the grid is a multiple of p.                                 *)
LEMMA PointsAreMultiples ==
    ASSUME NEW k \in Nat, NEW p \in Nat \ {0} PROVE (k * p) % p = 0
OBVIOUS

(* A later point has the higher number.                                    *)
LEMMA PointsInOrder ==
    ASSUME NEW k \in Nat, NEW m \in Nat, NEW p \in Nat \ {0}, k <= m
    PROVE  k * p <= m * p
OBVIOUS

(* Division by p finds the last point that has passed.                     *)
LEMMA LastPoint ==
    ASSUME NEW a \in Nat, NEW p \in Nat \ {0}
    PROVE  a \div p \in Nat /\ (a \div p) * p <= a /\ a < (a \div p) * p + p
OBVIOUS

(* No more points have passed than a \div p.                               *)
LEMMA PointsPassed ==
    ASSUME NEW k \in Nat, NEW a \in Nat, NEW p \in Nat \ {0}, k * p <= a
    PROVE  k <= a \div p
<1>1. PICK d \in Nat : d = a \div p
  BY LastPoint
<1>2. a < d * p + p
  BY <1>1, LastPoint
<1>3. CASE d + 1 <= k
  <2>1. (d + 1) * p <= k * p
    BY <1>3, PointsInOrder
  <2>2. (d + 1) * p = d * p + p /\ d * p \in Nat /\ k * p \in Nat
    BY GridPoints
  <2> QED
    BY <1>2, <2>1, <2>2
<1> QED
  BY <1>1, <1>3

(* Wake-ups that are over are skipped, so that ComputeNextSleep's choice    *)
(* exists: the first of them that is still to come.                        *)
LEMMA NextExists ==
    ASSUME NEW t \in Nat, NEW wake \in Nat, NEW p \in Nat \ {0}
    PROVE  \E w \in {wake + k * p : k \in 0..t} :
               w >= t /\ (w = wake \/ w - p < t)
<1>1. CASE wake >= t
  <2>1. wake = wake + 0 * p /\ 0 \in 0..t
    OBVIOUS
  <2> QED
    BY <1>1, <2>1
<1>2. CASE wake < t
  <2>1. PICK a \in Nat : a = t - wake - 1
    BY <1>2
  <2>2. PICK d \in Nat : d * p <= a /\ a < d * p + p
    BY LastPoint
  <2>3. d <= d * p /\ d * p \in Nat /\ (d + 1) * p = d * p + p
    BY GridPoints
  <2>4. d + 1 \in 0..t
    BY <2>1, <2>2, <2>3
  <2>5. PICK w \in {wake + k * p : k \in 0..t} : w = wake + (d + 1) * p
    BY <2>4
  <2>6. w >= t /\ w - p < t
    BY <2>1, <2>2, <2>3, <2>5
  <2> QED
    BY <2>6
<1> QED
  BY <1>1, <1>2

(* k is the point the loop sleeps until when, at time t, it asks for the   *)
(* next wake-up and that was to be at the point m.                         *)
NextAt(t, m, k) ==
    LET n == S!ComputeNextSleep(t, m * period)
    IN  /\ n.sleep = k * period - t
        /\ n.wakeAt = (k + 1) * period
        /\ m <= k /\ k * period >= t
        /\ IF m * period >= t THEN k = m ELSE k * period - period < t

(* ComputeNextSleep (runner.go 172-182) sleeps until a point of the grid   *)
(* less than a period away, or the one it was given if that is not over,   *)
(* and has the next point follow.                                          *)
LEMMA NextPoint ==
    ASSUME NEW t \in Nat, NEW m \in Nat, period \in Nat \ {0}
    PROVE  \E k \in Nat : NextAt(t, m, k)
<1>0. PICK wake \in Nat : wake = m * period
  BY GridPoints
<1> DEFINE Ahead == {wake + k * period : k \in 0..t}
           P(w) == w >= t /\ (w = wake \/ w - period < t)
<1>1. PICK next : next = CHOOSE w \in Ahead : P(w)
  OBVIOUS
<1>2. next \in Ahead /\ P(next)
  <2>1. \E w \in Ahead : P(w)
    BY NextExists
  <2> HIDE DEF Ahead, P
  <2> QED
    BY <1>1, <2>1
<1>3. PICK j \in 0..t : next = wake + j * period
  BY <1>2
<1>4. PICK k \in Nat : k = m + j
  OBVIOUS
<1>5. next = k * period /\ m <= k
  BY <1>0, <1>3, <1>4
<1>6. IF wake >= t THEN k = m ELSE k * period - period < t
  <2>1. CASE wake >= t
    <3>1. CASE 1 <= j
      <4>1. period <= j * period /\ j * period \in Nat
        BY <3>1, PointsInOrder, GridPoints
      <4> QED
        BY <1>2, <1>3, <2>1, <4>1
    <3> QED
      BY <1>4, <2>1, <3>1
  <2>2. CASE wake < t
    BY <1>2, <1>5, <2>2
  <2> QED
    BY <2>1, <2>2
<1>7. S!ComputeNextSleep(t, wake) = [sleep |-> next - t, wakeAt |-> next + period]
  BY <1>1 DEF S!ComputeNextSleep
<1>8. (k + 1) * period = k * period + period
  BY GridPoints
<1>9. S!ComputeNextSleep(t, wake).sleep = k * period - t
  BY <1>5, <1>7
<1>10. S!ComputeNextSleep(t, wake).wakeAt = (k + 1) * period
  BY <1>5, <1>7, <1>8
<1>11. m <= k /\ k * period >= t
  BY <1>2, <1>5
<1> QED
  BY <1>0, <1>6, <1>9, <1>10, <1>11 DEF NextAt

-----------------------------------------------------------------------------
(* What the schedule does in a step of the model, one action of Schedule   *)
(* or nothing.                                                             *)
ScheduleStep ==
    \/ S!Loop \/ S!Reset \/ S!Sleep \/ S!Wake \/ S!Cancelled
    \/ \E last \in BOOLEAN : S!Query(last)
    \/ UNCHANGED schedule

(* What each step of a sampling run does to the loop's schedule.           *)
LEMMA StepsOfSchedule == [Next]_vars => ScheduleStep
<1> USE DEF ScheduleStep
<1>1. CASE Begin
  BY <1>1 DEF Begin
<1>2. CASE MacQuery
  BY <1>2 DEF MacQuery
<1>3. CASE LinuxQuery
  <2>1. S!Query(walk' = "none")
    BY <1>3 DEF LinuxQuery
  <2>2. (walk' = "none") \in BOOLEAN
    OBVIOUS
  <2> QED
    BY <2>1, <2>2
<1>4. CASE Sleep
  BY <1>4 DEF Sleep
<1>5. CASE Rest
  BY <1>5 DEF Rest
<1>6. CASE Desktop \/ Returned \/ UNCHANGED vars
  BY <1>6 DEF Desktop, Returned, vars
<1> QED
  BY <1>1, <1>2, <1>3, <1>4, <1>5, <1>6 DEF Next

(* The loop's variables keep their types, and the period is what it was.   *)
LEMMA ScheduleTypeStep ==
    ASSUME ScheduleType, GridInv, ScheduleStep
    PROVE  ScheduleType' /\ period' = period
<1> USE TimesAssumption DEF ScheduleType
<1>1. CASE S!Loop
  BY <1>1 DEF S!Loop
<1>2. CASE S!Reset
  BY <1>2 DEF S!Reset, S!Elapse
<1>3. CASE S!Sleep
  <2>0. PICK j \in Nat : AtPoint(j)
    BY <1>3 DEF S!Sleep, GridInv
  <2>1. PICK m \in Nat : m = j + 1 /\ wakeAt = m * period
    BY <2>0 DEF AtPoint
  <2>2. PICK k \in Nat : NextAt(now, m, k)
    BY NextPoint
  <2>3. k * period \in Nat /\ (k + 1) * period \in Nat
    BY GridPoints
  <2>4. alarm' \in Nat /\ wakeAt' \in Nat
    BY <1>3, <2>1, <2>2, <2>3 DEF S!Sleep, NextAt
  <2> QED
    BY <1>3, <2>4 DEF S!Sleep
<1>4. CASE S!Wake
  BY <1>4 DEF S!Wake
<1>5. CASE S!Cancelled
  BY <1>5 DEF S!Cancelled
<1>6. ASSUME NEW last \in BOOLEAN, S!Query(last) PROVE ScheduleType' /\ period' = period
  BY <1>6 DEF S!Query, S!Elapse
<1>7. CASE UNCHANGED schedule
  BY <1>7 DEF schedule
<1> QED
  BY <1>1, <1>2, <1>3, <1>4, <1>5, <1>6, <1>7 DEF ScheduleStep

(* Each round of the loop is at a later point than the one before.         *)
LEMMA GridStep ==
    ASSUME ScheduleType, GridInv, ScheduleStep
    PROVE  GridInv'
<1> USE DEF ScheduleType
<1>0. ScheduleType' /\ period' = period
  BY ScheduleTypeStep
<1>1. CASE S!Loop
  <2>1. PICK k \in Nat : AtPoint(k)
    BY <1>1 DEF S!Loop, GridInv
  <2>2. AtPoint(k)' /\ phase' # "returned"
    BY <1>0, <1>1, <2>1, GridPoints DEF S!Loop, AtPoint
  <2> QED
    BY <2>2 DEF GridInv
<1>7. CASE S!Reset
  <2>1. PICK k \in Nat : AtPoint(k)
    BY <1>7 DEF S!Reset, GridInv
  <2>2. now' >= now /\ k * period \in Nat
    BY <1>7, GridPoints DEF S!Reset, S!Elapse
  <2>3. k * period <= now' /\ samples' <= k + 1 /\ (overran' = TRUE \/ samples' = k + 1)
    BY <1>0, <1>7, <2>1, <2>2 DEF S!Reset, AtPoint
  <2>4. AtPoint(k)' /\ phase' # "returned"
    BY <1>0, <1>7, <2>1, <2>3 DEF S!Reset, AtPoint
  <2> QED
    BY <2>4 DEF GridInv
<1>2. ASSUME NEW last \in BOOLEAN, S!Query(last) PROVE GridInv'
  <2>1. PICK k \in Nat : AtPoint(k)
    BY <1>2 DEF S!Query, GridInv
  <2>2. now' >= now /\ k * period \in Nat
    BY <1>2, GridPoints DEF S!Query, S!Elapse
  <2>3. AtPoint(k)' /\ phase' # "returned"
    BY <1>0, <1>2, <2>1, <2>2 DEF S!Query, AtPoint
  <2> QED
    BY <2>3 DEF GridInv
<1>3. CASE S!Sleep
  <2>1. PICK m \in Nat : AtPoint(m)
    BY <1>3 DEF S!Sleep, GridInv
  <2>2. PICK n \in Nat : n = m + 1
    OBVIOUS
  <2>3. PICK k \in Nat : NextAt(now, n, k)
    BY NextPoint
  <2>4. wakeAt = n * period /\ n * period = m * period + period
    BY <2>1, <2>2, GridPoints DEF AtPoint
  <2>5. k * period \in Nat /\ m * period \in Nat
    BY GridPoints
  <2>6. alarm' = k * period /\ wakeAt' = (k + 1) * period
    BY <1>3, <2>3, <2>4, <2>5 DEF S!Sleep, NextAt
  <2>7. m * period <= now /\ samples <= n /\ (overran = TRUE \/ samples = n)
    BY <1>3, <2>1, <2>2 DEF S!Sleep, AtPoint
  <2>8. n <= k /\ alarm' - now' \in 0..period
    BY <1>3, <2>3, <2>4, <2>5, <2>6, <2>7 DEF S!Sleep, NextAt
  <2>9. overran' = TRUE \/ samples' = k
    <3>1. CASE overran = TRUE \/ now > wakeAt
      <4>1. overran' = (overran \/ now > wakeAt)
        BY <1>3 DEF S!Sleep
      <4>2. (overran \/ now > wakeAt) = TRUE
        BY <3>1, Zenon
      <4> QED
        BY <4>1, <4>2
    <3>2. CASE ~(overran = TRUE \/ now > wakeAt)
      BY <1>3, <2>3, <2>4, <2>7, <3>2 DEF S!Sleep, NextAt
    <3> QED
      BY <3>1, <3>2
  <2>10. AtPoint(k)' /\ phase' # "returned"
    BY <1>0, <1>3, <2>6, <2>7, <2>8, <2>9 DEF S!Sleep, AtPoint
  <2> QED
    BY <2>10 DEF GridInv
<1>4. CASE S!Wake
  <2>1. PICK k \in Nat : AtPoint(k)
    BY <1>4 DEF S!Wake, GridInv
  <2>2. now' >= k * period
    BY <1>4, <2>1, GridPoints, TimesAssumption DEF S!Wake, AtPoint
  <2>3. AtPoint(k)' /\ phase' # "returned"
    BY <1>0, <1>4, <2>1, <2>2 DEF S!Wake, AtPoint
  <2> QED
    BY <2>3 DEF GridInv
<1>5. CASE S!Cancelled
  <2>1. PICK k \in Nat : AtPoint(k)
    BY <1>5 DEF S!Cancelled, GridInv
  <2>2. \E j \in Nat : j * period <= now /\ samples <= j + 1
    <3>1. CASE phase = "loop"
      BY <2>1, <3>1 DEF AtPoint
    <3>2. CASE phase = "asleep"
      <4>1. CASE k = 0
        <5>1. 0 * period = 0 /\ 0 \in Nat
          OBVIOUS
        <5> QED
          BY <2>1, <3>2, <4>1, <5>1 DEF AtPoint
      <4>2. CASE k # 0
        <5>1. PICK j \in Nat : k = j + 1
          BY <4>2
        <5>2. k * period = j * period + period /\ j * period \in Nat
          BY <5>1, GridPoints
        <5> QED
          BY <2>1, <3>2, <5>1, <5>2 DEF AtPoint
      <4> QED
        BY <4>1, <4>2
    <3> QED
      BY <1>5, <3>1, <3>2 DEF S!Cancelled
  <2> QED
    BY <1>5, <2>2 DEF S!Cancelled, GridInv
<1>6. CASE UNCHANGED schedule
  BY <1>6 DEF schedule, GridInv, AtPoint
<1> QED
  BY <1>1, <1>2, <1>3, <1>4, <1>5, <1>6, <1>7 DEF ScheduleStep

-----------------------------------------------------------------------------
(* The macOS backends see the schedule only in which step it takes: a      *)
(* sample begins, a query is answered, the sample is over, or its values   *)
(* are forgotten when the loop goes to sleep.                              *)
MacStep ==
    \/ /\ kind # "linux" /\ phase \in {"loop", "reset"} /\ phase' = "sample"
       /\ M!Start(IF kind = "native" THEN "window" ELSE "name")
    \/ /\ phase \in {"loop", "reset"} /\ (kind = "linux" \/ phase' = "reset")
       /\ phase' \in {"reset", "sample"} /\ UNCHANGED mac
    \/ kind # "linux" /\ phase = "sample" /\ phase' = "sample" /\ M!Step
    \/ kind # "linux" /\ phase = "sample" /\ phase' = "record" /\ M!Idle
    \/ kind # "linux" /\ phase # "returned" /\ phase' = phase /\ (M!Switch \/ M!Permit)
    \/ phase = "record" /\ phase' = "asleep" /\ M!Forget
    \/ phase \in {"loop", "asleep"} /\ phase' \in {"loop", "returned"} /\ UNCHANGED mac
    \/ kind = "linux" /\ phase = "sample" /\ phase' \in {"sample", "record"} /\ UNCHANGED mac
    \/ UNCHANGED <<phase, mac>>

(* What each step of a sampling run does to the macOS backend.             *)
LEMMA StepsOfMac == [Next]_vars => MacStep /\ kind' = kind
<1>1. CASE Begin
  <2>1. /\ phase \in {"loop", "reset"} /\ phase' \in {"reset", "sample"}
        /\ phase = "reset" => phase' = "sample"
    BY <1>1 DEF Begin, S!Loop, S!Reset
  <2> QED
    BY <1>1, <2>1 DEF Begin, MacStep
<1>2. CASE MacQuery
  BY <1>2 DEF MacQuery, MacStep, S!Query
<1>3. CASE LinuxQuery
  BY <1>3 DEF LinuxQuery, MacStep, S!Query
<1>4. CASE Sleep
  BY <1>4 DEF Sleep, MacStep, S!Sleep
<1>5. CASE Rest
  BY <1>5 DEF Rest, MacStep, S!Wake, S!Cancelled
<1>6. CASE Desktop
  BY <1>6 DEF Desktop, MacStep, schedule
<1>7. CASE Returned \/ UNCHANGED vars
  BY <1>7 DEF Returned, MacStep, vars, schedule
<1> QED
  BY <1>1, <1>2, <1>3, <1>4, <1>5, <1>6, <1>7 DEF Next

(* Every step keeps what the invariant says of the macOS backends.         *)
LEMMA MacInvStep ==
    ASSUME MacInv, MacStep, kind' = kind
    PROVE  MacInv'
<1> USE NoneAssumption DEF MacInv
<1>1. ASSUME kind # "linux" /\ phase \in {"loop", "reset"}, phase' = "sample",
             M!Start(IF kind = "native" THEN "window" ELSE "name")
      PROVE  MacInv'
  <2>1. MacType'
    BY <1>1 DEF M!Start, M!desktop, MacType
  <2>2. QueryInv'
    BY <1>1 DEF M!Start, M!desktop, MacType, QueryInv
  <2>3. NativeInv'
    BY <1>1 DEF M!Start, M!desktop, MacType, NativeInv, QueryInv
  <2>4. SubprocessInv'
    BY <1>1 DEF M!Start, M!desktop, MacType, SubprocessInv, QueryInv
  <2> QED
    BY <2>1, <2>2, <2>3, <2>4
<1>2. ASSUME kind # "linux" /\ phase = "sample", phase' = "sample", M!WindowInfo
      PROVE  MacInv'
  <2>1. MacType'
    BY <1>2 DEF M!WindowInfo, M!TitleOf, M!desktop, MacType
  <2>2. QueryInv'
    BY <1>2 DEF M!WindowInfo, M!TitleOf, M!desktop, MacType, QueryInv
  <2>3. NativeInv'
    BY <1>2 DEF M!WindowInfo, M!TitleOf, M!desktop, MacType, NativeInv, QueryInv
  <2>4. SubprocessInv'
    BY <1>2 DEF M!WindowInfo, M!TitleOf, M!desktop, MacType, SubprocessInv, QueryInv
  <2> QED
    BY <2>1, <2>2, <2>3, <2>4
<1>3. ASSUME kind # "linux" /\ phase = "sample", phase' = "sample", M!Application
      PROVE  MacInv'
  <2>1. MacType'
    BY <1>3 DEF M!Application, M!desktop, MacType
  <2>2. QueryInv'
    BY <1>3 DEF M!Application, M!desktop, MacType, QueryInv
  <2>3. NativeInv'
    BY <1>3 DEF M!Application, M!desktop, MacType, NativeInv, QueryInv
  <2>4. SubprocessInv'
    BY <1>3 DEF M!Application, M!desktop, MacType, SubprocessInv, QueryInv
  <2> QED
    BY <2>1, <2>2, <2>3, <2>4
<1>4. ASSUME kind # "linux" /\ phase = "sample", phase' = "sample", M!Trust
      PROVE  MacInv'
  <2>1. MacType'
    BY <1>4 DEF M!Trust, M!desktop, MacType
  <2>2. QueryInv'
    BY <1>4 DEF M!Trust, M!desktop, MacType, QueryInv
  <2>3. NativeInv'
    BY <1>4 DEF M!Trust, M!desktop, MacType, NativeInv, QueryInv
  <2>4. SubprocessInv'
    BY <1>4 DEF M!Trust, M!desktop, MacType, SubprocessInv, QueryInv
  <2> QED
    BY <2>1, <2>2, <2>3, <2>4
<1>5. ASSUME kind # "linux" /\ phase = "sample", phase' = "sample", M!FocusedTitle
      PROVE  MacInv'
  <2>1. MacType'
    BY <1>5 DEF M!FocusedTitle, M!TitleOf, M!desktop, MacType
  <2>2. QueryInv'
    BY <1>5 DEF M!FocusedTitle, M!TitleOf, M!desktop, MacType, QueryInv
  <2>3. NativeInv'
    BY <1>5 DEF M!FocusedTitle, M!TitleOf, M!desktop, MacType, NativeInv, QueryInv
  <2>4. SubprocessInv'
    BY <1>5 DEF M!FocusedTitle, M!TitleOf, M!desktop, MacType, SubprocessInv, QueryInv
  <2> QED
    BY <2>1, <2>2, <2>3, <2>4
<1>6. ASSUME kind # "linux" /\ phase = "sample", phase' = "sample", M!AppNameCommand
      PROVE  MacInv'
  <2>1. MacType'
    BY <1>6 DEF M!AppNameCommand, M!desktop, MacType
  <2>2. QueryInv'
    BY <1>6 DEF M!AppNameCommand, M!desktop, MacType, QueryInv
  <2>3. NativeInv'
    BY <1>6 DEF M!AppNameCommand, M!desktop, MacType, NativeInv, QueryInv
  <2>4. SubprocessInv'
    BY <1>6 DEF M!AppNameCommand, M!desktop, MacType, SubprocessInv, QueryInv
  <2> QED
    BY <2>1, <2>2, <2>3, <2>4
<1>7. ASSUME kind # "linux" /\ phase = "sample", phase' = "sample", M!WindowTitleCommand
      PROVE  MacInv'
  <2>1. MacType'
    BY <1>7 DEF M!WindowTitleCommand, M!TitleOf, M!desktop, MacType
  <2>2. QueryInv'
    BY <1>7 DEF M!WindowTitleCommand, M!TitleOf, M!desktop, MacType, QueryInv
  <2>3. NativeInv'
    BY <1>7 DEF M!WindowTitleCommand, M!TitleOf, M!desktop, MacType, NativeInv, QueryInv
  <2>4. SubprocessInv'
    BY <1>7 DEF M!WindowTitleCommand, M!TitleOf, M!desktop, MacType, SubprocessInv, QueryInv
  <2> QED
    BY <2>1, <2>2, <2>3, <2>4
<1>8. ASSUME kind # "linux" /\ phase = "sample", phase' = "record", M!Idle
      PROVE  MacInv'
  <2>1. MacType'
    BY <1>8 DEF M!Idle, M!desktop, MacType
  <2>2. QueryInv'
    BY <1>8 DEF M!Idle, M!desktop, MacType, QueryInv
  <2>3. NativeInv'
    BY <1>8 DEF M!Idle, M!desktop, MacType, NativeInv, QueryInv
  <2>4. SubprocessInv'
    BY <1>8 DEF M!Idle, M!desktop, MacType, SubprocessInv, QueryInv
  <2> QED
    BY <2>1, <2>2, <2>3, <2>4
<1>9. ASSUME kind # "linux", phase' = phase, M!Switch
      PROVE  MacInv'
  <2>1. MacType'
    BY <1>9 DEF M!Switch, MacType
  <2>2. QueryInv'
    BY <1>9 DEF M!Switch, MacType, QueryInv
  <2>3. NativeInv'
    BY <1>9 DEF M!Switch, MacType, NativeInv, QueryInv
  <2>4. SubprocessInv'
    BY <1>9 DEF M!Switch, MacType, SubprocessInv, QueryInv
  <2> QED
    BY <2>1, <2>2, <2>3, <2>4
<1>10. ASSUME kind # "linux", phase' = phase, M!Permit
      PROVE  MacInv'
  <2>1. MacType'
    BY <1>10 DEF M!Permit, MacType
  <2>2. QueryInv'
    BY <1>10 DEF M!Permit, MacType, QueryInv
  <2>3. NativeInv'
    BY <1>10 DEF M!Permit, MacType, NativeInv, QueryInv
  <2>4. SubprocessInv'
    BY <1>10 DEF M!Permit, MacType, SubprocessInv, QueryInv
  <2> QED
    BY <2>1, <2>2, <2>3, <2>4
<1>11. ASSUME phase = "record", phase' = "asleep", M!Forget
      PROVE  MacInv'
  <2>1. MacType'
    BY <1>11 DEF M!Forget, M!desktop, MacType
  <2>2. QueryInv'
    BY <1>11 DEF M!Forget, M!desktop, MacType, QueryInv
  <2>3. NativeInv'
    BY <1>11 DEF M!Forget, M!desktop, MacType, NativeInv, QueryInv
  <2>4. SubprocessInv'
    BY <1>11 DEF M!Forget, M!desktop, MacType, SubprocessInv, QueryInv
  <2> QED
    BY <2>1, <2>2, <2>3, <2>4
<1>12. ASSUME UNCHANGED mac,
             \/ phase \in {"loop", "reset"} /\ phase' \in {"reset", "sample"}
                /\ (kind = "linux" \/ phase' = "reset")
             \/ phase \in {"loop", "asleep"} /\ phase' \in {"loop", "returned"}
             \/ kind = "linux" /\ phase = "sample" /\ phase' \in {"sample", "record"}
             \/ UNCHANGED phase
      PROVE  MacInv'
  BY <1>12 DEF mac, MacType, QueryInv, NativeInv, SubprocessInv
<1> QED
  BY <1>1, <1>2, <1>3, <1>4, <1>5, <1>6, <1>7, <1>8, <1>9, <1>10, <1>11, <1>12
  DEF MacStep, M!Step

-----------------------------------------------------------------------------
(* Induction over 0..N: a set of numbers that holds 0, and with each number *)
(* the next, holds all of them.                                            *)
LEMMA Induction ==
    ASSUME NEW N \in Nat, NEW A, 0 \in A, \A n \in 0..(N - 1) : n \in A => n + 1 \in A
    PROVE  0..N \subseteq A
<1> DEFINE Missing == {n \in Nat : n <= N /\ n \notin A}
<1>1. CASE Missing = {}
  BY <1>1
<1>2. CASE Missing # {}
  <2>1. PICK m \in Missing : \A k \in Missing : ~(<<k, m>> \in OpToRel(<, Nat))
    <3>1. Missing \subseteq Nat
      OBVIOUS
    <3>2. IsWellFoundedOn(OpToRel(<, Nat), Nat)
      BY NatLessThanWellFounded
    <3> HIDE DEF Missing
    <3> QED
      BY <1>2, <3>1, <3>2, WFMin
  <2>2. \A k \in Missing : ~(k < m)
    <3>1. Missing \subseteq Nat /\ m \in Nat
      OBVIOUS
    <3> HIDE DEF Missing
    <3>2. \A k \in Missing : <<k, m>> \in Nat \X Nat
      BY <3>1
    <3> QED
      BY <2>1, <3>2, Zenon DEF OpToRel
  <2>3. m \in Nat /\ m # 0 /\ m <= N /\ m \notin A
    BY <2>1
  <2>4. m - 1 \in A
    BY <2>2, <2>3
  <2>5. (m - 1) + 1 \in A
    BY <2>3, <2>4
  <2> QED
    BY <2>3, <2>5
<1> QED
  BY <1>1, <1>2

(* What p makes of a set of windows: it and the parents.                   *)
Up(p, A) == A \cup {p[v] : v \in A \ {Root}}

(* g[n] holds w and what is up to n steps above it.                        *)
Climbs(p, w, g, m) == g = [n \in 0..m |-> IF n = 0 THEN {w} ELSE Up(p, g[n - 1])]

(* An instance of a module counts as the module does.                      *)
LEMMA SameCardinality == X!Cardinality(Windows) = Size
  BY Zenon DEF X!Cardinality, Cardinality, Size

(* The windows above w are well defined.                                   *)
LEMMA LineRuns ==
    ASSUME NEW p, NEW w
    PROVE  \E g : Climbs(p, w, g, Size) /\ X!LineIn(p, w) = g[Size] \ {Root}
<1> DEFINE A == {m \in Nat : \E g : Climbs(p, w, g, m)}
<1>0. Size \in Nat
  BY WindowsAssumption, FS_CardinalityType DEF Size
<1>1. 0 \in A
  <2>1. Climbs(p, w, [n \in 0..0 |-> {w}], 0)
    BY DEF Climbs
  <2> QED
    BY <2>1
<1>2. ASSUME NEW m \in 0..(Size - 1), m \in A PROVE m + 1 \in A
  <2>0. m \in Nat /\ m + 1 \in Nat
    BY <1>0
  <2>1. PICK g : Climbs(p, w, g, m)
    BY <1>2
  <2> DEFINE h == [n \in 0..(m + 1) |-> IF n = m + 1 THEN Up(p, g[m]) ELSE g[n]]
  <2>2. \A n \in 0..m : g[n] = IF n = 0 THEN {w} ELSE Up(p, g[n - 1])
    BY <2>1 DEF Climbs
  <2>3. \A n \in 0..(m + 1) : h[n] = IF n = 0 THEN {w} ELSE Up(p, h[n - 1])
    <3>1. h[m + 1] = Up(p, g[m]) /\ \A n \in 0..m : h[n] = g[n]
      BY <2>0
    <3>2. (m + 1) - 1 = m /\ m + 1 # 0 /\ m \in 0..m
      BY <2>0
    <3>3. \A n \in 0..(m + 1) : n = m + 1 \/ (n \in 0..m /\ (n = 0 \/ n - 1 \in 0..m))
      BY <2>0
    <3> HIDE DEF h
    <3> QED
      BY <2>2, <3>1, <3>2, <3>3
  <2>4. Climbs(p, w, h, m + 1)
    <3> HIDE DEF h
    <3>1. h = [n \in 0..(m + 1) |-> h[n]]
      BY DEF h
    <3> QED
      BY <2>3, <3>1 DEF Climbs
  <2> HIDE DEF h
  <2> QED
    BY <2>0, <2>4
<1>3. Size \in A
  <2> HIDE DEF A
  <2>1. 0..Size \subseteq A
    BY <1>0, <1>1, <1>2, Induction
  <2> QED
    BY <1>0, <2>1
<1>4. PICK g : Climbs(p, w, g, Size)
  BY <1>3
<1> DEFINE chosen == CHOOSE f : Climbs(p, w, f, Size)
<1>5. Climbs(p, w, chosen, Size)
  BY <1>4
<1>6. X!LineIn(p, w) = chosen[Size] \ {Root}
  BY SameCardinality DEF X!LineIn, Climbs, Up
<1> QED
  BY <1>5, <1>6

(* What is above w is in every set that holds w and the parents of its     *)
(* windows.                                                                *)
LEMMA LineIsLeast ==
    ASSUME NEW p, NEW w, NEW A, w \in A, \A v \in A \ {Root} : p[v] \in A
    PROVE  X!LineIn(p, w) \subseteq A \ {Root}
<1>0. Size \in Nat
  BY WindowsAssumption, FS_CardinalityType DEF Size
<1>1. PICK g : Climbs(p, w, g, Size) /\ X!LineIn(p, w) = g[Size] \ {Root}
  BY LineRuns
<1>2. \A n \in 0..Size : g[n] = IF n = 0 THEN {w} ELSE Up(p, g[n - 1])
  BY <1>1 DEF Climbs
<1> DEFINE B == {n \in 0..Size : g[n] \subseteq A}
<1>3. 0 \in B
  BY <1>0, <1>2
<1>4. ASSUME NEW n \in 0..(Size - 1), n \in B PROVE n + 1 \in B
  <2>1. n + 1 \in 0..Size /\ n + 1 # 0 /\ (n + 1) - 1 = n
    BY <1>0
  <2>2. g[n + 1] = Up(p, g[n])
    BY <1>2, <2>1
  <2>3. Up(p, g[n]) \subseteq A
    BY <1>4 DEF Up
  <2> QED
    BY <2>1, <2>2, <2>3
<1>5. 0..Size \subseteq B
  <2> HIDE DEF B
  <2> QED
    BY <1>0, <1>3, <1>4, Induction
<1>6. Size \in 0..Size
  BY <1>0
<1> QED
  BY <1>1, <1>5, <1>6

(* In a tree no line is longer than there are windows: the parent of what  *)
(* is above w is above w as well, or the root.                             *)
LEMMA LineIsClosed ==
    ASSUME NEW p \in Trees, NEW w \in Places
    PROVE  /\ X!LineIn(p, w) \subseteq Windows
           /\ w # Root => w \in X!LineIn(p, w)
           /\ \A v \in X!LineIn(p, w) : p[v] \in X!LineIn(p, w) \cup {Root}
<1>0. Size \in Nat
  BY WindowsAssumption, FS_CardinalityType DEF Size
<1>1. PICK g : Climbs(p, w, g, Size) /\ X!LineIn(p, w) = g[Size] \ {Root}
  BY LineRuns
<1>2. \A n \in 0..Size : g[n] = IF n = 0 THEN {w} ELSE Up(p, g[n - 1])
  BY <1>1 DEF Climbs
<1>3. p \in [Windows -> Places]
  BY DEF Trees
<1>4. PICK rank \in [Windows -> 1..Size] :
          \A v \in Windows : p[v] = Root \/ rank[p[v]] < rank[v]
  BY SameCardinality DEF Trees, X!IsTree
<1> DEFINE new(n) == {v \in g[n] \ {Root} : n = 0 \/ v \notin g[n - 1]}
           B == {n \in 0..Size : /\ w \in g[n] /\ g[n] \subseteq Places
                                 /\ \A v \in new(n) : rank[v] <= Size - n}
<1>5. 0 \in B
  BY <1>0, <1>2, <1>4 DEF Places
<1>6. ASSUME NEW n \in 0..(Size - 1), n \in B PROVE n + 1 \in B
  <2>1. n + 1 \in 0..Size /\ n + 1 # 0 /\ (n + 1) - 1 = n
    BY <1>0
  <2>2. g[n + 1] = Up(p, g[n])
    BY <1>2, <2>1
  <2>3. w \in g[n] /\ g[n] \subseteq Places
    BY <1>6
  <2>4. w \in g[n + 1] /\ g[n + 1] \subseteq Places
    BY <1>3, <2>2, <2>3 DEF Up, Places
  <2>5. ASSUME NEW v \in new(n + 1) PROVE rank[v] <= Size - (n + 1)
    <3>1. v \in g[n + 1] /\ v # Root /\ v \notin g[n]
      BY <2>1
    <3>2. PICK u \in g[n] \ {Root} : v = p[u]
      BY <2>2, <3>1 DEF Up
    <3>3. u \in new(n)
      <4>1. CASE n = 0
        BY <3>2, <4>1
      <4>2. CASE n # 0
        <5>1. n \in 0..Size /\ g[n] = Up(p, g[n - 1])
          BY <1>0, <1>2, <4>2
        <5>2. u \notin g[n - 1]
          BY <3>1, <3>2, <5>1 DEF Up
        <5> QED
          BY <3>2, <5>2
      <4> QED
        BY <4>1, <4>2
    <3>4. rank[u] <= Size - n
      BY <1>6, <3>3
    <3>5. u \in Windows /\ v \in Windows
      BY <2>3, <2>4, <3>1, <3>2 DEF Places
    <3>6. rank[v] < rank[u] /\ rank[v] \in 1..Size /\ rank[u] \in 1..Size
      BY <1>4, <3>1, <3>2, <3>5
    <3> QED
      BY <1>0, <3>4, <3>6
  <2> HIDE DEF new
  <2> QED
    BY <2>1, <2>4, <2>5
<1>7. Size \in B
  <2> HIDE DEF B
  <2>1. 0..Size \subseteq B
    BY <1>0, <1>5, <1>6, Induction
  <2> QED
    BY <1>0, <2>1
<1>8. X!LineIn(p, w) \subseteq Windows /\ (w # Root => w \in X!LineIn(p, w))
  BY <1>1, <1>7 DEF Places
<1>9. ASSUME NEW v \in X!LineIn(p, w) PROVE p[v] \in g[Size]
  <2>1. v \in g[Size] \ {Root} /\ v \in Windows
    BY <1>1, <1>8
  <2>2. v \notin new(Size)
    <3>1. rank[v] \in 1..Size
      BY <1>4, <2>1
    <3>2. ~(rank[v] <= Size - Size)
      BY <1>0, <3>1
    <3> QED
      BY <1>7, <3>2
  <2>3. Size # 0 /\ v \in g[Size - 1]
    BY <2>1, <2>2
  <2>4. Size \in 0..Size
    BY <1>0
  <2>5. g[Size] = Up(p, g[Size - 1])
    BY <1>2, <2>3, <2>4
  <2> QED
    BY <2>1, <2>3, <2>5 DEF Up
<1> QED
  BY <1>1, <1>8, <1>9

(* The line of a window is the window and the line of its parent.          *)
LEMMA LineOfParent ==
    ASSUME NEW p \in Trees
    PROVE  /\ X!LineIn(p, Root) = {}
           /\ \A w \in Windows : /\ X!LineIn(p, w) = {w} \cup X!LineIn(p, p[w])
                                 /\ w \notin X!LineIn(p, p[w])
           /\ \A w \in Places : \A v \in X!LineIn(p, w) :
                  X!LineIn(p, v) \subseteq X!LineIn(p, w)
<1>1. X!LineIn(p, Root) = {}
  <2>1. X!LineIn(p, Root) \subseteq {Root} \ {Root}
    BY LineIsLeast
  <2> QED
    BY <2>1
<1>2. ASSUME NEW w \in Places, NEW v \in X!LineIn(p, w) \cup {Root}
      PROVE  X!LineIn(p, v) \subseteq X!LineIn(p, w)
  <2> DEFINE A == X!LineIn(p, w) \cup {Root}
  <2>1. v \in A /\ \A u \in A \ {Root} : p[u] \in A
    BY <1>2, LineIsClosed
  <2>2. X!LineIn(p, v) \subseteq A \ {Root}
    <3> HIDE DEF A
    <3> QED
      BY <2>1, LineIsLeast
  <2> QED
    BY <2>2
<1>3. ASSUME NEW w \in Windows
      PROVE  X!LineIn(p, w) = {w} \cup X!LineIn(p, p[w]) /\ w \notin X!LineIn(p, p[w])
  <2>1. w \in Places /\ p[w] \in Places /\ w # Root
    BY WindowsAssumption DEF Trees, Places
  <2>2. X!LineIn(p, p[w]) \subseteq X!LineIn(p, w) /\ w \in X!LineIn(p, w)
    BY <1>2, <2>1, LineIsClosed
  <2>3. X!LineIn(p, w) \subseteq {w} \cup X!LineIn(p, p[w])
    <3> DEFINE A == {w, Root} \cup X!LineIn(p, p[w])
    <3>1. w \in A /\ \A u \in A \ {Root} : p[u] \in A
      BY <2>1, LineIsClosed
    <3>2. X!LineIn(p, w) \subseteq A \ {Root}
      <4> HIDE DEF A
      <4> QED
        BY <3>1, LineIsLeast
    <3> QED
      BY <3>2
  <2>4. w \notin X!LineIn(p, p[w])
    <3>1. PICK rank \in [Windows -> 1..Size] :
              \A v \in Windows : p[v] = Root \/ rank[p[v]] < rank[v]
      BY SameCardinality DEF Trees, X!IsTree
    <3>2. Size \in Nat /\ p \in [Windows -> Places]
      BY WindowsAssumption, FS_CardinalityType DEF Size, Trees
    <3> DEFINE A == {v \in Windows : rank[v] < rank[w]} \cup {Root}
    <3>3. p[w] \in A
      BY <2>1, <3>1 DEF Places
    <3>4. ASSUME NEW u \in A \ {Root} PROVE p[u] \in A
      <4>1. u \in Windows /\ rank[u] < rank[w] /\ p[u] \in Places
        BY <3>2
      <4>2. p[u] = Root \/ (p[u] \in Windows /\ rank[p[u]] < rank[u])
        BY <3>1, <4>1 DEF Places
      <4>3. rank[u] \in 1..Size /\ rank[w] \in 1..Size
        BY <3>1, <4>1
      <4>4. p[u] \in Windows => rank[p[u]] \in 1..Size
        BY <3>1
      <4> QED
        BY <3>2, <4>1, <4>2, <4>3, <4>4
    <3>5. X!LineIn(p, p[w]) \subseteq A \ {Root}
      <4> HIDE DEF A
      <4> QED
        BY <3>3, <3>4, LineIsLeast
    <3>6. w \notin A
      <4>1. rank[w] \in 1..Size
        BY <3>1
      <4> QED
        BY <2>1, <3>2, <4>1
    <3> HIDE DEF A
    <3> QED
      BY <3>5, <3>6
  <2> QED
    BY <2>2, <2>3, <2>4
<1> QED
  BY <1>1, <1>2, <1>3

(* A window that gets a parent which is not below it leaves a tree.        *)
LEMMA MovedTree ==
    ASSUME NEW p \in Trees, NEW w \in Windows, NEW q \in Places,
           q # Root => w \notin X!LineIn(p, q)
    PROVE  [p EXCEPT ![w] = q] \in Trees
<1> DEFINE t == [p EXCEPT ![w] = q]
           below == {v \in Windows : w \in X!LineIn(p, v)}
<1>1. p \in [Windows -> Places] /\ t \in [Windows -> Places]
  BY DEF Trees
<1>2. PICK rank \in [Windows -> 1..Size] :
          \A v \in Windows : p[v] = Root \/ rank[p[v]] < rank[v]
  BY SameCardinality DEF Trees, X!IsTree
<1> DEFINE first(v) == {u \in Windows : rank[u] <= rank[v] /\ (u \in below <=> v \in below)}
           before(v) == first(v) \cup {u \in Windows : u \notin below /\ v \in below}
           order == [v \in Windows |-> Cardinality(before(v))]
<1>3. Size \in Nat /\ IsFiniteSet(Windows)
  BY WindowsAssumption, FS_CardinalityType DEF Size
<1>4. ASSUME NEW v \in Windows
      PROVE  /\ IsFiniteSet(before(v)) /\ Cardinality(before(v)) \in 1..Size
             /\ v \in before(v)
  <2>1. rank[v] \in 1..Size
    BY <1>2
  <2>2. v \in before(v) /\ before(v) \in SUBSET Windows
    BY <1>3, <2>1
  <2> HIDE DEF before
  <2>3. IsFiniteSet(before(v)) /\ Cardinality(before(v)) <= Size
    BY <1>3, <2>2, FS_Subset DEF Size
  <2>4. Cardinality(before(v)) \in Nat /\ Cardinality(before(v)) # 0
    BY <2>2, <2>3, FS_CardinalityType, FS_EmptySet
  <2> QED
    BY <1>3, <2>2, <2>3, <2>4
<1>5. ASSUME NEW v \in Windows, t[v] # Root PROVE order[t[v]] < order[v]
  <2>1. t[v] \in Windows
    BY <1>1, <1>5 DEF Places
  <2>2. before(t[v]) \subseteq before(v) /\ v \notin before(t[v])
    <3>1. CASE v = w
      <4>1. t[v] = q /\ w \in below /\ q \notin below
        BY <1>1, <1>5, <3>1, LineIsClosed, WindowsAssumption DEF Places
      <4> HIDE DEF below
      <4> QED
        BY <3>1, <4>1
    <3>2. CASE v # w
      <4>1. t[v] = p[v] /\ rank[t[v]] < rank[v]
        BY <1>1, <1>2, <1>5, <3>2
      <4>2. v \in below <=> t[v] \in below
        BY <2>1, <3>2, <4>1, LineOfParent
      <4>3. rank[t[v]] \in 1..Size /\ rank[v] \in 1..Size
        BY <1>2, <2>1
      <4>4. \A u \in Windows : rank[u] \in 1..Size
        BY <1>2
      <4> HIDE DEF below
      <4>5. v \notin before(t[v])
        BY <1>3, <4>1, <4>2, <4>3
      <4>6. ASSUME NEW u \in before(t[v]) PROVE u \in before(v)
        BY <1>3, <4>1, <4>2, <4>3, <4>4
      <4> QED
        BY <4>5, <4>6
    <3> QED
      BY <3>1, <3>2
  <2> HIDE DEF before
  <2>3. /\ Cardinality(before(t[v])) <= Cardinality(before(v))
        /\ Cardinality(before(t[v])) # Cardinality(before(v))
    BY <1>4, <2>2, FS_Subset
  <2>4. Cardinality(before(t[v])) \in 1..Size /\ Cardinality(before(v)) \in 1..Size
    BY <1>4, <2>1
  <2> QED
    BY <1>3, <2>1, <2>3, <2>4
<1>6. order \in [Windows -> 1..Size]
  <2> HIDE DEF before
  <2> QED
    BY <1>4
<1> HIDE DEF order, t
<1>7. X!IsTree(t)
  BY <1>5, <1>6, SameCardinality DEF X!IsTree
<1>8. t \in Trees
  BY <1>1, <1>7 DEF Trees
<1> QED
  BY <1>8 DEF t

-----------------------------------------------------------------------------
(* A query of the X server is a step of a sample, which ends with the walk. *)
X11Step ==
    \/ phase' = phase /\ walk # "none" /\ X!Move
    \/ /\ phase = "sample" /\ phase' = IF walk' = "none" THEN "record" ELSE "sample"
       /\ X!Active \/ X!Step
    \/ phase = "record" /\ phase' = "asleep" /\ X!Forget
    \/ /\ phase' = phase \/ (phase # "sample" /\ phase' # "record")
       /\ UNCHANGED x11

(* What each step of a sampling run does to the Linux backend.             *)
LEMMA StepsOfX11 == kind = "linux" /\ [Next]_vars => X11Step /\ kind' = kind
<1> SUFFICES ASSUME kind = "linux", [Next]_vars PROVE X11Step /\ kind' = kind
  OBVIOUS
<1>1. CASE Begin
  <2>1. phase \in {"loop", "reset"} /\ phase' \in {"reset", "sample"}
    BY <1>1 DEF Begin, S!Loop, S!Reset
  <2> QED
    BY <1>1, <2>1 DEF Begin, X11Step
<1>2. CASE MacQuery
  BY <1>2 DEF MacQuery
<1>3. CASE LinuxQuery
  <2>1. phase = "sample" /\ phase' = IF walk' = "none" THEN "record" ELSE "sample"
    BY <1>3 DEF LinuxQuery, S!Query
  <2> QED
    BY <1>3, <2>1 DEF LinuxQuery, X11Step
<1>4. CASE Sleep
  BY <1>4 DEF Sleep, X11Step, S!Sleep
<1>5. CASE Rest
  BY <1>5 DEF Rest, X11Step, S!Wake, S!Cancelled
<1>6. CASE Desktop
  BY <1>6 DEF Desktop, X11Step, schedule
<1>7. CASE Returned \/ UNCHANGED vars
  BY <1>7 DEF Returned, X11Step, vars, schedule
<1> QED
  BY <1>1, <1>2, <1>3, <1>4, <1>5, <1>6, <1>7 DEF Next

(* The walk asks for a parent: it ends below the root, or goes on to a     *)
(* window further up the line of the focus.                                *)
LEMMA ParentStep ==
    ASSUME kind = "linux", kind' = kind, X11Type, WalkInv, phase = "sample",
           phase' = IF walk' = "none" THEN "record" ELSE "sample", X!Parent
    PROVE  X11Type' /\ WalkInv' /\ SampleOfTheTopLevelWindow'
<1> DEFINE line == X!LineIn(parent, focus)
           above == line \ {focus}
<1>1. /\ walk = "parent" /\ hint = NoWindow /\ focus \in Places /\ parent \in Trees
      /\ UNCHANGED <<parent, named, focus, hint, moves, moved>>
  BY DEF X!Parent, X11Type
<1>2. X11Type'
  BY DEF X!Parent, X11Type
<1>3. CASE moved = TRUE
  BY <1>1, <1>2, <1>3 DEF WalkInv, SampleOfTheTopLevelWindow
<1>4. CASE moved = FALSE
  <2>1. /\ window = focus \/ window \in above
        /\ \A w \in above \cap named : w \in X!LineIn(parent, window)
        /\ window = focus \/ window \notin named
    BY <1>1, <1>4 DEF WalkInv, X!Line
  <2>2. line \subseteq Windows /\ (focus # Root => focus \in line)
    BY <1>1, LineIsClosed
  <2>3. Root \notin Windows /\ NoWindow \notin Windows
    BY WindowsAssumption
  <2>4. CASE window = Root
    <3>1. focus = Root /\ walk' = "none" /\ found' = Root
      BY <2>1, <2>2, <2>3, <2>4 DEF X!Parent
    <3> QED
      BY <1>1, <1>2, <3>1 DEF WalkInv, SampleOfTheTopLevelWindow
  <2>5. ASSUME window # Root
        PROVE  /\ window \in Windows /\ window \in line /\ focus \in Windows
               /\ X!LineIn(parent, window) =
                      {window} \cup X!LineIn(parent, parent[window])
    <3>1. window \in Windows
      BY <1>1, <2>1, <2>2, <2>5 DEF Places
    <3>2. focus # Root
      BY <1>1, <2>1, <2>5, LineOfParent
    <3>3. window \in line
      BY <2>1, <2>2, <3>2
    <3> QED
      BY <1>1, <3>1, <3>2, <3>3, LineOfParent DEF Places
  <2>6. CASE window # Root /\ parent[window] = Root
    <3>1. walk' = "none" /\ found' = window
      BY <2>6 DEF X!Parent
    <3>2. X!LineIn(parent, window) = {window}
      BY <1>1, <2>5, <2>6, LineOfParent
    <3>3. above \cap named = {}
      BY <2>1, <3>2
    <3>4. hint' = NoWindow /\ found' \in line /\ parent'[found'] = Root
      BY <1>1, <2>5, <2>6, <3>1
    <3>5. SampleOfTheTopLevelWindow'
      BY <1>1, <3>3, <3>4 DEF SampleOfTheTopLevelWindow, X!Line
    <3> QED
      BY <1>2, <3>1, <3>5 DEF WalkInv
  <2>7. CASE window # Root /\ parent[window] # Root
    <3>1. walk' = "title" /\ window' = parent[window] /\ phase' = "sample"
      BY <2>7 DEF X!Parent
    <3>2. parent[window] \in line
      BY <1>1, <2>5, <2>7, LineIsClosed
    <3>3. parent[window] # focus
      <4>1. line = {focus} \cup X!LineIn(parent, parent[focus])
            /\ focus \notin X!LineIn(parent, parent[focus])
        BY <1>1, <2>5, <2>7, LineOfParent
      <4>2. CASE window = focus
        <5>1. parent[focus] = focus => focus \notin line
          BY <4>1
        <5> QED
          BY <2>2, <2>5, <2>7, <4>2, <5>1
      <4>3. CASE window # focus
        <5>1. window \in X!LineIn(parent, parent[focus])
          BY <2>5, <2>7, <4>1, <4>3
        <5>2. parent[focus] \in Places
          BY <1>1, <2>5, <2>7 DEF Trees
        <5>3. parent[window] \in X!LineIn(parent, parent[focus])
          BY <1>1, <2>7, <5>1, <5>2, LineIsClosed
        <5> QED
          BY <4>1, <5>3
      <4> QED
        BY <4>2, <4>3
    <3>4. \A w \in above \cap named : w \in X!LineIn(parent, parent[window])
      BY <2>1, <2>5, <2>7
    <3>5. WalkInv'
      BY <1>1, <3>1, <3>2, <3>3, <3>4 DEF WalkInv, X!Line
    <3> QED
      BY <1>2, <3>1, <3>5 DEF SampleOfTheTopLevelWindow
  <2> QED
    BY <2>4, <2>6, <2>7
<1> QED
  BY <1>1, <1>3, <1>4 DEF X11Type

(* Every step keeps what the invariant says of the Linux backend.          *)
LEMMA X11InvStep ==
    ASSUME X11Inv, kind = "linux" => X11Step, kind' = kind
    PROVE  X11Inv'
<1> SUFFICES ASSUME kind = "linux", X11Type, WalkInv, SampleOfTheTopLevelWindow, X11Step
             PROVE  X11Type' /\ WalkInv' /\ SampleOfTheTopLevelWindow'
  BY DEF X11Inv
<1>1. ASSUME phase' = phase, walk # "none", X!Move
      PROVE  X11Type' /\ WalkInv' /\ SampleOfTheTopLevelWindow'
  <2>1. PICK w \in Windows, p \in Places :
            /\ p # Root => w \notin X!LineIn(parent, p)
            /\ parent' = [parent EXCEPT ![w] = p]
    BY <1>1 DEF X!Move, X!Line, Places
  <2>2. parent' \in Trees
    BY <2>1, MovedTree DEF X11Type
  <2> QED
    BY <1>1, <2>2 DEF X!Move, X11Type, WalkInv, SampleOfTheTopLevelWindow
<1>2. ASSUME phase = "sample", phase' = IF walk' = "none" THEN "record" ELSE "sample"
      PROVE  X!Active \/ X!Step => X11Type' /\ WalkInv' /\ SampleOfTheTopLevelWindow'
  <2>1. CASE X!Active
    <3>1. X11Type'
      BY <1>2, <2>1, WindowsAssumption DEF X!Active, X11Type
    <3>2. WalkInv'
      BY <2>1 DEF X!Active, WalkInv
    <3>3. SampleOfTheTopLevelWindow'
      BY <1>2, <2>1 DEF X!Active, SampleOfTheTopLevelWindow
    <3> QED
      BY <3>1, <3>2, <3>3
  <2>2. CASE X!Parent
    BY <1>2, <2>2, ParentStep
  <2>3. CASE X!Title
    <3>1. X11Type'
      BY <1>2, <2>3 DEF X!Title, X11Type
    <3>2. WalkInv'
      BY <2>3 DEF X!Title, WalkInv, X!Line
    <3>3. SampleOfTheTopLevelWindow'
      BY <1>2, <2>3 DEF X!Title, SampleOfTheTopLevelWindow, X!Line, WalkInv, X11Type
    <3> QED
      BY <3>1, <3>2, <3>3
  <2>4. CASE X!Gone
    BY <1>2, <2>4 DEF X!Gone, X11Type, WalkInv, SampleOfTheTopLevelWindow
  <2> QED
    BY <2>1, <2>2, <2>3, <2>4 DEF X!Step
<1>3. ASSUME phase = "record", phase' = "asleep", X!Forget
      PROVE  X11Type' /\ WalkInv' /\ SampleOfTheTopLevelWindow'
  BY <1>3 DEF X!Forget, X11Type, WalkInv, SampleOfTheTopLevelWindow
<1>4. ASSUME phase' = phase \/ (phase # "sample" /\ phase' # "record"), UNCHANGED x11
      PROVE  X11Type' /\ WalkInv' /\ SampleOfTheTopLevelWindow'
  <2>1. X11Type'
    BY <1>4 DEF x11, X11Type
  <2>2. WalkInv'
    BY <1>4 DEF x11, WalkInv, X!Line
  <2>3. SampleOfTheTopLevelWindow'
    BY <1>4 DEF x11, SampleOfTheTopLevelWindow, X!Line
  <2> QED
    BY <2>1, <2>2, <2>3
<1> QED
  BY <1>1, <1>2, <1>3, <1>4 DEF X11Step

-----------------------------------------------------------------------------
(* The invariant holds initially, at point 0 of the grid ...               *)
LEMMA InitInv == Init => Inv
<1> SUFFICES ASSUME Init PROVE Inv
  OBVIOUS
<1>0. S!Init /\ M!Init /\ kind \in {"native", "subprocess", "linux"}
  BY DEF Init
<1>1. ScheduleType
  <2>1. period \in Nat \ {0} /\ ResetInterval \in Nat
    BY <1>0, PeriodsAssumption, TimesAssumption DEF S!Init
  <2> QED
    BY <1>0, <2>1 DEF S!Init, ScheduleType
<1>2. GridInv
  <2>1. 0 \in Nat /\ 0 * period = 0 /\ (0 + 1) * period = period
    BY <1>1 DEF ScheduleType
  <2>2. AtPoint(0) /\ phase # "returned"
    BY <1>0, <2>1 DEF S!Init, AtPoint
  <2> QED
    BY <2>1, <2>2 DEF GridInv
<1>3. MacInv
  BY <1>0, NoneAssumption DEF S!Init, M!Init, MacInv, MacType, QueryInv, NativeInv, SubprocessInv
<1>4. X11Inv
  <2>1. X!Init
    BY DEF Init
  <2>2. X11Type
    BY <2>1 DEF X!Init, X11Type, Trees, Places
  <2>3. WalkInv /\ SampleOfTheTopLevelWindow
    BY <1>0, <2>1 DEF X!Init, S!Init, WalkInv, SampleOfTheTopLevelWindow
  <2> QED
    BY <2>2, <2>3 DEF X11Inv
<1> QED
  BY <1>1, <1>2, <1>3, <1>4 DEF Inv

(* ... and is kept by every step.                                          *)
LEMMA NextInv == Inv /\ [Next]_vars => Inv'
<1> SUFFICES ASSUME Inv, [Next]_vars PROVE Inv'
  OBVIOUS
<1>1. ScheduleType' /\ GridInv'
  BY StepsOfSchedule, ScheduleTypeStep, GridStep DEF Inv
<1>2. MacInv'
  BY StepsOfMac, MacInvStep DEF Inv
<1>3. X11Inv'
  BY StepsOfMac, StepsOfX11, X11InvStep DEF Inv
<1> QED
  BY <1>1, <1>2, <1>3 DEF Inv

(* The inductive invariant holds in every reachable state.                 *)
THEOREM InvHolds == Spec => []Inv
  BY InitInv, NextInv, PTL DEF Spec

(* For every period, every reset interval and however late timers fire and *)
(* long samples take, at most one sample begins for each multiple of the   *)
(* period, the loop sleeps until the nearest one to come, and misses none  *)
(* unless it was late (runner.go 145-146, 172-182).                        *)
THEOREM OneSampleForEachPoint == Spec => []OneSamplePerSlot
<1>1. ASSUME Inv PROVE S!OneSamplePerSlot
  <2> USE <1>1 DEF Inv, ScheduleType
  <2>1. ASSUME NEW j \in Nat, j * period <= now, samples <= j + 1
        PROVE  samples <= 1 + now \div period
    <3>1. j <= now \div period /\ now \div period \in Nat
      BY <2>1, PointsPassed, LastPoint
    <3> QED
      BY <2>1, <3>1
  <2>2. CASE phase = "asleep"
    <3>1. PICK k \in Nat : AtPoint(k)
      BY <2>2 DEF GridInv
    <3>2. alarm % period = 0
      BY <2>2, <3>1, PointsAreMultiples DEF AtPoint
    <3>3. alarm - now \in 0..period /\ (overran \/ alarm = samples * period)
      BY <2>2, <3>1 DEF AtPoint
    <3>4. samples <= 1 + now \div period
      <4>1. CASE k = 0
        BY <2>2, <3>1, <4>1, LastPoint DEF AtPoint
      <4>2. CASE k # 0
        <5>1. PICK j \in Nat : k = j + 1
          BY <4>2
        <5>2. k * period = j * period + period /\ j * period \in Nat
          BY <5>1, GridPoints
        <5>3. j * period <= now /\ samples <= j + 1
          BY <2>2, <3>1, <5>1, <5>2 DEF AtPoint
        <5> QED
          BY <2>1, <5>3
      <4> QED
        BY <4>1, <4>2
    <3> QED
      BY <3>2, <3>3, <3>4 DEF S!OneSamplePerSlot
  <2>3. CASE phase # "asleep"
    <3>1. \E j \in Nat : j * period <= now /\ samples <= j + 1
      BY <2>3 DEF GridInv, AtPoint
    <3> QED
      BY <2>1, <2>3, <3>1 DEF S!OneSamplePerSlot
  <2> QED
    BY <2>2, <2>3
<1> QED
  BY <1>1, InvHolds, PTL DEF OneSamplePerSlot

(* However the user switches applications between the queries of a sample, *)
(* the native backend never gives one application's title to another, and  *)
(* the subprocess backend only if the user did switch                      *)
(* (macos_native.go 46-74, macos_subprocess.go 68-85).                     *)
THEOREM SamplesAreOfOneApplication == Spec => []SampleIsOfOneApplication
<1>1. Inv => SampleIsOfOneApplication
  BY DEF Inv, MacInv, MacType, QueryInv, NativeInv, SubprocessInv,
     SampleIsOfOneApplication
<1> QED
  BY <1>1, InvHolds, PTL

(* A permission that holds throughout a sample of the native backend is    *)
(* used in it, whenever it was granted (macos_native.go 64-73).            *)
THEOREM PermissionIsUsed == Spec => []TitleOncePermitted
<1>1. Inv => TitleOncePermitted
  BY DEF Inv, MacInv, MacType, NativeInv, TitleOncePermitted
<1> QED
  BY <1>1, InvHolds, PTL

(* On any tree of windows, with any titles and any focus, what a sample is *)
(* of is the active window if there is one; else the nearest window with a *)
(* title above the focus, or without one the top of its line, unless a     *)
(* window moves meanwhile (linux.go 182-209, linux_x11.go 68-102).         *)
THEOREM SamplesAreOfTheTopLevelWindow == Spec => []SampleOfTheTopLevelWindow
<1>1. Inv => SampleOfTheTopLevelWindow
  <2>1. kind # "linux" => SampleOfTheTopLevelWindow
    BY DEF SampleOfTheTopLevelWindow
  <2> QED
    BY <2>1 DEF Inv, X11Inv
<1> QED
  BY <1>1, InvHolds, PTL
=============================================================================
