-------------------------- MODULE CollectorProofs --------------------------
(***************************************************************************)
(* Proofs about Collector, for any number of runs, of samples and of       *)
(* worklogs.  Inv follows runCollector: what is deferred, tracked, counted *)
(* and flushed at each of its points, and what the deferred calls leave.   *)
(***************************************************************************)
EXTENDS Collector, SequenceTheorems, TLAPS

(* Where runCollector is before, and in, its loop.                         *)
Opening == {"delay", "backend", "first", "output", "start"}
Looping == {"loop", "reset", "sample", "write", "flush", "record", "sleep"}

(* What has been deferred, in the order runCollector does it.              *)
OneOpen == <<"backend">>
TwoOpen == <<"backend", "output">>
AllOpen == <<"backend", "output", "status">>

(* The run and its samples are numbered, and no row is of a run to come.   *)
CountInv ==
    /\ pc # "off" => run > 0
    /\ pc \in {"reset", "sample"} => count < MaxSamples
    /\ pc \in {"write", "flush", "record"} => count > 0
    /\ \A p \in acked : p[1] <= run

(* The deferred calls are what this point of runCollector has opened; the  *)
(* clean-up takes them off one by one.                                     *)
DefersInv ==
    /\ pc \in {"off", "delay", "backend", "returned"} => defers = <<>>
    /\ pc \in {"first", "output"} => defers = OneOpen
    /\ pc = "start" => defers = TwoOpen
    /\ pc = "warn" => defers = AllOpen
    /\ pc \in Looping => defers = IF Tracked THEN AllOpen ELSE TwoOpen
    /\ pc = "unwind" => defers \in {<<>>, OneOpen, TwoOpen, AllOpen}

(* There is a status from Start on, and never in QA console mode; without  *)
(* one this run has flushed no row.                                        *)
ValueInv ==
    /\ qa => value = None /\ pc \notin {"start", "warn"}
    /\ pc \in Opening => value = None
    /\ value # None => value.run = run
    /\ value = None => \A p \in acked : p[1] # run

(* While the loop runs, the status is that of a run that goes on, and it   *)
(* counts the samples that have been recorded.                             *)
LoopInv ==
    pc \in {"warn"} \cup Looping =>
        /\ fails = FALSE
        /\ Tracked =>
            /\ value # None /\ value.stopped = FALSE /\ value.error = FALSE
            /\ day \in Days
            /\ value.samples = IF pc \in {"write", "flush", "record"} THEN count - 1 ELSE count
            /\ pc = "warn" => count = 0 /\ value.warning = FALSE
            /\ pc # "warn" => value.warning = warned
            /\ pc \notin {"flush", "record"} => value.path = day

(* Before the loop no error has come up; output.path is known once it is   *)
(* open.                                                                   *)
OpeningInv ==
    /\ pc \in Opening => fails = FALSE /\ count = 0
    /\ pc = "start" => day \in Days

(* Only a row that was flushed is recorded as written.                     *)
RecordInv == pc = "record" /\ written /\ Tracked => <<run, count>> \in acked

(* While the run unwinds, its status says how it ended, and is stopped by  *)
(* the first deferred call to be run.                                      *)
EndInv ==
    pc \in {"unwind", "returned"} =>
        /\ value # None => value.error = fails /\ (defers = AllOpen \/ value.stopped = TRUE)
        /\ defers = AllOpen => value # None

(* The collector ends without an error only when it was told to.           *)
NilOnlyWhenCancelled == pc \in {"unwind", "returned"} /\ ~fails => ctxDone

Inv == /\ TypeOK /\ CountInv /\ DefersInv /\ ValueInv /\ LoopInv /\ OpeningInv
       /\ RecordInv /\ EndInv /\ GoodSampleIsLogged /\ NilOnlyWhenCancelled
-----------------------------------------------------------------------------
(* What the tracker's operations make of a status.                         *)
LEMMA StatusFields ==
    \A v \in Status :
        /\ v # None /\ v.samples \in Nat /\ v.good \in Nat
        /\ LET w == [v EXCEPT !.warning = TRUE]
           IN  /\ w \in Status /\ w.warning = TRUE
               /\ w.run = v.run /\ w.stopped = v.stopped /\ w.samples = v.samples
               /\ w.good = v.good /\ w.path = v.path /\ w.error = v.error
        /\ LET w == [v EXCEPT !.error = TRUE]
           IN  /\ w \in Status /\ w.error = TRUE
               /\ w.run = v.run /\ w.stopped = v.stopped /\ w.samples = v.samples
               /\ w.good = v.good /\ w.path = v.path /\ w.warning = v.warning
        /\ LET w == [v EXCEPT !.stopped = TRUE]
           IN  /\ w \in Status /\ w.stopped = TRUE
               /\ w.run = v.run /\ w.error = v.error /\ w.samples = v.samples
               /\ w.good = v.good /\ w.path = v.path /\ w.warning = v.warning
<1> SUFFICES ASSUME NEW v \in Status
             PROVE  /\ v # None /\ v.samples \in Nat /\ v.good \in Nat
                    /\ LET w == [v EXCEPT !.warning = TRUE]
                       IN  /\ w \in Status /\ w.warning = TRUE
                           /\ w.run = v.run /\ w.stopped = v.stopped /\ w.samples = v.samples
                           /\ w.good = v.good /\ w.path = v.path /\ w.error = v.error
                    /\ LET w == [v EXCEPT !.error = TRUE]
                       IN  /\ w \in Status /\ w.error = TRUE
                           /\ w.run = v.run /\ w.stopped = v.stopped /\ w.samples = v.samples
                           /\ w.good = v.good /\ w.path = v.path /\ w.warning = v.warning
                    /\ LET w == [v EXCEPT !.stopped = TRUE]
                       IN  /\ w \in Status /\ w.stopped = TRUE
                           /\ w.run = v.run /\ w.error = v.error /\ w.samples = v.samples
                           /\ w.good = v.good /\ w.path = v.path /\ w.warning = v.warning
  OBVIOUS
<1>1. v # None
  BY NoneAssumption
<1>2. v.samples \in Nat /\ v.good \in Nat
  BY BoundsAssumption DEF Status
<1>3. PICK w : w = [v EXCEPT !.warning = TRUE]
  OBVIOUS
<1>4. /\ w \in Status /\ w.warning = TRUE
      /\ w.run = v.run /\ w.stopped = v.stopped /\ w.samples = v.samples
      /\ w.good = v.good /\ w.path = v.path /\ w.error = v.error
  BY <1>3 DEF Status
<1>5. PICK e : e = [v EXCEPT !.error = TRUE]
  OBVIOUS
<1>6. /\ e \in Status /\ e.error = TRUE
      /\ e.run = v.run /\ e.stopped = v.stopped /\ e.samples = v.samples
      /\ e.good = v.good /\ e.path = v.path /\ e.warning = v.warning
  BY <1>5 DEF Status
<1>7. PICK s : s = [v EXCEPT !.stopped = TRUE]
  OBVIOUS
<1>8. /\ s \in Status /\ s.stopped = TRUE
      /\ s.run = v.run /\ s.error = v.error /\ s.samples = v.samples
      /\ s.good = v.good /\ s.path = v.path /\ s.warning = v.warning
  BY <1>7 DEF Status
<1> QED
  BY <1>1, <1>2, <1>3, <1>4, <1>5, <1>6, <1>7, <1>8, Zenon

(* A sequence that has one element more than another and begins like it is *)
(* that one with its last element behind it.                               *)
LEMMA OneMore ==
    ASSUME NEW S, NEW s \in Seq(S), NEW t \in Seq(S), Len(t) = Len(s) + 1,
           \A i \in 1..Len(s) : t[i] = s[i]
    PROVE  Append(s, Last(t)) = t /\ Front(t) = s
<1>1. Len(s) \in Nat
  BY LenProperties
<1>2. Last(t) = t[Len(t)] /\ Last(t) \in S
  BY <1>1, ElementOfSeq DEF Last
<1>3. Append(s, Last(t)) = t
  <2>1. Append(s, Last(t)) \in Seq(S) /\ Len(Append(s, Last(t))) = Len(t)
    BY <1>2, AppendProperties
  <2>2. \A i \in 1..Len(t) : Append(s, Last(t))[i] = t[i]
    <3>1. \A i \in 1..Len(s) : Append(s, Last(t))[i] = t[i]
      BY <1>2, AppendProperties
    <3>2. Append(s, Last(t))[Len(s) + 1] = t[Len(t)]
      BY <1>2, AppendProperties
    <3> QED
      BY <1>1, <3>1, <3>2
  <2> QED
    BY <2>1, <2>2, SeqEqual
<1>4. Front(t) = s
  <2>1. Front(t) = SubSeq(t, 1, Len(s)) /\ \A i \in 1..Len(s) : t[i] \in S
    BY <1>1, ElementOfSeq DEF Front
  <2>2. SubSeq(t, 1, Len(s)) \in Seq(S) /\ Len(SubSeq(t, 1, Len(s))) = Len(s)
    BY <1>1, <2>1, SubSeqProperties
  <2>3. \A i \in 1..Len(s) : SubSeq(t, 1, Len(s))[i] = t[i]
    BY <1>1, <2>1, SubSeqProperties
  <2> QED
    BY <2>1, <2>2, <2>3, SeqEqual
<1> QED
  BY <1>3, <1>4

(* How the deferred calls grow and shrink.                                 *)
LEMMA DeferredCalls ==
    /\ Append(<<>>, "backend") = OneOpen
    /\ Append(OneOpen, "output") = TwoOpen
    /\ Append(TwoOpen, "status") = AllOpen
    /\ Front(AllOpen) = TwoOpen /\ Last(AllOpen) = "status"
    /\ Front(TwoOpen) = OneOpen /\ Last(TwoOpen) = "output"
    /\ Front(OneOpen) = <<>> /\ Last(OneOpen) = "backend"
    /\ OneOpen # <<>> /\ TwoOpen # <<>> /\ AllOpen # <<>>
    /\ OneOpen # AllOpen /\ TwoOpen # AllOpen
<1>1. PICK S : S = {"backend", "output", "status"}
  OBVIOUS
<1>2. OneOpen \in Seq(S) /\ Len(OneOpen) = 1 /\ OneOpen[1] = "backend"
  BY <1>1 DEF OneOpen
<1>3. TwoOpen \in Seq(S) /\ Len(TwoOpen) = 2 /\ TwoOpen[1] = "backend" /\ TwoOpen[2] = "output"
  BY <1>1 DEF TwoOpen
<1>4. /\ AllOpen \in Seq(S) /\ Len(AllOpen) = 3
      /\ AllOpen[1] = "backend" /\ AllOpen[2] = "output" /\ AllOpen[3] = "status"
  BY <1>1 DEF AllOpen
<1>5. Append(<<>>, "backend") = OneOpen /\ Front(OneOpen) = <<>>
  BY DEF OneOpen, Front
<1>6. Last(OneOpen) = "backend" /\ Last(TwoOpen) = "output" /\ Last(AllOpen) = "status"
  BY <1>2, <1>3, <1>4 DEF Last
<1>7. Append(OneOpen, "output") = TwoOpen /\ Front(TwoOpen) = OneOpen
  <2>1. Len(TwoOpen) = Len(OneOpen) + 1 /\ \A i \in 1..Len(OneOpen) : TwoOpen[i] = OneOpen[i]
    BY <1>2, <1>3
  <2> QED
    BY <1>2, <1>3, <1>6, <2>1, OneMore
<1>8. Append(TwoOpen, "status") = AllOpen /\ Front(AllOpen) = TwoOpen
  <2>1. Len(AllOpen) = Len(TwoOpen) + 1 /\ \A i \in 1..Len(TwoOpen) : AllOpen[i] = TwoOpen[i]
    BY <1>3, <1>4
  <2> QED
    BY <1>3, <1>4, <1>6, <2>1, OneMore
<1>9. /\ OneOpen # <<>> /\ TwoOpen # <<>> /\ AllOpen # <<>>
      /\ OneOpen # AllOpen /\ TwoOpen # AllOpen
  <2>1. Len(<<>>) = 0 /\ 0 # 1 /\ 0 # 2 /\ 0 # 3 /\ 1 # 3 /\ 2 # 3
    OBVIOUS
  <2> QED
    BY <1>2, <1>3, <1>4, <2>1, Zenon
<1> QED
  BY <1>5, <1>6, <1>7, <1>8, <1>9

(* Every step keeps the counting.                                          *)
LEMMA CountStep == Inv /\ [Next]_vars => CountInv'
<1> SUFFICES ASSUME Inv, [Next]_vars PROVE CountInv'
  OBVIOUS
<1> USE BoundsAssumption DEF Inv, TypeOK, CountInv
<1>1. CASE Launch
  BY <1>1 DEF Launch, Fresh
<1>2. CASE Cancel
  BY <1>2 DEF Cancel
<1>3. CASE Gone
  BY <1>3 DEF Gone
<1>4. CASE Delay
  BY <1>4 DEF Delay, Unwind
<1>5. CASE OpenBackend
  BY <1>5 DEF OpenBackend, Unwind
<1>6. CASE FirstSample
  BY <1>6 DEF FirstSample
<1>7. CASE OpenOutput
  BY <1>7 DEF OpenOutput, Unwind
<1>8. CASE StartTracker
  BY <1>8 DEF StartTracker
<1>9. CASE InitialWarnings
  BY <1>9 DEF InitialWarnings
<1>10. CASE Loop
  BY <1>10 DEF Loop, Unwind
<1>11. CASE Reset
  BY <1>11 DEF Reset
<1>12. CASE Sample
  BY <1>12 DEF Sample
<1>13. CASE Write
  BY <1>13 DEF Write, Unwind
<1>14. CASE Flush
  BY <1>14 DEF Flush, Unwind
<1>15. CASE Record
  BY <1>15 DEF Record
<1>16. CASE Sleep
  BY <1>16 DEF Sleep, Unwind
<1>17. CASE RunDeferred
  BY <1>17 DEF RunDeferred
<1>18. CASE UNCHANGED vars
  BY <1>18 DEF vars
<1> QED
  BY <1>1, <1>2, <1>3, <1>4, <1>5, <1>6, <1>7, <1>8, <1>9, <1>10, <1>11, <1>12, <1>13,
     <1>14, <1>15, <1>16, <1>17, <1>18
    DEF Next, Running, Done

(* Every step keeps the deferred calls in step with pc.                    *)
LEMMA DefersStep == Inv /\ [Next]_vars => DefersInv'
<1> SUFFICES ASSUME Inv, [Next]_vars PROVE DefersInv'
  OBVIOUS
<1> USE DeferredCalls DEF Inv, DefersInv, ValueInv, Tracked, Looping
<1>1. CASE Launch
  BY <1>1 DEF Launch, Fresh
<1>2. CASE Cancel
  BY <1>2 DEF Cancel
<1>3. CASE Gone
  BY <1>3 DEF Gone
<1>4. CASE Delay
  BY <1>4 DEF Delay, Unwind
<1>5. CASE OpenBackend
  BY <1>5 DEF OpenBackend, Unwind
<1>6. CASE FirstSample
  BY <1>6 DEF FirstSample
<1>7. CASE OpenOutput
  BY <1>7 DEF OpenOutput, Unwind
<1>8. CASE StartTracker
  BY <1>8 DEF StartTracker
<1>9. CASE InitialWarnings
  BY <1>9 DEF InitialWarnings
<1>10. CASE Loop
  BY <1>10 DEF Loop, Unwind
<1>11. CASE Reset
  BY <1>11 DEF Reset
<1>12. CASE Sample
  BY <1>12 DEF Sample
<1>13. CASE Write
  BY <1>13 DEF Write, Unwind
<1>14. CASE Flush
  BY <1>14 DEF Flush, Unwind
<1>15. CASE Record
  BY <1>15 DEF Record
<1>16. CASE Sleep
  BY <1>16 DEF Sleep, Unwind
<1>17. CASE RunDeferred
  BY <1>17 DEF RunDeferred
<1>18. CASE UNCHANGED vars
  BY <1>18 DEF vars
<1> QED
  BY <1>1, <1>2, <1>3, <1>4, <1>5, <1>6, <1>7, <1>8, <1>9, <1>10, <1>11, <1>12, <1>13,
     <1>14, <1>15, <1>16, <1>17, <1>18
    DEF Next, Running, Done

(* Only a cancelled run unwinds without an error.                          *)
LEMMA NilStep == Inv /\ [Next]_vars => NilOnlyWhenCancelled'
<1> SUFFICES ASSUME Inv, [Next]_vars PROVE NilOnlyWhenCancelled'
  OBVIOUS
<1> USE DEF Inv, TypeOK, NilOnlyWhenCancelled
<1>1. CASE Launch
  BY <1>1 DEF Launch, Fresh
<1>2. CASE Cancel
  BY <1>2 DEF Cancel
<1>3. CASE Gone
  BY <1>3 DEF Gone
<1>4. CASE Delay
  BY <1>4 DEF Delay, Unwind
<1>5. CASE OpenBackend
  BY <1>5 DEF OpenBackend, Unwind
<1>6. CASE FirstSample
  BY <1>6 DEF FirstSample
<1>7. CASE OpenOutput
  BY <1>7 DEF OpenOutput, Unwind
<1>8. CASE StartTracker
  BY <1>8 DEF StartTracker
<1>9. CASE InitialWarnings
  BY <1>9 DEF InitialWarnings
<1>10. CASE Loop
  BY <1>10 DEF Loop, Unwind
<1>11. CASE Reset
  BY <1>11 DEF Reset
<1>12. CASE Sample
  BY <1>12 DEF Sample
<1>13. CASE Write
  BY <1>13 DEF Write, Unwind
<1>14. CASE Flush
  BY <1>14 DEF Flush, Unwind
<1>15. CASE Record
  BY <1>15 DEF Record
<1>16. CASE Sleep
  BY <1>16 DEF Sleep, Unwind
<1>17. CASE RunDeferred
  BY <1>17 DEF RunDeferred
<1>18. CASE UNCHANGED vars
  BY <1>18 DEF vars
<1> QED
  BY <1>1, <1>2, <1>3, <1>4, <1>5, <1>6, <1>7, <1>8, <1>9, <1>10, <1>11, <1>12, <1>13,
     <1>14, <1>15, <1>16, <1>17, <1>18
    DEF Next, Running, Done

(* Every step keeps the locals of a run that opens.                        *)
LEMMA OpeningStep == Inv /\ [Next]_vars => OpeningInv'
<1> SUFFICES ASSUME Inv, [Next]_vars PROVE OpeningInv'
  OBVIOUS
<1> USE DEF Inv, TypeOK, OpeningInv, Opening, Tracked
<1>1. CASE Launch
  BY <1>1 DEF Launch, Fresh
<1>2. CASE Cancel
  BY <1>2 DEF Cancel
<1>3. CASE Gone
  BY <1>3 DEF Gone
<1>4. CASE Delay
  BY <1>4 DEF Delay, Unwind
<1>5. CASE OpenBackend
  BY <1>5 DEF OpenBackend, Unwind
<1>6. CASE FirstSample
  BY <1>6 DEF FirstSample
<1>7. CASE OpenOutput
  BY <1>7 DEF OpenOutput, Unwind
<1>8. CASE StartTracker
  BY <1>8 DEF StartTracker
<1>9. CASE InitialWarnings
  BY <1>9 DEF InitialWarnings
<1>10. CASE Loop
  BY <1>10 DEF Loop, Unwind
<1>11. CASE Reset
  BY <1>11 DEF Reset
<1>12. CASE Sample
  BY <1>12 DEF Sample
<1>13. CASE Write
  BY <1>13 DEF Write, Unwind
<1>14. CASE Flush
  BY <1>14 DEF Flush, Unwind
<1>15. CASE Record
  BY <1>15 DEF Record
<1>16. CASE Sleep
  BY <1>16 DEF Sleep, Unwind
<1>17. CASE RunDeferred
  BY <1>17 DEF RunDeferred
<1>18. CASE UNCHANGED vars
  BY <1>18 DEF vars
<1> QED
  BY <1>1, <1>2, <1>3, <1>4, <1>5, <1>6, <1>7, <1>8, <1>9, <1>10, <1>11, <1>12, <1>13,
     <1>14, <1>15, <1>16, <1>17, <1>18
    DEF Next, Running, Done

(* Every step keeps what is recorded in the worklog.                       *)
LEMMA RecordStep == Inv /\ [Next]_vars => RecordInv'
<1> SUFFICES ASSUME Inv, [Next]_vars PROVE RecordInv'
  OBVIOUS
<1> USE DEF Inv, TypeOK, RecordInv, Tracked
<1>1. CASE Launch
  BY <1>1 DEF Launch, Fresh
<1>2. CASE Cancel
  BY <1>2 DEF Cancel
<1>3. CASE Gone
  BY <1>3 DEF Gone
<1>4. CASE Delay
  BY <1>4 DEF Delay, Unwind
<1>5. CASE OpenBackend
  BY <1>5 DEF OpenBackend, Unwind
<1>6. CASE FirstSample
  BY <1>6 DEF FirstSample
<1>7. CASE OpenOutput
  BY <1>7 DEF OpenOutput, Unwind
<1>8. CASE StartTracker
  BY <1>8 DEF StartTracker
<1>9. CASE InitialWarnings
  BY <1>9 DEF InitialWarnings
<1>10. CASE Loop
  BY <1>10 DEF Loop, Unwind
<1>11. CASE Reset
  BY <1>11 DEF Reset
<1>12. CASE Sample
  BY <1>12 DEF Sample
<1>13. CASE Write
  BY <1>13 DEF Write, Unwind
<1>14. CASE Flush
  BY <1>14 DEF Flush, Unwind
<1>15. CASE Record
  BY <1>15 DEF Record
<1>16. CASE Sleep
  BY <1>16 DEF Sleep, Unwind
<1>17. CASE RunDeferred
  BY <1>17 DEF RunDeferred
<1>18. CASE UNCHANGED vars
  BY <1>18 DEF vars
<1> QED
  BY <1>1, <1>2, <1>3, <1>4, <1>5, <1>6, <1>7, <1>8, <1>9, <1>10, <1>11, <1>12, <1>13,
     <1>14, <1>15, <1>16, <1>17, <1>18
    DEF Next, Running, Done

(* In the loop of a run with a tracker there is a status to change.        *)
LEMMA LiveStatus ==
    ASSUME Inv, Tracked, pc \in {"warn"} \cup Looping
    PROVE  value \in Status
  BY DEF Inv, TypeOK, LoopInv

(* The deferred call of the tracker finds a status to stop.                *)
LEMMA StoppedStatus ==
    ASSUME Inv, pc = "unwind", defers # <<>>, Last(defers) = "status"
    PROVE  defers = AllOpen /\ value \in Status
<1>1. defers \in {OneOpen, TwoOpen, AllOpen}
  BY DEF Inv, DefersInv
<1>2. defers = AllOpen
  BY <1>1, DeferredCalls
<1> QED
  BY <1>2 DEF Inv, TypeOK, EndInv

(* The status a run starts with.                                           *)
LEMMA StartedStatus ==
    ASSUME Inv, StartTracker
    PROVE  /\ value' \in Status /\ value'.run = run /\ value'.good = 0 /\ value'.samples = 0
           /\ value'.path = day /\ store' \in {store, value'}
           /\ value'.stopped = FALSE /\ value'.error = FALSE /\ value'.warning = FALSE
<1>1. run \in 1..MaxRuns /\ day \in Days /\ 0 \in 0..MaxSamples
  BY BoundsAssumption DEF StartTracker, Inv, TypeOK, CountInv, OpeningInv
<1>2. /\ store' \in {store, value'}
      /\ value' = [run |-> run, stopped |-> FALSE, samples |-> 0, good |-> 0, path |-> day,
                   warning |-> FALSE, error |-> FALSE]
  BY DEF StartTracker, Persist
<1> QED
  BY <1>1, <1>2 DEF Status

(* A warning changes nothing else of the status.                           *)
LEMMA WarnedStatus ==
    ASSUME Inv, Tracked, pc \in {"warn"} \cup Looping, RecordWarning
    PROVE  /\ value' \in Status /\ store' \in {store, value'} /\ value'.warning = TRUE
           /\ value'.run = value.run /\ value'.stopped = value.stopped
           /\ value'.samples = value.samples /\ value'.good = value.good
           /\ value'.path = value.path /\ value'.error = value.error
<1>1. value' = [value EXCEPT !.warning = TRUE] /\ store' \in {store, value'}
  BY DEF RecordWarning, Persist
<1> QED
  BY <1>1, LiveStatus, StatusFields

(* An error changes nothing else of the status.                            *)
LEMMA ErredStatus ==
    ASSUME Inv, Tracked, pc \in {"warn"} \cup Looping, RecordError
    PROVE  /\ value' \in Status /\ store' \in {store, value'} /\ value'.error = TRUE
           /\ value'.run = value.run /\ value'.stopped = value.stopped
           /\ value'.good = value.good
<1>1. value' = [value EXCEPT !.error = TRUE] /\ store' \in {store, value'}
  BY DEF RecordError, Persist
<1> QED
  BY <1>1, LiveStatus, StatusFields

(* Recording a sample counts it, and leaves alone what it is not about.    *)
LEMMA RecordedFields ==
    ASSUME Inv, pc = "record", Tracked
    PROVE  /\ Recorded \in Status
           /\ Recorded.run = value.run /\ Recorded.stopped = value.stopped
           /\ Recorded.error = value.error /\ Recorded.warning = value.warning
           /\ Recorded.samples = count /\ Recorded.path = day
           /\ Recorded.good = IF sample.ok /\ written THEN count ELSE value.good
<1>1. value \in Status /\ day \in Days /\ count \in 0..MaxSamples /\ value.samples = count - 1
  BY LiveStatus DEF Inv, TypeOK, LoopInv, Looping
<1>2. value.samples + 1 = count
  BY <1>1, BoundsAssumption
<1>3. (IF sample.ok /\ written THEN count ELSE value.good) \in 0..MaxSamples
  BY <1>1 DEF Status
<1> QED
  BY <1>1, <1>2, <1>3 DEF Recorded, Status

(* What a step may do to the tracker's value and to status.json.           *)
Rewrites ==
    /\ Tracked /\ Tracked' /\ run' = run
    /\ pc \in {"warn", "unwind"} \cup Looping /\ pc' \notin Opening
    /\ value \in Status /\ value' \in Status /\ store' \in {store, value'}
    /\ value'.run = value.run
    /\ \/ value'.good = value.good
       \/ pc = "record" /\ written /\ value'.good = count /\ acked' = acked

(* A step leaves value and status.json alone, or drops the value of the    *)
(* former run, or starts this run's, or rewrites it.                       *)
LEMMA ValueChange ==
    Inv /\ [Next]_vars =>
        \/ UNCHANGED <<value, store>>
        \/ Launch /\ value' = None /\ store' = store
        \/ StartTracker /\ value' \in Status /\ value'.run = run /\ value'.good = 0
        \/ Rewrites
<1> SUFFICES ASSUME Inv, [Next]_vars, ~UNCHANGED <<value, store>>
             PROVE  \/ Launch /\ value' = None /\ store' = store
                    \/ StartTracker /\ value' \in Status /\ value'.run = run /\ value'.good = 0
                    \/ Rewrites
  OBVIOUS
<1>1. CASE Launch
  BY <1>1 DEF Launch, Fresh
<1>2. CASE StartTracker
  BY <1>2, StartedStatus
<1>3. ASSUME RecordWarning \/ RecordError, pc \in {"warn"} \cup Looping, pc' \notin Opening,
             UNCHANGED <<run, qa>>
      PROVE  Rewrites
  <2>1. Tracked
    BY <1>3 DEF RecordWarning, RecordError
  <2>2. value \in Status
    BY <1>3, <2>1, LiveStatus
  <2>3. /\ value' \in Status /\ store' \in {store, value'}
        /\ value'.run = value.run /\ value'.good = value.good
    BY <1>3, <2>1, WarnedStatus, ErredStatus
  <2> QED
    BY <1>3, <2>1, <2>2, <2>3 DEF Rewrites, Tracked
<1>4. CASE InitialWarnings
  BY <1>3, <1>4 DEF InitialWarnings, Opening
<1>5. CASE Reset
  BY <1>3, <1>5 DEF Reset, Opening, Looping
<1>6. CASE Sample
  BY <1>3, <1>6 DEF Sample, Opening, Looping
<1>7. CASE Write
  BY <1>3, <1>7 DEF Write, Unwind, Opening, Looping
<1>8. CASE Flush
  BY <1>3, <1>8 DEF Flush, Unwind, Opening, Looping
<1>9. CASE Record
  <2>1. Tracked /\ value' = Recorded /\ store' \in {store, value'}
    BY <1>9 DEF Record, Persist
  <2>2. pc = "record" /\ pc' = "sleep" /\ UNCHANGED <<run, qa, acked>>
    BY <1>9 DEF Record
  <2>3. value \in Status
    BY <2>1, <2>2, LiveStatus DEF Looping
  <2> QED
    BY <2>1, <2>2, <2>3, RecordedFields DEF Rewrites, Tracked, Looping, Opening
<1>10. CASE RunDeferred
  <2>1. /\ pc = "unwind" /\ pc' = "unwind" /\ UNCHANGED <<run, qa>>
        /\ defers # <<>> /\ Last(defers) = "status"
        /\ value' = [value EXCEPT !.stopped = TRUE] /\ store' \in {store, value'}
    BY <1>10 DEF RunDeferred, Persist
  <2>2. value \in Status
    BY <2>1, StoppedStatus
  <2>3. Tracked
    BY <2>2, StatusFields DEF Inv, ValueInv, Tracked
  <2>4. value' \in Status /\ value'.run = value.run /\ value'.good = value.good
    BY <2>1, <2>2, StatusFields
  <2> QED
    BY <2>1, <2>2, <2>3, <2>4 DEF Rewrites, Tracked, Opening
<1>11. ~(Cancel \/ Gone \/ Delay \/ OpenBackend \/ FirstSample \/ OpenOutput \/ Loop \/ Sleep
         \/ Done \/ UNCHANGED vars)
  BY DEF Cancel, Gone, Delay, OpenBackend, FirstSample, OpenOutput, Loop, Sleep, Done, vars
<1> QED
  BY <1>1, <1>2, <1>4, <1>5, <1>6, <1>7, <1>8, <1>9, <1>10, <1>11 DEF Next, Running

(* Only Launch changes the run and its mode, only Flush the worklog, and   *)
(* it only adds.                                                           *)
LEMMA RunsAndRows ==
    Inv /\ [Next]_vars =>
        /\ Launch \/ (UNCHANGED <<run, qa>> /\ (pc' \in Opening => pc \in Opening))
        /\ \/ acked' = acked
           \/ /\ Flush /\ Tracked /\ pc = "flush" /\ value # None
              /\ acked' = acked \cup {<<run, count>>}
<1> SUFFICES ASSUME Inv, [Next]_vars
             PROVE  /\ Launch \/ (UNCHANGED <<run, qa>> /\ (pc' \in Opening => pc \in Opening))
                    /\ \/ acked' = acked
                       \/ /\ Flush /\ Tracked /\ pc = "flush" /\ value # None
                          /\ acked' = acked \cup {<<run, count>>}
  OBVIOUS
<1> USE DEF Unwind, Opening
<1>1. Launch \/ (UNCHANGED <<run, qa>> /\ (pc' \in Opening => pc \in Opening))
  <2>1. CASE Running
    BY <2>1 DEF Running, Delay, OpenBackend, FirstSample, OpenOutput, StartTracker,
            InitialWarnings, Loop, Reset, Sample, Write, Flush, Record, Sleep, RunDeferred
  <2> QED
    BY <2>1 DEF Next, Cancel, Gone, Done, vars
<1>2. ASSUME acked' # acked PROVE Flush /\ Tracked /\ acked' = acked \cup {<<run, count>>}
  <2>1. ~Launch /\ ~Cancel /\ ~Gone /\ ~Done /\ ~UNCHANGED vars
    BY <1>2 DEF Launch, Cancel, Gone, Done, vars
  <2>2. ~(Delay \/ OpenBackend \/ FirstSample \/ OpenOutput \/ StartTracker \/ InitialWarnings
          \/ Loop \/ Reset \/ Sample \/ Write \/ Record \/ Sleep \/ RunDeferred)
    BY <1>2 DEF Delay, OpenBackend, FirstSample, OpenOutput, StartTracker, InitialWarnings,
            Loop, Reset, Sample, Write, Record, Sleep, RunDeferred
  <2>3. Flush
    BY <2>1, <2>2 DEF Next, Running
  <2> QED
    BY <1>2, <2>3 DEF Flush, Tracked
<1>3. ASSUME acked' # acked PROVE pc = "flush" /\ value # None
  BY <1>2, <1>3, LiveStatus, StatusFields DEF Flush, Looping
<1> QED
  BY <1>1, <1>2, <1>3

(* Every step keeps the status that of its run, and without one the run    *)
(* flushes nothing.                                                        *)
LEMMA ValueStep == Inv /\ [Next]_vars => ValueInv'
<1> SUFFICES ASSUME Inv, [Next]_vars PROVE ValueInv'
  OBVIOUS
<1>1. ValueInv /\ TypeOK /\ CountInv
  BY DEF Inv
<1>2. CASE Launch
  <2>1. value' = None /\ run' = run + 1 /\ acked' = acked /\ pc' \in {"delay", "backend"}
    BY <1>2 DEF Launch, Fresh
  <2>2. run \in Nat /\ \A p \in acked : p[1] \in Nat
    BY <1>1, BoundsAssumption DEF TypeOK
  <2>3. \A p \in acked' : p[1] # run'
    BY <1>1, <2>1, <2>2 DEF CountInv
  <2> QED
    BY <2>1, <2>3 DEF ValueInv
<1>3. CASE ~Launch
  <2>1. UNCHANGED <<run, qa>> /\ (pc' \in Opening => pc \in Opening)
    BY <1>3, RunsAndRows
  <2>2. qa => pc' \notin {"start", "warn"}
    BY <1>1, <1>3 DEF ValueInv, Tracked, Unwind, Next, Running, Cancel, Gone, Done, vars, Delay,
           OpenBackend, FirstSample, OpenOutput, StartTracker, InitialWarnings, Loop, Reset, Sample,
           Write, Flush, Record, Sleep, RunDeferred
  <2>3. CASE value' = None
    <3>1. value = None
      BY <1>3, <2>3, ValueChange, StatusFields DEF Rewrites
    <3>2. acked' = acked
      BY <3>1, RunsAndRows
    <3> QED
      BY <1>1, <2>1, <2>2, <2>3, <3>1, <3>2 DEF ValueInv
  <2>4. CASE value' # None
    <3>1. CASE UNCHANGED <<value, store>>
      BY <1>1, <2>1, <2>2, <2>4, <3>1 DEF ValueInv
    <3>2. CASE StartTracker /\ value'.run = run
      <4>1. ~qa /\ pc' = "warn"
        BY <1>1, <3>2 DEF StartTracker, ValueInv
      <4> QED
        BY <2>1, <2>4, <3>2, <4>1 DEF ValueInv, Opening
    <3>3. CASE Rewrites
      <4>1. value # None /\ ~qa /\ pc' \notin Opening /\ value'.run = run
        BY <1>1, <3>3, StatusFields DEF Rewrites, Tracked, ValueInv
      <4> QED
        BY <2>1, <2>4, <4>1 DEF ValueInv
    <3> QED
      BY <1>3, <3>1, <3>2, <3>3, ValueChange
  <2> QED
    BY <2>3, <2>4
<1> QED
  BY <1>2, <1>3

(* Every step keeps the last good sample in the worklog.                   *)
LEMMA GoodStep == Inv /\ [Next]_vars => GoodSampleIsLogged'
<1> SUFFICES ASSUME Inv, [Next]_vars PROVE GoodSampleIsLogged'
  OBVIOUS
<1>1. GoodSampleIsLogged /\ acked \subseteq acked'
  BY RunsAndRows DEF Inv
<1>2. CASE UNCHANGED <<value, store>>
  BY <1>1, <1>2 DEF GoodSampleIsLogged
<1>3. CASE Launch /\ value' = None /\ store' = store
  BY <1>1, <1>3 DEF GoodSampleIsLogged
<1>4. CASE StartTracker /\ value'.good = 0
  <2>1. store' \in {store, value'} /\ ~(value'.good > 0)
    BY <1>4 DEF StartTracker, Persist
  <2> QED
    BY <1>1, <2>1 DEF GoodSampleIsLogged
<1>5. CASE Rewrites
  <2>1. value # None /\ store' \in {store, value'} /\ value'.run = value.run /\ value.run = run
    BY <1>5, StatusFields DEF Rewrites, Inv, ValueInv
  <2>2. value'.good > 0 => <<value'.run, value'.good>> \in acked'
    <3>1. CASE value'.good = value.good
      BY <1>1, <2>1, <3>1 DEF GoodSampleIsLogged
    <3>2. CASE pc = "record" /\ written /\ value'.good = count
      BY <1>1, <1>5, <2>1, <3>2 DEF Rewrites, Inv, RecordInv
    <3> QED
      BY <1>5, <3>1, <3>2 DEF Rewrites
  <2> QED
    BY <1>1, <2>1, <2>2 DEF GoodSampleIsLogged
<1> QED
  BY <1>2, <1>3, <1>4, <1>5, ValueChange

(* Every step keeps the status of the loop.                                *)
LEMMA LoopStep == Inv /\ [Next]_vars => LoopInv'
<1> SUFFICES ASSUME Inv, [Next]_vars PROVE LoopInv'
  OBVIOUS
<1>0. TypeOK /\ LoopInv /\ OpeningInv /\ ValueInv
  BY DEF Inv
<1> USE DEF Looping, Tracked
<1>1. CASE Launch \/ Gone \/ Delay \/ OpenBackend \/ FirstSample \/ RunDeferred
  BY <1>1 DEF Launch, Gone, Delay, OpenBackend, FirstSample, RunDeferred, Unwind, LoopInv
<1>2. CASE Cancel \/ Done \/ UNCHANGED vars
  BY <1>0, <1>2 DEF Cancel, Done, vars, LoopInv
<1>3. CASE OpenOutput
  BY <1>0, <1>3 DEF OpenOutput, Unwind, LoopInv, OpeningInv, Opening
<1>4. CASE StartTracker
  BY <1>0, <1>4, StartedStatus, StatusFields DEF StartTracker, LoopInv, OpeningInv, Opening
<1>5. CASE InitialWarnings
  <2>1. pc = "warn" /\ pc' = "loop" /\ warned' = warnings /\ UNCHANGED <<qa, day, fails, count>>
    BY <1>5 DEF InitialWarnings
  <2>2. CASE warnings = TRUE /\ Tracked
    BY <1>0, <1>5, <2>1, <2>2, WarnedStatus, StatusFields DEF InitialWarnings, LoopInv
  <2>3. CASE warnings = FALSE /\ Tracked
    BY <1>0, <1>5, <2>1, <2>3 DEF InitialWarnings, LoopInv
  <2>4. CASE ~Tracked
    BY <1>0, <2>1, <2>4 DEF LoopInv
  <2> QED
    BY <1>0, <2>2, <2>3, <2>4 DEF TypeOK
<1>6. CASE Loop
  BY <1>0, <1>6 DEF Loop, Unwind, LoopInv
<1>7. CASE Reset
  BY <1>0, <1>7, WarnedStatus, StatusFields DEF Reset, LoopInv
<1>8. CASE Sample
  <2>1. /\ pc = "sample" /\ pc' = "write" /\ UNCHANGED <<qa, day, fails>> /\ count' = count + 1
        /\ warned' = (warned \/ ~sample'.ok) /\ sample'.ok \in BOOLEAN /\ count \in Int
    BY <1>0, <1>8 DEF Sample, Samples, TypeOK
  <2>2. CASE sample'.ok = TRUE
    <3>1. value' = value /\ warned' = warned
      BY <1>0, <1>8, <2>1, <2>2 DEF Sample, TypeOK
    <3> QED
      BY <1>0, <2>1, <3>1 DEF LoopInv
  <2>3. CASE sample'.ok = FALSE
    <3>1. RecordWarning /\ warned' = TRUE
      BY <1>8, <2>1, <2>3 DEF Sample
    <3>2. CASE Tracked
      <4>1. /\ value' # None /\ value'.warning = TRUE /\ value'.stopped = FALSE
            /\ value'.error = FALSE /\ value'.samples = count /\ value'.path = day
        BY <1>0, <2>1, <3>1, <3>2, WarnedStatus, StatusFields DEF LoopInv
      <4>2. fails' = FALSE /\ day' \in Days /\ value'.path = day'
        BY <1>0, <2>1, <3>2, <4>1 DEF LoopInv
      <4>3. value'.samples = count' - 1
        BY <2>1, <4>1
      <4>4. value'.warning = warned'
        BY <3>1, <4>1, Zenon
      <4> QED
        BY <2>1, <4>1, <4>2, <4>3, <4>4 DEF LoopInv
    <3>3. CASE ~Tracked
      BY <1>0, <2>1, <3>3 DEF LoopInv
    <3> QED
      BY <3>2, <3>3
  <2> QED
    BY <2>1, <2>2, <2>3
<1>9. CASE Write
  BY <1>0, <1>9 DEF Write, Unwind, LoopInv
<1>10. CASE Flush
  BY <1>0, <1>10 DEF Flush, Unwind, LoopInv
<1>11. CASE Record
  <2>1. /\ pc = "record" /\ pc' = "sleep" /\ UNCHANGED <<qa, day, fails, count, warned>>
        /\ Tracked => value' = Recorded
    BY <1>11 DEF Record, Persist
  <2>2. CASE Tracked
    <3>1. /\ value' # None /\ value'.warning = value.warning /\ value'.stopped = value.stopped
          /\ value'.error = value.error /\ value'.samples = count /\ value'.path = day
      BY <2>1, <2>2, RecordedFields, StatusFields
    <3> QED
      BY <1>0, <2>1, <2>2, <3>1 DEF LoopInv
  <2>3. CASE ~Tracked
    BY <1>0, <2>1, <2>3 DEF LoopInv
  <2> QED
    BY <2>2, <2>3
<1>12. CASE Sleep
  BY <1>0, <1>12 DEF Sleep, Unwind, LoopInv
<1> QED
  BY <1>1, <1>2, <1>3, <1>4, <1>5, <1>6, <1>7, <1>8, <1>9, <1>10, <1>11, <1>12 DEF Next, Running

(* Every step keeps what the status says of the end.                       *)
LEMMA EndStep == Inv /\ [Next]_vars => EndInv'
<1> SUFFICES ASSUME Inv, [Next]_vars PROVE EndInv'
  OBVIOUS
<1>0. TypeOK /\ DefersInv /\ LoopInv /\ OpeningInv /\ ValueInv /\ EndInv
  BY DEF Inv
<1> USE DEF Looping, Tracked, Opening
<1>1. CASE \/ Launch \/ Gone \/ FirstSample \/ StartTracker \/ InitialWarnings \/ Reset
           \/ Sample \/ Record
  BY <1>1
    DEF Launch, Gone, FirstSample, StartTracker, InitialWarnings, Reset, Sample, Record, EndInv
<1>2. CASE Cancel \/ Done \/ UNCHANGED vars
  BY <1>0, <1>2 DEF Cancel, Done, vars, EndInv
<1>3. CASE Delay
  BY <1>0, <1>3, DeferredCalls DEF Delay, Unwind, EndInv, ValueInv, DefersInv
<1>4. CASE OpenBackend
  BY <1>0, <1>4, DeferredCalls DEF OpenBackend, Unwind, EndInv, ValueInv, DefersInv
<1>5. CASE OpenOutput
  BY <1>0, <1>5, DeferredCalls DEF OpenOutput, Unwind, EndInv, ValueInv, DefersInv
<1>6. CASE Loop \/ Sleep
  <2>1. UNCHANGED <<qa, defers, value>> /\ pc \in Looping
    BY <1>6 DEF Loop, Sleep
  <2>2. pc' \in {"unwind", "returned"} => fails' = FALSE
    BY <1>6 DEF Loop, Sleep, Unwind
  <2>3. CASE Tracked
    BY <1>0, <2>1, <2>2, <2>3 DEF EndInv, DefersInv, LoopInv
  <2>4. CASE ~Tracked
    BY <1>0, <2>1, <2>4, DeferredCalls DEF EndInv, DefersInv, ValueInv
  <2> QED
    BY <2>3, <2>4
<1>7. ASSUME RecordError, Unwind(TRUE), pc \in Looping, UNCHANGED <<qa, defers>> PROVE EndInv'
  <2>1. fails' = TRUE /\ pc' = "unwind" /\ defers' = IF Tracked THEN AllOpen ELSE TwoOpen
    BY <1>0, <1>7 DEF Unwind, DefersInv
  <2>2. CASE Tracked
    BY <1>7, <2>1, <2>2, ErredStatus, StatusFields DEF EndInv
  <2>3. CASE ~Tracked
    BY <1>0, <1>7, <2>1, <2>3, DeferredCalls DEF RecordError, ValueInv, EndInv
  <2> QED
    BY <2>2, <2>3
<1>8. CASE Write \/ Flush
  BY <1>7, <1>8 DEF Write, Flush, EndInv
<1>9. CASE RunDeferred
  <2>1. pc = "unwind" /\ UNCHANGED <<qa, fails>>
    BY <1>9 DEF RunDeferred
  <2>2. CASE defers = <<>>
    BY <1>0, <1>9, <2>1, <2>2, DeferredCalls DEF RunDeferred, EndInv
  <2>3. CASE defers # <<>> /\ Last(defers) = "status"
    <3>1. defers = AllOpen /\ value \in Status
      BY <2>1, <2>3, StoppedStatus
    <3>2. value' = [value EXCEPT !.stopped = TRUE] /\ defers' = TwoOpen
      BY <1>9, <2>3, <3>1, DeferredCalls DEF RunDeferred, Persist
    <3>3. value'.stopped = TRUE /\ value'.error = value.error
      BY <3>1, <3>2, StatusFields
    <3> QED
      BY <1>0, <2>1, <3>1, <3>2, <3>3, DeferredCalls, StatusFields DEF EndInv
  <2>4. CASE defers # <<>> /\ Last(defers) # "status"
    <3>1. defers \in {OneOpen, TwoOpen}
      BY <1>0, <2>1, <2>4, DeferredCalls DEF DefersInv
    <3>2. defers' # AllOpen /\ UNCHANGED value
      BY <1>9, <2>4, <3>1, DeferredCalls DEF RunDeferred
    <3> QED
      BY <1>0, <2>1, <3>1, <3>2, DeferredCalls DEF EndInv
  <2> QED
    BY <2>2, <2>3, <2>4
<1> QED
  BY <1>1, <1>2, <1>3, <1>4, <1>5, <1>6, <1>8, <1>9 DEF Next, Running

(* Every step keeps the variables in their types.                          *)
LEMMA TypeStep == Inv /\ [Next]_vars => TypeOK'
<1> SUFFICES ASSUME Inv, [Next]_vars PROVE TypeOK'
  OBVIOUS
<1>0. TypeOK /\ CountInv /\ DefersInv
  BY DEF Inv
<1>1. value' \in Status \cup {None} /\ store' \in Status \cup {None}
  BY <1>0, ValueChange DEF TypeOK, Rewrites, StartTracker, Persist
<1>2. run' \in 0..MaxRuns /\ acked' \subseteq (1..MaxRuns) \X (1..MaxSamples)
  <2>1. run' \in 0..MaxRuns
    BY <1>0, BoundsAssumption, RunsAndRows DEF TypeOK, Launch
  <2>2. pc = "flush" => run \in 1..MaxRuns /\ count \in 1..MaxSamples
    BY <1>0, BoundsAssumption DEF TypeOK, CountInv
  <2> QED
    BY <1>0, <2>1, <2>2, RunsAndRows DEF TypeOK
<1>3. count' \in 0..MaxSamples
  <2>1. CASE Launch \/ Sample
    BY <1>0, <2>1, BoundsAssumption DEF TypeOK, CountInv, Launch, Fresh, Sample
  <2>2. CASE ~(Launch \/ Sample)
    <3>1. UNCHANGED count
      BY <2>2 DEF Next, Running, Cancel, Gone, Done, vars, Delay, OpenBackend, FirstSample,
         OpenOutput, StartTracker, InitialWarnings, Loop, Reset, Write, Flush, Record, Sleep,
         RunDeferred
    <3> QED
      BY <1>0, <3>1 DEF TypeOK
  <2> QED
    BY <2>1, <2>2
<1>4. defers' \in Seq({"backend", "output", "status"})
  <2>1. DefersInv'
    BY DefersStep
  <2>2. \/ defers' \in {<<>>, OneOpen, TwoOpen, AllOpen} \/ defers' = defers
    BY <1>0, <2>1, DeferredCalls DEF DefersInv, Next, Running, Cancel, Gone, Done, vars, Launch,
       Delay, OpenBackend, FirstSample, OpenOutput, StartTracker, InitialWarnings, Loop, Reset,
       Sample, Write, Flush, Record, Sleep, RunDeferred, Looping, Unwind
  <2>3. OneOpen \in Seq({"backend", "output", "status"})
    BY DEF OneOpen
  <2>4. TwoOpen \in Seq({"backend", "output", "status"})
    BY DEF TwoOpen
  <2>5. AllOpen \in Seq({"backend", "output", "status"})
    BY DEF AllOpen
  <2> QED
    BY <1>0, <2>2, <2>3, <2>4, <2>5, EmptySeq DEF TypeOK
<1> DEFINE Rest == /\ qa' \in BOOLEAN /\ ctxDone' \in BOOLEAN /\ written' \in BOOLEAN
                   /\ warnings' \in BOOLEAN /\ fails' \in BOOLEAN /\ warned' \in BOOLEAN
                   /\ sample' \in Samples /\ day' \in Days \cup {None}
                   /\ pc' \in {"off", "delay", "backend", "first", "output", "start", "warn", "loop",
                               "reset", "sample", "write", "flush", "record", "sleep", "unwind",
                               "returned"}
<1>5. Rest
  <2> USE <1>0 DEF TypeOK, Samples, Unwind
  <2>1. CASE Launch
    BY <2>1 DEF Launch, Fresh
  <2>2. CASE Cancel
    BY <2>2 DEF Cancel
  <2>3. CASE Gone
    BY <2>3 DEF Gone
  <2>4. CASE Delay
    BY <2>4 DEF Delay
  <2>5. CASE OpenBackend
    BY <2>5 DEF OpenBackend
  <2>6. CASE FirstSample
    BY <2>6 DEF FirstSample
  <2>7. CASE OpenOutput
    BY <2>7 DEF OpenOutput
  <2>8. CASE StartTracker
    BY <2>8 DEF StartTracker
  <2>9. CASE InitialWarnings
    BY <2>9 DEF InitialWarnings
  <2>10. CASE Loop
    BY <2>10 DEF Loop
  <2>11. CASE Reset
    BY <2>11 DEF Reset
  <2>12. CASE Sample
    BY <2>12 DEF Sample
  <2>13. CASE Write
    BY <2>13 DEF Write
  <2>14. CASE Flush
    BY <2>14 DEF Flush
  <2>15. CASE Record
    BY <2>15 DEF Record
  <2>16. CASE Sleep
    BY <2>16 DEF Sleep
  <2>17. CASE RunDeferred
    BY <2>17 DEF RunDeferred
  <2>18. CASE UNCHANGED vars
    BY <2>18 DEF vars
  <2> QED
    BY <2>1, <2>2, <2>3, <2>4, <2>5, <2>6, <2>7, <2>8, <2>9, <2>10, <2>11, <2>12, <2>13,
       <2>14, <2>15, <2>16, <2>17, <2>18
      DEF Next, Running, Done
<1> QED
  BY <1>1, <1>2, <1>3, <1>4, <1>5 DEF TypeOK

(* The invariant holds at the start.                                       *)
LEMMA InvInit == Init => Inv
<1> SUFFICES ASSUME Init PROVE Inv
  OBVIOUS
<1>1. TypeOK
  <2>1. sample \in Samples /\ defers \in Seq({"backend", "output", "status"})
    BY EmptySeq DEF Init, Samples
  <2>2. run \in 0..MaxRuns /\ count \in 0..MaxSamples
    BY BoundsAssumption DEF Init
  <2> QED
    BY <2>1, <2>2 DEF Init, TypeOK
<1>2. CountInv /\ DefersInv /\ ValueInv
  BY DEF Init, CountInv, DefersInv, ValueInv, Opening, Looping
<1>3. LoopInv /\ OpeningInv /\ RecordInv /\ EndInv /\ GoodSampleIsLogged /\ NilOnlyWhenCancelled
  BY DEF Init, LoopInv, OpeningInv, RecordInv, EndInv, GoodSampleIsLogged, NilOnlyWhenCancelled,
         Opening, Looping
<1> QED
  BY <1>1, <1>2, <1>3 DEF Inv

(* Every step keeps the invariant.                                         *)
LEMMA InvStep == Inv /\ [Next]_vars => Inv'
  BY TypeStep, CountStep, DefersStep, ValueStep, LoopStep, OpeningStep, RecordStep, EndStep,
     GoodStep,
     NilStep DEF Inv

(* The inductive invariant holds in every reachable state.                 *)
THEOREM InvHolds == Spec => []Inv
<1> QED
  BY InvInit, InvStep, PTL DEF Spec

-----------------------------------------------------------------------------
(* The collector, its status and the history are well typed.               *)
THEOREM TypesHold == Spec => []TypeOK
<1>1. Inv => TypeOK
  BY DEF Inv
<1> QED
  BY <1>1, InvHolds, PTL

(* A last successful sample that status.json or the tracker shows is in    *)
(* the worklog, whatever failed or was killed on the way.                  *)
THEOREM GoodSamplesAreLogged == Spec => []GoodSampleIsLogged
<1>1. Inv => GoodSampleIsLogged
  BY DEF Inv
<1> QED
  BY <1>1, InvHolds, PTL

(* Between two samples the tracker knows the whole story of its run.       *)
THEOREM StatusIsOfTheRun == Spec => []StatusMatchesRun
<1>1. ASSUME Inv PROVE StatusMatchesRun
  <2> SUFFICES ASSUME pc = "sleep", Tracked
               PROVE  /\ value.run = run /\ value.samples = count /\ value.path = day
                      /\ value.warning = warned
                      /\ ~value.stopped /\ ~value.error
    BY DEF StatusMatchesRun
  <2>1. value # None /\ value.stopped = FALSE /\ value.error = FALSE
    BY <1>1 DEF Inv, LoopInv, Looping
  <2>2. value.samples = count /\ value.path = day /\ value.warning = warned
    BY <1>1 DEF Inv, LoopInv, Looping
  <2>3. value.run = run
    BY <1>1, <2>1 DEF Inv, ValueInv
  <2> QED
    BY <2>1, <2>2, <2>3
<1> QED
  BY <1>1, InvHolds, PTL

(* A collector that returned has closed all it opened, and its status says *)
(* how it ended.                                                           *)
THEOREM EndsAreRecorded == Spec => []EndIsRecorded
<1>1. ASSUME Inv PROVE EndIsRecorded
  <2> SUFFICES ASSUME pc = "returned"
               PROVE  /\ defers = <<>>
                      /\ value # None => value.stopped /\ value.error = fails
                      /\ value = None => \A c \in 1..MaxSamples : <<run, c>> \notin acked
    BY DEF EndIsRecorded
  <2>1. defers = <<>>
    BY <1>1 DEF Inv, DefersInv
  <2>2. value # None => value.stopped = TRUE /\ value.error = fails
    BY <1>1, <2>1, DeferredCalls DEF Inv, EndInv
  <2>3. value = None => \A c \in 1..MaxSamples : <<run, c>> \notin acked
    BY <1>1 DEF Inv, ValueInv
  <2> QED
    BY <2>1, <2>2, <2>3
<1> QED
  BY <1>1, InvHolds, PTL

(* No step of a QA console run writes a worklog row or status.json.        *)
THEOREM QAWritesNothing == Spec => QALeavesNoTrace
<1>1. ASSUME Inv, [Next]_vars
      PROVE  [qa /\ qa' => store' = store /\ acked' = acked /\ value' = None]_vars
  <2> SUFFICES ASSUME qa, qa' PROVE store' = store /\ acked' = acked /\ value' = None
    OBVIOUS
  <2>1. value = None /\ pc # "start"
    BY <1>1 DEF Inv, ValueInv
  <2>2. acked' = acked
    BY <1>1, <2>1, RunsAndRows
  <2>3. store' = store /\ value' = None
    BY <1>1, <2>1, ValueChange, StatusFields DEF Rewrites, StartTracker
  <2> QED
    BY <2>2, <2>3
<1> QED
  BY <1>1, InvHolds, PTL DEF Spec, QALeavesNoTrace
-----------------------------------------------------------------------------
(* What a RunnerFunc shows of itself, as Collector has it.                 *)
Phase   == IF pc \in {"off", "returned"} THEN pc ELSE "running"
Holding == defers # <<>>
Outcome == IF pc # "returned" THEN "pending" ELSE IF fails THEN "failed" ELSE "nil"

(* A step inside runCollector is work of the RunnerFunc.                   *)
LEMMA StepsInside ==
    ASSUME pc \notin {"off", "returned"}, pc' \notin {"off", "returned"}, ctxDone' = ctxDone
    PROVE  Abstract!Next
<1>1. Abstract!Work
  BY DEF Abstract!Work
<1> QED
  BY <1>1 DEF Abstract!Next

(* The collector implements the RunnerFunc that Controller and the tray    *)
(* rely on, for any days and bounds: a call ends at most once, with an     *)
(* error unless its context is cancelled, and with nothing left open,      *)
(* whichever of its steps fail and wherever it is cancelled.               *)
THEOREM Refinement == Spec => ImplementsRunnerFunc
<1>1. Init => Abstract!Init
  BY DEF Init, Abstract!Init
<1>2. ASSUME Inv, [Next]_vars PROVE [Abstract!Next]_<<Phase, ctxDone, Holding, Outcome>>
  <2>0. DefersInv /\ NilOnlyWhenCancelled /\ TypeOK
    BY <1>2 DEF Inv
  <2>1. CASE Launch
    <3>1. Abstract!Call
      BY <2>0, <2>1 DEF Launch, Fresh, DefersInv, Abstract!Call
    <3> QED
      BY <3>1 DEF Abstract!Next
  <2>2. CASE Cancel
    <3>1. Abstract!Cancel
      BY <2>2 DEF Cancel, Abstract!Cancel
    <3> QED
      BY <3>1 DEF Abstract!Next
  <2>3. CASE Gone
    <3>1. Abstract!Exit
      BY <2>3 DEF Gone, Abstract!Exit
    <3> QED
      BY <3>1 DEF Abstract!Next
  <2>4. CASE Delay \/ OpenBackend \/ FirstSample \/ OpenOutput \/ StartTracker \/ InitialWarnings
    <3>1. pc \notin {"off", "returned"} /\ pc' \notin {"off", "returned"} /\ ctxDone' = ctxDone
      BY <2>4 DEF Delay, OpenBackend, FirstSample, OpenOutput, StartTracker, InitialWarnings, Unwind
    <3> QED
      BY <3>1, StepsInside
  <2>5. CASE Loop \/ Reset \/ Sample \/ Write \/ Flush \/ Record \/ Sleep
    <3>1. pc \notin {"off", "returned"} /\ pc' \notin {"off", "returned"} /\ ctxDone' = ctxDone
      BY <2>5 DEF Loop, Reset, Sample, Write, Flush, Record, Sleep, Unwind
    <3> QED
      BY <3>1, StepsInside
  <2>6. CASE RunDeferred /\ defers # <<>>
    <3>1. pc = "unwind" /\ pc' = "unwind" /\ ctxDone' = ctxDone
      BY <2>6 DEF RunDeferred
    <3> QED
      BY <3>1, StepsInside
  <2>7. CASE RunDeferred /\ defers = <<>>
    <3>1. /\ pc = "unwind" /\ pc' = "returned"
          /\ UNCHANGED <<ctxDone, defers, fails>>
      BY <2>7 DEF RunDeferred
    <3>2. ~fails => ctxDone
      BY <2>0, <3>1 DEF NilOnlyWhenCancelled
    <3>3. Abstract!Return
      BY <2>7, <3>1, <3>2 DEF Abstract!Return
    <3> QED
      BY <3>3 DEF Abstract!Next
  <2>8. CASE UNCHANGED vars
    BY <2>8 DEF vars, Phase, Holding, Outcome
  <2> QED
    BY <1>2, <2>1, <2>2, <2>3, <2>4, <2>5, <2>6, <2>7, <2>8 DEF Next, Running, Done
<1> QED
  BY <1>1, <1>2, InvHolds, PTL
     DEF Spec, ImplementsRunnerFunc, Abstract!Spec, Phase, Holding, Outcome
=============================================================================
