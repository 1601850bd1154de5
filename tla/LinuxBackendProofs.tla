------------------------ MODULE LinuxBackendProofs ------------------------
(***************************************************************************)
(* Proofs about LinuxBackend, for any supply of connections, any number of *)
(* faults and of dropped connections.                                      *)
(***************************************************************************)
EXTENDS LinuxBackend, TLAPS

Asking == Queries \cup {"end"}

(* A query is only put to a connection. *)
ClientInv == pc \in Asking => client # None

(* What is read is read from b.client, and that is never replaced while a  *)
(* sampleLocked is under way.                                              *)
SourceInv ==
    /\ pc \in Asking => \A f \in Fields : src[f] \in {None, client}
    /\ SampleFromOneConnection

(* The fields that a sampleLocked has not asked for yet. *)
Later(q) ==
    CASE q \in {"active", "title"} -> Fields
      [] q = "program"             -> {"program", "idle"}
      [] q = "idle"                -> {"idle"}
      [] OTHER                     -> {}

(* A sampleLocked without an error has all it asked for; one with an error *)
(* of a dropped connection lacks a field, and gets no further answer.      *)
MissingInv ==
    /\ pc \in Asking => \A f \in Later(pc) : src[f] = None
    /\ pc \in Asking /\ failed = FALSE =>
           lost = FALSE /\ \A f \in Fields \ Later(pc) : src[f] # None
    /\ pc \in Asking /\ failed = TRUE /\ faults = 0 =>
           lost = TRUE /\ client \in dropped /\ \E f \in Fields : src[f] = None
    /\ ErrorsTellWhatIsMissing

Inv == TypeOK /\ NoLeakedConnection /\ ClientInv /\ SourceInv /\ MissingInv

-----------------------------------------------------------------------------
(* The empty sample, a sample with one more field, and where a query leads. *)
LEMMA Basics ==
    /\ Empty \in Sources
    /\ \A s \in Sources, f \in Fields, c \in Conns : [s EXCEPT ![f] = c] \in Sources
    /\ \A q \in Queries, ok \in BOOLEAN : After(q, ok) \in Asking
  BY DEF Empty, Sources, Fields, Queries, After, Asking

(* Every step keeps the variables in their types. *)
LEMMA TypeStep == TypeOK /\ ClientInv /\ [Next]_vars => TypeOK'
<1> SUFFICES ASSUME TypeOK, ClientInv, [Next]_vars PROVE TypeOK'
  OBVIOUS
<1> USE ConnsAssumption, BoundsAssumption, Basics DEF TypeOK, ClientInv,
        Results, Fields, Connected, NotConnected, Held, Fault, Begin, Returns,
        RetryNeeded, Asking, Queries
<1>1. CASE Drop
  BY <1>1 DEF Drop
<1>2. CASE Return
  BY <1>2 DEF Return
<1>3. CASE New
  BY <1>3 DEF New
<1>4. CASE Reset
  BY <1>4 DEF Reset
<1>5. CASE Sample
  <2>1. failed' \in BOOLEAN /\ lost' \in BOOLEAN
    BY <1>5, Zenon DEF Sample
  <2> QED
    BY <1>5, <2>1 DEF Sample
<1>6. CASE SampleReconnects
  <2>1. failed' \in BOOLEAN /\ lost' \in BOOLEAN
    BY <1>6, Zenon DEF SampleReconnects
  <2> QED
    BY <1>6, <2>1 DEF SampleReconnects
<1>7. CASE SampleStaysUnconnected
  BY <1>7 DEF SampleStaysUnconnected
<1>8. CASE Finish
  BY <1>8 DEF Finish
<1>9. CASE Retry
  <2>1. failed' \in BOOLEAN /\ lost' \in BOOLEAN
    BY <1>9, Zenon DEF Retry
  <2> QED
    BY <1>9, <2>1 DEF Retry
<1>10. CASE RetryFails
  BY <1>10 DEF RetryFails
<1>11. CASE LookupFails
  BY <1>11 DEF LookupFails
<1>12. CASE Close
  BY <1>12 DEF Close
<1>13. ASSUME NEW q \in Queries, Answer(q) PROVE TypeOK'
  BY <1>13 DEF Answer
<1>14. ASSUME NEW q \in Queries, QueryFails(q) PROVE TypeOK'
  <2>1. failed' \in BOOLEAN /\ lost' \in BOOLEAN
    BY <1>14, Zenon DEF QueryFails
  <2>2. pc' \in Asking
    BY <1>14 DEF QueryFails
  <2>3. faults' \in 0..MaxFaults
    BY <1>14 DEF QueryFails
  <2> QED
    BY <1>14, <2>1, <2>2, <2>3 DEF QueryFails
<1>15. CASE UNCHANGED vars
  BY <1>15 DEF vars
<1> QED
  BY <1>1, <1>2, <1>3, <1>4, <1>5, <1>6, <1>7, <1>8, <1>9, <1>10, <1>11, <1>12,
       <1>13, <1>14, <1>15 DEF Next, Call, Closed

(* A step that replaces b.client closes what it held before. *)
LEMMA OpenStep == TypeOK /\ NoLeakedConnection /\ [Next]_vars => NoLeakedConnection'
<1> SUFFICES ASSUME TypeOK, NoLeakedConnection, [Next]_vars
             PROVE NoLeakedConnection'
  OBVIOUS
<1> USE ConnsAssumption, BoundsAssumption DEF TypeOK, NoLeakedConnection,
        Connected, NotConnected, Held
<1>1. CASE Drop
  BY <1>1 DEF Drop
<1>2. CASE Return
  BY <1>2 DEF Return
<1>3. CASE New
  BY <1>3 DEF New
<1>4. CASE Reset
  BY <1>4 DEF Reset
<1>5. CASE Sample
  BY <1>5 DEF Sample
<1>6. CASE SampleReconnects
  BY <1>6 DEF SampleReconnects
<1>7. CASE SampleStaysUnconnected
  BY <1>7 DEF SampleStaysUnconnected
<1>8. CASE Finish
  BY <1>8 DEF Finish
<1>9. CASE Retry
  BY <1>9 DEF Retry
<1>10. CASE RetryFails
  BY <1>10 DEF RetryFails
<1>11. CASE LookupFails
  BY <1>11 DEF LookupFails
<1>12. CASE Close
  BY <1>12 DEF Close
<1>13. ASSUME NEW q \in Queries, Answer(q) PROVE NoLeakedConnection'
  BY <1>13 DEF Answer
<1>14. ASSUME NEW q \in Queries, QueryFails(q) PROVE NoLeakedConnection'
  BY <1>14 DEF QueryFails
<1>15. CASE UNCHANGED vars
  BY <1>15 DEF vars
<1> QED
  BY <1>1, <1>2, <1>3, <1>4, <1>5, <1>6, <1>7, <1>8, <1>9, <1>10, <1>11, <1>12,
       <1>13, <1>14, <1>15 DEF Next, Call, Closed

(* Nothing is asked without a connection. *)
LEMMA ClientStep == TypeOK /\ ClientInv /\ [Next]_vars => ClientInv'
<1> SUFFICES ASSUME TypeOK, ClientInv, [Next]_vars PROVE ClientInv'
  OBVIOUS
<1> USE ConnsAssumption, BoundsAssumption, Basics DEF TypeOK, ClientInv, Fields,
        Connected, NotConnected, Held, Fault, Begin, Returns, RetryNeeded,
        Asking, Queries
<1>1. CASE Drop
  BY <1>1 DEF Drop
<1>2. CASE Return
  BY <1>2 DEF Return
<1>3. CASE New
  BY <1>3 DEF New
<1>4. CASE Reset
  BY <1>4 DEF Reset
<1>5. CASE Sample
  BY <1>5 DEF Sample
<1>6. CASE SampleReconnects
  BY <1>6 DEF SampleReconnects
<1>7. CASE SampleStaysUnconnected
  BY <1>7 DEF SampleStaysUnconnected
<1>8. CASE Finish
  BY <1>8 DEF Finish
<1>9. CASE Retry
  BY <1>9 DEF Retry
<1>10. CASE RetryFails
  BY <1>10 DEF RetryFails
<1>11. CASE LookupFails
  BY <1>11 DEF LookupFails
<1>12. CASE Close
  BY <1>12 DEF Close
<1>13. ASSUME NEW q \in Queries, Answer(q) PROVE ClientInv'
  BY <1>13 DEF Answer
<1>14. ASSUME NEW q \in Queries, QueryFails(q) PROVE ClientInv'
  BY <1>14 DEF QueryFails
<1>15. CASE UNCHANGED vars
  BY <1>15 DEF vars
<1> QED
  BY <1>1, <1>2, <1>3, <1>4, <1>5, <1>6, <1>7, <1>8, <1>9, <1>10, <1>11, <1>12,
       <1>13, <1>14, <1>15 DEF Next, Call, Closed

(* A field is only ever read from the current connection. *)
LEMMA SourceStep == TypeOK /\ ClientInv /\ SourceInv /\ [Next]_vars => SourceInv'
<1> SUFFICES ASSUME TypeOK, ClientInv, SourceInv, [Next]_vars PROVE SourceInv'
  OBVIOUS
<1> USE ConnsAssumption, BoundsAssumption, Basics DEF TypeOK, ClientInv,
        SourceInv, SampleFromOneConnection, Sources, Empty, Fields, Connected,
        NotConnected, Held, Fault, Begin, Returns, RetryNeeded, Asking, Queries
<1>1. CASE Drop
  BY <1>1 DEF Drop
<1>2. CASE Return
  BY <1>2 DEF Return
<1>3. CASE New
  BY <1>3 DEF New
<1>4. CASE Reset
  BY <1>4 DEF Reset
<1>5. CASE Sample
  BY <1>5 DEF Sample
<1>6. CASE SampleReconnects
  BY <1>6 DEF SampleReconnects
<1>7. CASE SampleStaysUnconnected
  BY <1>7 DEF SampleStaysUnconnected
<1>8. CASE Finish
  BY <1>8 DEF Finish
<1>9. CASE Retry
  BY <1>9 DEF Retry
<1>10. CASE RetryFails
  BY <1>10 DEF RetryFails
<1>11. CASE LookupFails
  BY <1>11 DEF LookupFails
<1>12. CASE Close
  BY <1>12 DEF Close
<1>13. ASSUME NEW q \in Queries, Answer(q) PROVE SourceInv'
  BY <1>13 DEF Answer
<1>14. ASSUME NEW q \in Queries, QueryFails(q) PROVE SourceInv'
  BY <1>14 DEF QueryFails
<1>15. CASE UNCHANGED vars
  BY <1>15 DEF vars
<1> QED
  BY <1>1, <1>2, <1>3, <1>4, <1>5, <1>6, <1>7, <1>8, <1>9, <1>10, <1>11, <1>12,
       <1>13, <1>14, <1>15 DEF Next, Call, Closed

(* What a failed query leaves empty stays so until the sample is returned. *)
LEMMA MissingStep ==
    ASSUME TypeOK, NoLeakedConnection, ClientInv, MissingInv, [Next]_vars
    PROVE  MissingInv'
<1> USE ConnsAssumption, BoundsAssumption DEF TypeOK, NoLeakedConnection, ClientInv,
        MissingInv, ErrorsTellWhatIsMissing, Later, Sources, Results, Empty, Fields,
        Connected, NotConnected, Held, Fault, Begin, Returns, RetryNeeded, Asking, Queries
<1>1. CASE Drop
  BY <1>1 DEF Drop
<1>2. CASE Return
  BY <1>2 DEF Return
<1>3. CASE New
  BY <1>3 DEF New
<1>4. CASE Reset
  BY <1>4 DEF Reset
<1>5. CASE Sample
  BY <1>5 DEF Sample
<1>6. CASE SampleReconnects
  BY <1>6 DEF SampleReconnects
<1>7. CASE SampleStaysUnconnected
  BY <1>7 DEF SampleStaysUnconnected
<1>8. CASE Finish
  BY <1>8 DEF Finish
<1>9. CASE Retry
  BY <1>9 DEF Retry
<1>10. CASE RetryFails
  BY <1>10 DEF RetryFails
<1>11. CASE LookupFails
  BY <1>11 DEF LookupFails
<1>12. CASE Close
  BY <1>12 DEF Close
<1>13. ASSUME NEW q \in Queries, Answer(q) PROVE MissingInv'
  BY <1>13 DEF Answer, After
<1>14. ASSUME NEW q \in Queries, QueryFails(q) PROVE MissingInv'
  BY <1>14 DEF QueryFails, After
<1>15. CASE UNCHANGED vars
  BY <1>15 DEF vars
<1> QED
  BY <1>1, <1>2, <1>3, <1>4, <1>5, <1>6, <1>7, <1>8, <1>9, <1>10, <1>11, <1>12,
       <1>13, <1>14, <1>15 DEF Next, Call, Closed

-----------------------------------------------------------------------------
(* The backend before its first connection.                                *)
LEMMA InitInv == Init => Inv
<1> SUFFICES ASSUME Init PROVE Inv
  OBVIOUS
<1>1. TypeOK
  <2>1. failed \in BOOLEAN /\ lost \in BOOLEAN
    BY Zenon DEF Init
  <2> QED
    BY <2>1, Basics, BoundsAssumption DEF Init, TypeOK
<1>2. NoLeakedConnection
  BY DEF Init, NoLeakedConnection
<1>3. ClientInv /\ SourceInv
  BY DEF Init, ClientInv, SourceInv, SampleFromOneConnection, Asking, Queries,
       Fields
<1>4. MissingInv
  BY DEF Init, MissingInv, ErrorsTellWhatIsMissing, Asking, Queries, Fields
<1> QED
  BY <1>1, <1>2, <1>3, <1>4 DEF Inv

(* The parts of Inv are kept one by one.                                   *)
LEMMA NextInv == Inv /\ [Next]_vars => Inv'
  BY TypeStep, OpenStep, ClientStep, SourceStep, MissingStep DEF Inv

(* Inv holds however the display comes and goes.                           *)
THEOREM Invariance == Spec => []Inv
  BY InitInv, NextInv, PTL DEF Spec

(* The variables keep their types. *)
THEOREM TypeCorrect == Spec => []TypeOK
<1>1. Inv => TypeOK
  BY DEF Inv
<1> QED
  BY <1>1, Invariance, PTL

(* However the display comes and goes, the backend never holds a           *)
(* connection it would not close (reconnectLocked, Close: 138-168).        *)
THEOREM NoLeak == Spec => []NoLeakedConnection
<1>1. Inv => NoLeakedConnection
  BY DEF Inv
<1> QED
  BY <1>1, Invariance, PTL

(* No returned sample mixes fields read before and after a reconnect       *)
(* (Sample: 68-79).                                                        *)
THEOREM OneSource == Spec => []SampleFromOneConnection
<1>1. Inv => SampleFromOneConnection
  BY DEF Inv, SourceInv
<1> QED
  BY <1>1, Invariance, PTL

(* A sample without an error is complete, and one that comes with an error *)
(* of a dropped connection is not: what the retry recovers leaves no       *)
(* warning (Sample, sampleLocked: 58-130).                                 *)
THEOREM ErrorsAreOfWhatIsMissing == Spec => []ErrorsTellWhatIsMissing
<1>1. Inv => ErrorsTellWhatIsMissing
  BY DEF Inv, MissingInv
<1> QED
  BY <1>1, Invariance, PTL
=============================================================================
