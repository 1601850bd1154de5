---------------------------- MODULE LinuxBackend ----------------------------
(***************************************************************************)
(* internal/backend/linux.go and linux_x11.go: sampling over one X11       *)
(* connection that the display may drop at any time, also between two      *)
(* queries of one sample.                                                  *)
(*                                                                         *)
(* The callers are runCollector's: NewLinuxBackend, then Sample over and   *)
(* over, sometimes after a Reset, then Close.  The X server is external:   *)
(* a query on a dropped connection fails with io.EOF, one on a live        *)
(* connection answers or fails with another error (a window just closed).  *)
(* A query that never answers is not modelled.                             *)
(***************************************************************************)
EXTENDS Naturals

CONSTANTS Conns, None,
          MaxFaults,   \* bound: errors other than a dropped connection
          MaxDrops     \* bound: times the display drops its connections

ASSUME ConnsAssumption  == None \notin Conns
ASSUME BoundsAssumption == MaxFaults \in Nat /\ MaxDrops \in Nat

VARIABLES
    up,        \* external: the display accepts connections
    open,      \* connections this process holds
    dropped,   \* external: those of them whose other end is gone
    client,    \* b.client
    pc,        \* where the callers are; inside Sample, the next query
    attempt,   \* which sampleLocked of this Sample is running
    src,       \* the connection each field of the sample was read from
    failed,    \* errs is not empty
    lost,      \* connectionLost
    ret,       \* what the last Sample returned, None while one runs
    faults, drops

vars == <<up, open, dropped, client, pc, attempt, src, failed, lost, ret,
          faults, drops>>

Fields  == {"title", "program", "idle"}
Queries == Fields \cup {"active"}
Sources == [Fields -> Conns \cup {None}]
Results == [src : Sources, err : BOOLEAN]
Empty   == [f \in Fields |-> None]

TypeOK ==
    /\ up \in BOOLEAN
    /\ open \subseteq Conns /\ dropped \subseteq open
    /\ client \in Conns \cup {None}
    /\ pc \in Queries \cup {"new", "ready", "reset", "end", "closed"}
    /\ attempt \in 1..2
    /\ src \in Sources
    /\ failed \in BOOLEAN /\ lost \in BOOLEAN
    /\ ret \in Results \cup {None}
    /\ faults \in 0..MaxFaults /\ drops \in 0..MaxDrops

Init ==
    /\ up = TRUE /\ open = {} /\ dropped = {} /\ client = None
    /\ pc = "new" /\ attempt = 1 /\ src = Empty /\ failed = FALSE /\ lost = FALSE
    /\ ret = None /\ faults = 0 /\ drops = 0

-----------------------------------------------------------------------------
(* The display: suspend, a session that ends, a server that restarts. *)
Drop ==
    /\ drops < MaxDrops
    /\ drops' = drops + 1
    /\ dropped' = open
    /\ up' \in BOOLEAN
    /\ UNCHANGED <<open, client, pc, attempt, src, failed, lost, ret, faults>>

Return ==
    /\ ~up /\ up' = TRUE
    /\ UNCHANGED <<open, dropped, client, pc, attempt, src, failed, lost, ret,
                   faults, drops>>

Fault == faults < MaxFaults /\ faults' = faults + 1

-----------------------------------------------------------------------------
(* Mutant: the old connection is forgotten, not closed. *)
HeldForgotten == open

(* reconnectLocked: the old connection is closed first, then               *)
(* connectLinuxX11 makes a new one.  A connection whose setup queries fail *)
(* is closed again (28-31 of linux_x11.go), so that b.client stays nil.    *)
Held == open \ {client}

Connected ==
    /\ up
    /\ \E c \in Conns \ (open \cup {client}) :
           /\ client' = c
           /\ open' = Held \cup {c}
    /\ dropped' = dropped \cap open'
    /\ UNCHANGED faults

NotConnected ==
    /\ IF up THEN Fault ELSE UNCHANGED faults
    /\ client' = None /\ open' = Held
    /\ dropped' = dropped \cap open'

(* Mutants: the second sampleLocked starts from what the first one had     *)
(* read, or from its errors.                                               *)
BeginWithFields(n) ==
    /\ pc' = "active" /\ attempt' = n
    /\ src' = (IF n = 1 THEN Empty ELSE src) /\ failed' = FALSE /\ lost' = FALSE

BeginWithErrors(n) ==
    /\ pc' = "active" /\ attempt' = n
    /\ src' = Empty /\ failed' = (n = 2 /\ failed) /\ lost' = FALSE

(* The start of a sampleLocked. *)
Begin(n) ==
    /\ pc' = "active" /\ attempt' = n
    /\ src' = Empty /\ failed' = FALSE /\ lost' = FALSE

Returns(s, e) ==
    /\ ret' = [src |-> s, err |-> e]
    /\ pc' = "ready"

-----------------------------------------------------------------------------
(* newLinuxBackend: without a first connection there is no backend. *)
New ==
    /\ pc = "new"
    /\ Connected \/ NotConnected
    /\ pc' = IF client' = None THEN "new" ELSE "ready"
    /\ UNCHANGED <<up, attempt, src, failed, lost, ret, drops>>

(* Reset; the caller's next call is Sample. *)
Reset ==
    /\ pc = "ready"
    /\ Connected \/ NotConnected
    /\ pc' = "reset"
    /\ UNCHANGED <<up, attempt, src, failed, lost, ret, drops>>

(* Sample with a connection. *)
Sample ==
    /\ pc \in {"ready", "reset"} /\ client # None
    /\ Begin(1)
    /\ ret' = None
    /\ UNCHANGED <<up, open, dropped, client, faults, drops>>

(* Sample without one: reconnect, and then one sampleLocked, which has     *)
(* nothing to ask if that failed.                                          *)
SampleReconnects ==
    /\ pc \in {"ready", "reset"} /\ client = None
    /\ Connected
    /\ Begin(2) /\ ret' = None
    /\ UNCHANGED <<up, drops>>

SampleStaysUnconnected ==
    /\ pc \in {"ready", "reset"} /\ client = None
    /\ NotConnected
    /\ attempt' = 2 /\ Returns(Empty, TRUE)
    /\ UNCHANGED <<up, src, failed, lost, drops>>

After(q, ok) ==
    CASE q = "active"  -> IF ok THEN "title" ELSE "idle"
      [] q = "title"   -> "program"
      [] q = "program" -> "idle"
      [] q = "idle"    -> "end"

Answer(q) ==
    /\ pc = q /\ client \notin dropped
    /\ src' = IF q = "active" THEN src ELSE [src EXCEPT ![q] = client]
    /\ pc' = After(q, TRUE)
    /\ UNCHANGED <<up, open, dropped, client, attempt, failed, lost, ret, faults, drops>>

QueryFails(q) ==
    /\ pc = q
    /\ IF client \in dropped THEN lost' = TRUE /\ UNCHANGED faults
                             ELSE Fault /\ UNCHANGED lost
    /\ failed' = TRUE
    /\ pc' = After(q, FALSE)
    /\ UNCHANGED <<up, open, dropped, client, attempt, src, ret, drops>>

(* Mutant: a lost connection is left for the next sample. *)
RetryNever == FALSE

(* The end of a sampleLocked.  One that lost its connection is retried on  *)
(* a new one, if there is one and this was the first.                      *)
RetryNeeded == attempt = 1 /\ lost

Finish ==
    /\ pc = "end" /\ ~RetryNeeded
    /\ Returns(src, failed)
    /\ UNCHANGED <<up, open, dropped, client, attempt, src, failed, lost, faults, drops>>

Retry ==
    /\ pc = "end" /\ RetryNeeded
    /\ Connected
    /\ Begin(2)
    /\ UNCHANGED <<up, ret, drops>>

RetryFails ==
    /\ pc = "end" /\ RetryNeeded
    /\ NotConnected
    /\ Returns(src, TRUE)
    /\ UNCHANGED <<up, attempt, src, failed, lost, drops>>

(* completeSample: the host or user name cannot be looked up. *)
LookupFails ==
    /\ pc = "end" /\ ~failed
    /\ Fault
    /\ failed' = TRUE
    /\ UNCHANGED <<up, open, dropped, client, pc, attempt, src, lost, ret, drops>>

Close ==
    /\ pc = "ready"
    /\ pc' = "closed"
    /\ client' = None /\ open' = Held /\ dropped' = dropped \cap Held
    /\ UNCHANGED <<up, attempt, src, failed, lost, ret, faults, drops>>

Closed == pc = "closed" /\ UNCHANGED vars

-----------------------------------------------------------------------------
Call == \/ Sample \/ SampleReconnects \/ SampleStaysUnconnected
        \/ Finish \/ Retry \/ RetryFails
        \/ \E q \in Queries : Answer(q) \/ QueryFails(q)

Next == New \/ Reset \/ Call \/ LookupFails \/ Close \/ Closed \/ Drop \/ Return

(* The collector keeps calling Sample and queries are answered; nothing    *)
(* obliges the display to return, or the collector to reset.               *)
Fairness == WF_vars(New) /\ WF_vars(Call)

Spec == Init /\ [][Next]_vars /\ Fairness

-----------------------------------------------------------------------------
(* The backend holds at most one connection, the one it will use and       *)
(* close, whichever step of a reconnect failed; none after Close           *)
(* (138-168).                                                              *)
NoLeakedConnection == open = {client} \ {None}

(* A sample is read from one connection: what a first attempt read before  *)
(* its connection was lost is never completed from the next one (68-79).   *)
SampleFromOneConnection ==
    ret # None =>
        \A f, g \in Fields : ret.src[f] # None /\ ret.src[g] # None => ret.src[f] = ret.src[g]

(* A sample without an error has all its fields, and an error is reported  *)
(* only if the returned sample lacks something or a lookup failed: what    *)
(* the retry recovers leaves no warning (docs/explanations/linux.md 69).   *)
ErrorsTellWhatIsMissing ==
    /\ ret # None /\ ~ret.err => \A f \in Fields : ret.src[f] # None
    /\ ret # None /\ ret.err /\ faults = 0 => \E f \in Fields : ret.src[f] = None

(* A display that is there to stay is sampled without error again, without *)
(* restarting the program (linux.md 64-67).                                *)
Resumes == <>[]up => []<>(ret # None /\ ~ret.err) \/ <>(pc = "closed")
=============================================================================
