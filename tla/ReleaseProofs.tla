---------------------------- MODULE ReleaseProofs ----------------------------
(***************************************************************************)
(* Proofs about Release, for any finite history, number of maintainers,    *)
(* runs and interferences.                                                 *)
(*                                                                         *)
(* First what the operators of VersionCalc compute.  A recursion over a    *)
(* history's parents, which have smaller numbers, gives the least set that *)
(* holds a commit and is closed under its parents (Reach); with that       *)
(* Ancestors and FirstParents have the properties of orders, and MergeBase *)
(* chooses a common ancestor that is above no other.                       *)
(*                                                                         *)
(* Then the invariant.  What a run has calculated so far (RunInv), and what*)
(* a tag says wherever it lies (TagsInv), is a base that no published base *)
(* of before is properly above on the way to its commit (Newest), while    *)
(* HEAD stays; published bases are below main.  Both stay true because     *)
(* main only advances and tags are not moved.                              *)
(***************************************************************************)
EXTENDS Release, WellFoundedInduction, FiniteSetTheorems, SequenceTheorems, TLAPS

(* What Init says of the history: parents are commits with smaller         *)
(* numbers, only the root has none, and dates do not run backwards.        *)
History ==
    /\ \A c \in Commits : Range(parents[c]) \subseteq {p \in Commits : p < c}
    /\ \A c \in Commits : \/ c = 1 /\ parents[c] = <<>>
                          \/ c # 1 /\ parents[c] # <<>> /\ parents[c][1] \in Range(parents[c])
    /\ date \in [Commits -> Nat]
    /\ \A c, d \in Commits : d <= c => date[d] <= date[c]

-----------------------------------------------------------------------------
(* Commits are the numbers from 1 on. *)
LEMMA CommitNumbers ==
    /\ Cardinality(Commits) \in Nat /\ 1 \in Commits
    /\ \A c : c \in Commits <=> c \in Nat /\ 1 <= c /\ c <= Cardinality(Commits)
<1>1. Cardinality(Commits) \in Nat
  BY CommitsAssumption, FS_CardinalityType
<1>2. \A c : c \in Commits <=> c \in Nat /\ 1 <= c /\ c <= Cardinality(Commits)
  BY <1>1, CommitsAssumption
<1>3. PICK c : c \in Commits
  BY CommitsAssumption
<1>4. 1 \in Commits
  BY <1>1, <1>2, <1>3
<1> QED
  BY <1>1, <1>2, <1>4

(* A set of numbers that is not empty has a least one. *)
LEMMA Least ==
    ASSUME NEW A \in SUBSET Nat, A # {}
    PROVE  \E m \in A : \A k \in A : m <= k
<1>1. PICK m \in A : \A k \in A : ~(<<k, m>> \in OpToRel(<, Nat))
  BY NatLessThanWellFounded, WFMin, Zenon
<1>2. \A k \in A : <<k, m>> \in Nat \X Nat
  OBVIOUS
<1>3. \A k \in A : ~(k < m)
  BY <1>1, <1>2, Zenon DEF OpToRel
<1> QED
  BY <1>3

(* A set of commits that is not empty has a latest one. *)
LEMMA Latest ==
    ASSUME NEW A \in SUBSET Commits, A # {}
    PROVE  \E m \in A : \A k \in A : k <= m
<1> DEFINE N == Cardinality(Commits)
           B == {n \in Nat : \A k \in A : k <= n}
<1>1. N \in B
  BY CommitNumbers
<1>2. PICK n \in B : \A k \in B : n <= k
  <2>1. B \in SUBSET Nat /\ B # {}
    BY <1>1
  <2> HIDE DEF B
  <2> QED
    BY <2>1, Least
<1>3. n \in A
  <2> SUFFICES ASSUME n \notin A PROVE FALSE
    OBVIOUS
  <2>1. PICK k : k \in A
    OBVIOUS
  <2>2. n \in Nat /\ 1 <= k /\ k \in Nat /\ k <= n
    BY <2>1, CommitNumbers
  <2>3. n - 1 \in B
    BY <2>2, CommitNumbers
  <2> HIDE DEF B
  <2> QED
    BY <1>2, <2>2, <2>3
<1> QED
  BY <1>3

-----------------------------------------------------------------------------
(* What can be reached from c by going from a commit d to members of       *)
(* next[d]: what is in every set that holds c and is closed under next.    *)
Closed(next, A) == \A d \in A : next[d] \subseteq A
Reach(next, c) == {a \in Commits : \A A \in SUBSET Commits : c \in A /\ Closed(next, A) => a \in A}

Downwards == {next \in [Commits -> SUBSET Commits] : \A c \in Commits : \A p \in next[c] : p < c}

(* Reach is the least closed set. *)
LEMMA ReachIsLeast ==
    ASSUME NEW next \in Downwards, NEW c \in Commits
    PROVE  /\ c \in Reach(next, c) /\ Reach(next, c) \subseteq Commits
           /\ Closed(next, Reach(next, c))
           /\ \A A \in SUBSET Commits : c \in A /\ Closed(next, A) => Reach(next, c) \subseteq A
<1>1. c \in Reach(next, c) /\ Reach(next, c) \subseteq Commits
  BY DEF Reach
<1>2. \A A \in SUBSET Commits : c \in A /\ Closed(next, A) => Reach(next, c) \subseteq A
  BY DEF Reach
<1>3. Closed(next, Reach(next, c))
  BY DEF Reach, Closed, Downwards
<1> QED
  BY <1>1, <1>2, <1>3

(* A commit reaches itself and what its next ones reach. *)
LEMMA ReachUnfolds ==
    ASSUME NEW next \in Downwards, NEW c \in Commits
    PROVE  Reach(next, c) = {c} \cup UNION {Reach(next, p) : p \in next[c]}
<1> DEFINE A == {c} \cup UNION {Reach(next, p) : p \in next[c]}
<1>1. next[c] \subseteq Commits
  BY DEF Downwards
<1>2. A \in SUBSET Commits /\ c \in A
  BY <1>1, ReachIsLeast
<1>3. ASSUME NEW d \in A PROVE next[d] \subseteq A
  <2>1. CASE d = c
    BY <1>1, <2>1, ReachIsLeast
  <2>2. CASE d # c
    <3>1. PICK p \in next[c] : d \in Reach(next, p)
      BY <2>2
    <3>2. next[d] \subseteq Reach(next, p)
      BY <1>1, <3>1, ReachIsLeast DEF Closed
    <3> QED
      BY <3>1, <3>2
  <2> QED
    BY <2>1, <2>2
<1>4. Reach(next, c) \subseteq A
  <2> HIDE DEF A
  <2>1. Closed(next, A)
    BY <1>3 DEF Closed
  <2> QED
    BY <1>2, <2>1, ReachIsLeast
<1>5. ASSUME NEW p \in next[c] PROVE Reach(next, p) \subseteq Reach(next, c)
  <2>1. p \in Reach(next, c)
    BY <1>5, ReachIsLeast DEF Closed
  <2> QED
    BY <1>1, <2>1, ReachIsLeast
<1>6. A \subseteq Reach(next, c)
  BY <1>5, ReachIsLeast
<1> QED
  BY <1>4, <1>6

(* What the recursion over next computes, since it goes downwards. *)
LEMMA ReachIsComputed ==
    ASSUME NEW next \in Downwards, NEW f,
           f = [c \in Commits |-> {c} \cup UNION {f[p] : p \in next[c]}]
    PROVE  \A c \in Commits : f[c] = Reach(next, c)
<1> DEFINE Wrong == {c \in Commits : f[c] # Reach(next, c)}
<1>1. CASE Wrong # {}
  <2>1. PICK m \in Wrong : \A k \in Wrong : m <= k
    <3>1. Wrong \in SUBSET Nat
      BY CommitNumbers
    <3> HIDE DEF Wrong
    <3> QED
      BY <1>1, <3>1, Least
  <2>2. m \in Commits /\ f[m] # Reach(next, m)
    BY <2>1
  <2>3. \A p \in next[m] : p \in Commits /\ p < m
    BY <2>2 DEF Downwards
  <2>4. \A p \in next[m] : f[p] = Reach(next, p)
    <3> TAKE p \in next[m]
    <3>1. p \in Nat /\ m \in Nat /\ p < m
      BY <2>2, <2>3, CommitNumbers
    <3>2. p \notin Wrong
      BY <2>1, <3>1
    <3> QED
      BY <2>3, <3>2
  <2>5. f[m] = {m} \cup UNION {f[p] : p \in next[m]}
    BY <2>2
  <2>6. {f[p] : p \in next[m]} = {Reach(next, p) : p \in next[m]}
    BY <2>4
  <2> QED
    BY <2>2, <2>5, <2>6, ReachUnfolds
<1> QED
  BY <1>1

(* ... and there is such a function. *)
LEMMA ReachIsAFunction ==
    ASSUME NEW next \in Downwards
    PROVE  LET f == [c \in Commits |-> Reach(next, c)]
           IN  f = [c \in Commits |-> {c} \cup UNION {f[p] : p \in next[c]}]
<1> DEFINE f == [c \in Commits |-> Reach(next, c)]
<1>1. ASSUME NEW c \in Commits PROVE f[c] = {c} \cup UNION {f[p] : p \in next[c]}
  <2>1. next[c] \subseteq Commits
    BY DEF Downwards
  <2>2. {f[p] : p \in next[c]} = {Reach(next, p) : p \in next[c]}
    BY <2>1
  <2> QED
    BY <2>2, ReachUnfolds
<1> QED
  BY <1>1
-----------------------------------------------------------------------------
AllParents  == [c \in Commits |-> Range(parents[c])]
FirstParent == [c \in Commits |-> IF parents[c] = <<>> THEN {} ELSE {parents[c][1]}]

(* Ancestors and FirstParents compute what can be reached over all parents *)
(* and over first parents.                                                 *)
LEMMA HistoryReaches ==
    ASSUME History
    PROVE  /\ AllParents \in Downwards /\ FirstParent \in Downwards
           /\ \A c \in Commits : Ancestors(c) = Reach(AllParents, c)
           /\ \A c \in Commits : FirstParents(c) = Reach(FirstParent, c)
<1>1. AllParents \in Downwards /\ FirstParent \in Downwards
  BY DEF History, Downwards, AllParents, FirstParent
<1>2. ASSUME NEW c \in Commits PROVE Ancestors(c) = Reach(AllParents, c)
  <2> DEFINE Solves(f) == f = [d \in Commits |-> {d} \cup UNION {f[p] : p \in Range(parents[d])}]
             up == CHOOSE f : Solves(f)
  <2>1. \E f : Solves(f)
    <3> DEFINE f == [d \in Commits |-> Reach(AllParents, d)]
    <3>1. f = [d \in Commits |-> {d} \cup UNION {f[p] : p \in AllParents[d]}]
      BY <1>1, ReachIsAFunction
    <3>2. Solves(f)
      BY <3>1 DEF AllParents
    <3> QED
      BY <3>2
  <2>2. Solves(up)
    BY <2>1
  <2>3. up = [d \in Commits |-> {d} \cup UNION {up[p] : p \in AllParents[d]}]
    BY <2>2 DEF AllParents
  <2>4. up[c] = Reach(AllParents, c)
    <3> HIDE DEF up
    <3> QED
      BY <1>1, <2>3, ReachIsComputed
  <2>5. Ancestors(c) = up[c]
    BY DEF Ancestors
  <2> QED
    BY <2>4, <2>5
<1>3. ASSUME NEW c \in Commits PROVE FirstParents(c) = Reach(FirstParent, c)
  <2> DEFINE Solves(f) == f = [d \in Commits |->
                                  {d} \cup IF parents[d] = <<>> THEN {} ELSE f[parents[d][1]]]
             line == CHOOSE f : Solves(f)
  <2>1. ASSUME NEW f
        PROVE  Solves(f) <=> f = [d \in Commits |-> {d} \cup UNION {f[p] : p \in FirstParent[d]}]
    <3>1. ASSUME NEW d \in Commits
          PROVE  UNION {f[p] : p \in FirstParent[d]} =
                     IF parents[d] = <<>> THEN {} ELSE f[parents[d][1]]
      BY DEF FirstParent
    <3>2. [d \in Commits |-> {d} \cup UNION {f[p] : p \in FirstParent[d]}] =
          [d \in Commits |-> {d} \cup IF parents[d] = <<>> THEN {} ELSE f[parents[d][1]]]
      BY <3>1
    <3> QED
      BY <3>2, Zenon
  <2>2. \E f : Solves(f)
    <3> DEFINE f == [d \in Commits |-> Reach(FirstParent, d)]
    <3>1. f = [d \in Commits |-> {d} \cup UNION {f[p] : p \in FirstParent[d]}]
      BY <1>1, ReachIsAFunction
    <3>2. Solves(f)
      <4> HIDE DEF f, Solves
      <4> QED
        BY <2>1, <3>1
    <3> QED
      BY <3>2
  <2>3. Solves(line)
    BY <2>2
  <2>4. line = [d \in Commits |-> {d} \cup UNION {line[p] : p \in FirstParent[d]}]
    <3> HIDE DEF line, Solves
    <3> QED
      BY <2>1, <2>3
  <2>5. line[c] = Reach(FirstParent, c)
    <3> HIDE DEF line
    <3> QED
      BY <1>1, <2>4, ReachIsComputed
  <2>6. FirstParents(c) = line[c]
    BY DEF FirstParents
  <2> QED
    BY <2>5, <2>6
<1> QED
  BY <1>1, <1>2, <1>3

(* An ancestor's ancestors are ancestors, all have smaller numbers, and    *)
(* the root is one.                                                        *)
LEMMA AncestorFacts ==
    ASSUME History, NEW c \in Commits
    PROVE  /\ c \in Ancestors(c) /\ 1 \in Ancestors(c)
           /\ Ancestors(c) \subseteq {a \in Commits : a <= c}
           /\ \A a \in Ancestors(c) : Ancestors(a) \subseteq Ancestors(c)
<1> DEFINE next == AllParents
<1>1. /\ next \in Downwards
      /\ \A d \in Commits : Ancestors(d) = Reach(next, d)
  BY HistoryReaches
<1>2. c \in Ancestors(c) /\ Ancestors(c) \subseteq Commits /\ Closed(next, Ancestors(c))
  BY <1>1, ReachIsLeast
<1>3. \A a \in Ancestors(c) : Ancestors(a) \subseteq Ancestors(c)
  BY <1>1, <1>2, ReachIsLeast
<1>4. Ancestors(c) \subseteq {a \in Commits : a <= c}
  <2> DEFINE A == {a \in Commits : a <= c}
  <2>1. A \in SUBSET Commits /\ c \in A
    BY CommitNumbers
  <2>2. ASSUME NEW d \in A, NEW p \in next[d] PROVE p \in A
    <3>1. p \in Commits /\ p < d
      BY <1>1 DEF Downwards
    <3> QED
      BY <3>1, CommitNumbers
  <2>3. Closed(next, A)
    BY <2>2 DEF Closed
  <2> HIDE DEF A
  <2>4. Reach(next, c) \subseteq A
    BY <1>1, <2>1, <2>3, ReachIsLeast
  <2> QED
    BY <1>1, <2>4 DEF A
<1>5. 1 \in Ancestors(c)
  <2>1. PICK m \in Ancestors(c) : \A k \in Ancestors(c) : m <= k
    <3>1. Ancestors(c) \in SUBSET Nat
      BY <1>2, CommitNumbers
    <3> QED
      BY <1>2, <3>1, Least
  <2>2. CASE m # 1
    <3>1. m \in Commits /\ parents[m][1] \in Range(parents[m])
      BY <1>2, <2>2 DEF History
    <3>2. parents[m][1] \in next[m]
      BY <3>1 DEF AllParents
    <3>3. parents[m][1] \in Commits /\ parents[m][1] < m
      BY <1>1, <3>1, <3>2 DEF Downwards
    <3>4. parents[m][1] \in Ancestors(c)
      BY <1>2, <3>2 DEF Closed
    <3> QED
      BY <2>1, <3>1, <3>3, <3>4, CommitNumbers
  <2> QED
    BY <2>1, <2>2
<1> QED
  BY <1>2, <1>3, <1>4, <1>5

(* The first parents of a commit are on one line: of two of them one is on *)
(* the other's.                                                            *)
LEMMA FirstParentFacts ==
    ASSUME History, NEW c \in Commits
    PROVE  /\ c \in FirstParents(c)
           /\ FirstParents(c) \subseteq {a \in Commits : a <= c}
           /\ FirstParents(c) \subseteq Ancestors(c)
           /\ \A a \in FirstParents(c) : FirstParents(a) \subseteq FirstParents(c)
           /\ \A a, b \in FirstParents(c) : a \in FirstParents(b) \/ b \in FirstParents(a)
<1> DEFINE next == FirstParent
<1>1. /\ next \in Downwards
      /\ \A d \in Commits : FirstParents(d) = Reach(next, d)
  BY HistoryReaches
<1>2. \A d \in Commits : /\ d \in FirstParents(d) /\ FirstParents(d) \subseteq Commits
                         /\ Closed(next, FirstParents(d))
  BY <1>1, ReachIsLeast
<1>3. \A d \in Commits : \A a \in FirstParents(d) : FirstParents(a) \subseteq FirstParents(d)
  BY <1>1, <1>2, ReachIsLeast
<1>4. FirstParents(c) \subseteq Ancestors(c)
  <2>1. /\ AllParents \in Downwards
        /\ Ancestors(c) = Reach(AllParents, c)
    BY HistoryReaches
  <2>2. /\ c \in Ancestors(c) /\ Ancestors(c) \subseteq Commits
        /\ Closed(AllParents, Ancestors(c))
    BY <2>1, ReachIsLeast
  <2>3. \A d \in Commits : next[d] \subseteq AllParents[d]
    BY DEF FirstParent, AllParents, History
  <2>4. Closed(next, Ancestors(c))
    BY <2>2, <2>3 DEF Closed
  <2> QED
    BY <1>1, <2>2, <2>4, ReachIsLeast
<1>5. ASSUME NEW a \in FirstParents(c), NEW b \in FirstParents(c)
      PROVE  a \in FirstParents(b) \/ b \in FirstParents(a)
  <2> DEFINE A == {d \in Commits : a \in FirstParents(d) \/ d \in FirstParents(a)}
  <2>1. a \in Commits /\ b \in Commits
    BY <1>2
  <2>2. A \in SUBSET Commits /\ c \in A
    OBVIOUS
  <2>3. ASSUME NEW d \in A PROVE next[d] \subseteq A
    <3>1. d \in Commits /\ next[d] \subseteq Commits
      BY <1>1 DEF Downwards
    <3>2. CASE d \in FirstParents(a)
      <4>1. next[d] \subseteq FirstParents(a)
        BY <1>2, <2>1, <3>2 DEF Closed
      <4> QED
        BY <3>1, <4>1
    <3>3. CASE d \notin FirstParents(a)
      <4>1. a # d /\ a \in FirstParents(d)
        BY <1>2, <2>1, <3>3
      <4>2. FirstParents(d) = {d} \cup UNION {Reach(next, p) : p \in next[d]}
        BY <1>1, <3>1, ReachUnfolds
      <4>3. PICK p \in next[d] : a \in Reach(next, p)
        BY <4>1, <4>2
      <4>4. next[d] = {p}
        BY <3>1, <4>3 DEF FirstParent
      <4>5. a \in FirstParents(p) /\ p \in Commits
        BY <1>1, <3>1, <4>3
      <4> QED
        BY <4>4, <4>5
    <3> QED
      BY <3>2, <3>3
  <2> HIDE DEF A
  <2>4. Closed(next, A)
    BY <2>3 DEF Closed
  <2>5. FirstParents(c) \subseteq A
    BY <1>1, <2>2, <2>4, ReachIsLeast
  <2>6. b \in A
    BY <2>5
  <2> QED
    BY <2>6 DEF A
<1> QED
  BY <1>2, <1>3, <1>4, <1>5, AncestorFacts
-----------------------------------------------------------------------------
(* Ancestors are of a history, which no step changes.                      *)
LEMMA SameHistory ==
    ASSUME UNCHANGED history
    PROVE  /\ \A c : Ancestors(c)' = Ancestors(c)
           /\ \A c : FirstParents(c)' = FirstParents(c)
           /\ \A c, d : MergeBase(c, d)' = MergeBase(c, d)
           /\ \A c, d, b : Calculate(c, d, b)' = Calculate(c, d, b)
           /\ \A t, d : ValidateTag(t, d)' = ValidateTag(t, d)
           /\ History' <=> History
<1>0. parents' = parents /\ date' = date
  BY DEF history
<1>1. \A c : Ancestors(c)' = Ancestors(c)
  BY <1>0 DEF Ancestors
<1>2. \A c : FirstParents(c)' = FirstParents(c)
  BY <1>0 DEF FirstParents
<1>3. \A c, d : MergeBase(c, d)' = MergeBase(c, d)
  BY <1>1 DEF MergeBase
<1>4. \A c, d, b : Calculate(c, d, b)' = Calculate(c, d, b)
  BY <1>0, <1>1, <1>2, <1>3 DEF Calculate, RequireAncestor
<1>5. \A t, d : ValidateTag(t, d)' = ValidateTag(t, d)
  BY <1>4 DEF ValidateTag
<1>6. History' <=> History
  BY <1>0 DEF History
<1> QED
  BY <1>1, <1>2, <1>3, <1>4, <1>5, <1>6

(* git merge-base answers with a common ancestor that no common ancestor   *)
(* is above.                                                               *)
LEMMA MergeBaseFacts ==
    ASSUME History, NEW c \in Commits, NEW d \in Commits
    PROVE  /\ MergeBase(c, d) \in Ancestors(c) \cap Ancestors(d)
           /\ MergeBase(c, d) \in Commits
           /\ \A a \in Ancestors(c) \cap Ancestors(d) :
                  MergeBase(c, d) \in Ancestors(a) => a = MergeBase(c, d)
<1> DEFINE common == Ancestors(c) \cap Ancestors(d)
           Top(b) == \A a \in common : a = b \/ b \notin Ancestors(a)
<1>1. common \in SUBSET Commits /\ common # {}
  BY AncestorFacts
<1>2. PICK m \in common : \A k \in common : k <= m
  <2> HIDE DEF common
  <2> QED
    BY <1>1, Latest
<1>3. ASSUME NEW a \in common, m \in Ancestors(a) PROVE a = m
  <2>1. a \in Commits /\ m \in Commits
    BY <1>1
  <2>2. a <= m /\ m <= a
    BY <1>2, <1>3, <2>1, AncestorFacts
  <2> QED
    BY <2>1, <2>2, CommitNumbers
<1>4. \E b \in common : Top(b)
  BY <1>3
<1>5. MergeBase(c, d) = CHOOSE b \in common : Top(b)
  BY DEF MergeBase
<1>6. MergeBase(c, d) \in common /\ Top(MergeBase(c, d))
  <2> HIDE DEF common, Top
  <2> QED
    BY <1>4, <1>5
<1> QED
  BY <1>1, <1>6

(* The version of commit c with main base b.                               *)
NameOf(c, b) ==
    [date |-> date[b], sequence |-> Cardinality(FirstParents(b)),
     distance |-> Cardinality(Ancestors(c) \ Ancestors(b)), commit |-> c]

(* Without a recorded base Calculate takes the merge base.                 *)
LEMMA CalculateFacts ==
    ASSUME History, NEW c \in Commits, NEW d \in Commits
    PROVE  LET b == MergeBase(c, d)
           IN  /\ Calculate(c, d, Nothing) = [tag |-> NameOf(c, b), base |-> b]
               /\ NameOf(c, b) \in Names
<1> DEFINE b == MergeBase(c, d)
<1>1. b \in Ancestors(c) /\ b \in Ancestors(d) /\ b \in Commits
  BY MergeBaseFacts
<1>2. Calculate(c, d, Nothing) = [tag |-> NameOf(c, b), base |-> b]
  <2> HIDE DEF b
  <2>1. b = MergeBase(c, d)
    BY DEF b
  <2> QED
    BY <1>1, <2>1 DEF Calculate, RequireAncestor, NameOf
<1>3. Cardinality(FirstParents(b)) \in Nat
  <2>1. FirstParents(b) \subseteq Commits
    BY <1>1, FirstParentFacts
  <2> QED
    BY <2>1, CommitsAssumption, FS_Subset, FS_CardinalityType
<1>4. Cardinality(Ancestors(c) \ Ancestors(b)) \in Nat
  <2>1. Ancestors(c) \ Ancestors(b) \subseteq Commits
    BY AncestorFacts
  <2> QED
    BY <2>1, CommitsAssumption, FS_Subset, FS_CardinalityType
<1>5. NameOf(c, b) \in Names
  <2> HIDE DEF b
  <2>1. date[b] \in Nat
    BY <1>1 DEF History
  <2> QED
    BY <1>3, <1>4, <2>1 DEF NameOf, Names
<1> QED
  BY <1>2, <1>5

(* A tag is valid if its base is an ancestor of its commit and of main and *)
(* its name is the version that follows; and so it is for every main that  *)
(* comes later.                                                            *)
LEMMA ValidTags ==
    ASSUME History, NEW t \in Tags, NEW d \in Commits, ValidateTag(t, d)
    PROVE  /\ t.base \in Ancestors(d) /\ t.base \in Ancestors(t.commit)
           /\ t.name = NameOf(t.commit, t.base)
           /\ \A e \in Commits : d \in Ancestors(e) => ValidateTag(t, e)
<1>1. t.base \in Commits /\ t.base # Nothing /\ t.commit \in Commits
  BY NothingAssumption DEF Tags
<1>2. Calculate(t.commit, d, t.base) # Nothing /\ Calculate(t.commit, d, t.base).tag = t.name
  BY DEF ValidateTag
<1>3. t.base \in Ancestors(d) /\ t.base \in Ancestors(t.commit)
  BY <1>1, <1>2 DEF Calculate, RequireAncestor
<1>4. \A e : t.base \in Ancestors(e) =>
          Calculate(t.commit, e, t.base) = [tag |-> NameOf(t.commit, t.base), base |-> t.base]
  BY <1>1, <1>3 DEF Calculate, RequireAncestor, NameOf
<1>5. t.name = NameOf(t.commit, t.base)
  BY <1>2, <1>3, <1>4
<1>6. ASSUME NEW e \in Commits, d \in Ancestors(e) PROVE ValidateTag(t, e)
  <2>1. t.base \in Ancestors(e)
    BY <1>3, <1>6, AncestorFacts
  <2> QED
    BY <1>2, <1>3, <1>4, <2>1 DEF ValidateTag
<1> QED
  BY <1>3, <1>5, <1>6
-----------------------------------------------------------------------------
(* No base of the first n tags published is above b on the way to c.       *)
Newest(pub, b, c, n) ==
    \A i \in 1..n : pub[i].base \in Ancestors(c) /\ b \in Ancestors(pub[i].base)
                        => b = pub[i].base

(* A tag says when it was made, and its base was the newest then unless    *)
(* HEAD was switched while it was.                                         *)
TagInv(pub, t) ==
    /\ t.after <= Len(pub)
    /\ ~t.switched => Newest(pub, t.base, t.commit, t.after)

TagsInv ==
    /\ \A t \in remote : TagInv(published, t)
    /\ \A m \in Maintainers : \A t \in tags[m] : TagInv(published, t)
    /\ \A i \in 1..Len(published) : TagInv(published, published[i])

(* The bases of what was published when a run began are below what it      *)
(* takes for main; HEAD and the base it calculated belong together unless  *)
(* HEAD was switched in between.                                           *)
Calculating == {"tag", "base", "commit", "look"}

RunOf(m) ==
    /\ pc[m] \in Calculating =>
           /\ head[m] \in Commits /\ tracked[m] \in Commits
           /\ var[m].after <= Len(published)
           /\ \A i \in 1..var[m].after : published[i].base \in Ancestors(tracked[m])
    /\ pc[m] \in {"base", "commit", "look"} => var[m].tag \in Names
    /\ pc[m] \in {"commit", "look"} =>
           /\ var[m].base \in Commits
           /\ ~var[m].switched => Newest(published, var[m].base, head[m], var[m].after)
    /\ pc[m] = "look" => var[m].commit = head[m]

RunInv == \A m \in Maintainers : RunOf(m)

Inv == TypeOK /\ History /\ RunInv /\ TagsInv /\ PublishedStaysValid

-----------------------------------------------------------------------------
(* What the script calculates from HEAD and what it takes for main.        *)
LEMMA ResultFacts ==
    ASSUME Inv, NEW m \in Maintainers, pc[m] \in Calculating
    PROVE  /\ Result(m).tag \in Names
           /\ Result(m).base \in Commits
           /\ Result(m).base = MergeBase(head[m], tracked[m])
<1>1. head[m] \in Commits /\ tracked[m] \in Commits /\ History
  BY DEF Inv, RunInv, RunOf
<1>2. /\ Result(m) = [tag |-> NameOf(head[m], MergeBase(head[m], tracked[m])),
                      base |-> MergeBase(head[m], tracked[m])]
      /\ NameOf(head[m], MergeBase(head[m], tracked[m])) \in Names
  BY <1>1, CalculateFacts DEF Result
<1> QED
  BY <1>1, <1>2, MergeBaseFacts

(* What a colleague tags. *)
LEMMA ColleagueFacts ==
    ASSUME Inv, Colleague
    PROVE  \E t \in Tags : /\ remote' = remote \cup {t}
                           /\ t.after = Len(published) /\ t.switched = FALSE
                           /\ t.base = MergeBase(t.commit, main)
<1>1. main \in Commits /\ History /\ published \in Seq(Tags)
  BY DEF Inv, TypeOK
<1>2. PICK c \in Commits :
          remote' = remote \cup {[name |-> Calculate(c, main, Nothing).tag,
                                  base |-> Calculate(c, main, Nothing).base,
                                  commit |-> c, after |-> Len(published),
                                  switched |-> FALSE, by |-> Nothing]}
  BY DEF Colleague
<1> DEFINE b == MergeBase(c, main)
           t == [name |-> NameOf(c, b), base |-> b, commit |-> c, after |-> Len(published),
                 switched |-> FALSE, by |-> Nothing]
<1>3. Calculate(c, main, Nothing) = [tag |-> NameOf(c, b), base |-> b] /\ NameOf(c, b) \in Names
  BY <1>1, CalculateFacts
<1>4. b \in Commits
  BY <1>1, MergeBaseFacts
<1>5. remote' = remote \cup {t}
  <2> HIDE DEF b
  <2> QED
    BY <1>2, <1>3
<1>6. Len(published) \in Nat
  BY <1>1
<1>7. t \in Tags
  <2> HIDE DEF b
  <2> QED
    BY <1>3, <1>4, <1>6 DEF Tags
<1> QED
  BY <1>5, <1>7

(* The history stays as it is. *)
LEMMA HistoryStep == [Next]_vars => UNCHANGED history
  BY DEF Next, MainAdvances, Colleague, Publish, Done, Script, Interfere, Stop, Fetch,
     FetchRefused, Gain, CalcTag, CalcBase, CalcCommit, Tag, LsRemote, Push, vars

(* Names, tags and runs are what they should be. *)
LEMMA TypeStep == Inv /\ [Next]_vars => TypeOK'
<1> SUFFICES ASSUME Inv, [Next]_vars PROVE TypeOK'
  OBVIOUS
<1>0. TypeOK
  BY DEF Inv
<1> USE DEF TypeOK
<1>1. CASE MainAdvances
  BY <1>0, <1>1 DEF MainAdvances
<1>2. CASE Colleague
  <2>1. PICK t \in Tags : remote' = remote \cup {t}
    BY <1>2, ColleagueFacts
  <2> QED
    BY <1>0, <1>2, <2>1 DEF Colleague
<1>3. CASE Publish
  BY <1>0, <1>3 DEF Publish
<1>4. ASSUME NEW m \in Maintainers, Interfere(m) PROVE TypeOK'
  <2>1. CASE tracked' = [tracked EXCEPT ![m] = main] /\ UNCHANGED <<head, var>>
    BY <1>0, <1>4, <2>1 DEF Interfere
  <2>2. CASE /\ head' \in {[head EXCEPT ![m] = c] : c \in Commits \ {head[m]}}
             /\ Set(m, "switched", TRUE) /\ UNCHANGED tracked
    <3>1. PICK c \in Commits : head' = [head EXCEPT ![m] = c]
      BY <2>2
    <3>2. var' = [var EXCEPT ![m].switched = TRUE]
      BY <2>2 DEF Set
    <3> QED
      BY <1>0, <1>4, <2>2, <3>1, <3>2 DEF Interfere
  <2> QED
    BY <1>4, <2>1, <2>2 DEF Interfere
<1>5. ASSUME NEW m \in Maintainers, Stop(m) PROVE TypeOK'
  BY <1>0, <1>5 DEF Stop, End, NoRun
<1>6. ASSUME NEW m \in Maintainers, Gain(m)
      PROVE  tags' \in [Maintainers -> SUBSET Tags] /\ UNCHANGED <<main, remote, published>>
  <2> DEFINE gained == {t \in remote : \A own \in tags[m] : own.name # t.name}
  <2>1. tags' = [tags EXCEPT ![m] = @ \cup gained] /\ UNCHANGED <<main, remote, published>>
    BY <1>6 DEF Gain
  <2>2. gained \subseteq Tags
    BY <1>0
  <2> HIDE DEF gained
  <2> QED
    BY <1>0, <2>1, <2>2
<1>7. ASSUME NEW m \in Maintainers, Fetch(m) PROVE TypeOK'
  <2>1. PICK c \in Commits : head' = [head EXCEPT ![m] = c]
    BY <1>7 DEF Fetch
  <2>2. var' = [var EXCEPT ![m].after = Len(published)] /\ Len(published) \in Nat
    <3>1. Set(m, "after", Len(published))
      BY <1>7 DEF Fetch
    <3>2. Len(published) \in Nat
      BY <1>0
    <3>3. var' = [var EXCEPT ![m].after = Len(published)]
      BY <3>1 DEF Set
    <3> QED
      BY <3>2, <3>3
  <2>3. tags' \in [Maintainers -> SUBSET Tags] /\ UNCHANGED <<main, remote, published>>
    BY <1>6, <1>7 DEF Fetch
  <2>4. pc' = [pc EXCEPT ![m] = "tag"] /\ tracked' = [tracked EXCEPT ![m] = main]
    BY <1>7 DEF Fetch, At
  <2> QED
    BY <1>0, <2>1, <2>2, <2>3, <2>4
<1>8. ASSUME NEW m \in Maintainers, FetchRefused(m) PROVE TypeOK'
  BY <1>0, <1>6, <1>8 DEF FetchRefused
<1>9. ASSUME NEW m \in Maintainers, CalcTag(m) PROVE TypeOK'
  <2>1. Result(m).tag \in Names
    BY <1>9, ResultFacts DEF CalcTag, At, Calculating
  <2> QED
    BY <1>0, <1>9, <2>1 DEF CalcTag, At, Set
<1>10. ASSUME NEW m \in Maintainers, CalcBase(m) PROVE TypeOK'
  <2>1. Result(m).base \in Commits
    BY <1>10, ResultFacts DEF CalcBase, At, Calculating
  <2> QED
    BY <1>0, <1>10, <2>1 DEF CalcBase, At, Set
<1>11. ASSUME NEW m \in Maintainers, CalcCommit(m) PROVE TypeOK'
  BY <1>0, <1>11 DEF CalcCommit, At, Set
<1>12. ASSUME NEW m \in Maintainers, Tag(m) PROVE TypeOK'
  <2>1. /\ var[m].tag \in Names /\ var[m].base \in Commits /\ var[m].commit \in Commits
        /\ var[m].after \in Nat /\ var[m].switched \in BOOLEAN
    BY <1>12 DEF Tag, Inv, RunInv, RunOf, Calculating
  <2>2. [name |-> var[m].tag, base |-> var[m].base, commit |-> var[m].commit,
         after |-> var[m].after, switched |-> var[m].switched, by |-> m] \in Tags
    BY <2>1 DEF Tags
  <2>3. tags' \in [Maintainers -> SUBSET Tags]
    <3> DEFINE t == [name |-> var[m].tag, base |-> var[m].base, commit |-> var[m].commit,
                     after |-> var[m].after, switched |-> var[m].switched, by |-> m]
    <3>1. tags' = [tags EXCEPT ![m] = @ \cup {t}] \/ tags' = tags
      BY <1>12 DEF Tag
    <3>2. t \in Tags
      BY <2>2
    <3>3. tags \in [Maintainers -> SUBSET Tags]
      BY <1>0
    <3> HIDE DEF t, TypeOK
    <3>4. tags[m] \cup {t} \in SUBSET Tags
      BY <3>2, <3>3
    <3> QED
      BY <3>1, <3>3, <3>4
  <2>4. CASE Tagged(m)
    BY <1>0, <1>12, <2>1, <2>3, <2>4 DEF Tag, Tagged, At, NoRun
  <2>5. CASE End(m)
    BY <1>0, <1>12, <2>3, <2>5 DEF Tag, End, NoRun
  <2> QED
    BY <1>12, <2>4, <2>5 DEF Tag
<1>13. ASSUME NEW m \in Maintainers, LsRemote(m) PROVE TypeOK'
  <2>1. CASE End(m)
    BY <1>0, <1>13, <2>1 DEF LsRemote, End, NoRun
  <2>2. CASE At(m, "remote", "push") /\ UNCHANGED <<head, tracked, var>>
    BY <1>0, <1>13, <2>2 DEF LsRemote, At
  <2> QED
    BY <1>13, <2>1, <2>2 DEF LsRemote
<1>14. ASSUME NEW m \in Maintainers, Push(m) PROVE TypeOK'
  BY <1>0, <1>14 DEF Push, End, NoRun, Named
<1>15. CASE UNCHANGED vars
  BY <1>0, <1>15 DEF vars
<1> QED
  BY <1>1, <1>2, <1>3, <1>4, <1>5, <1>7, <1>8, <1>9, <1>10, <1>11, <1>12, <1>13, <1>14,
     <1>15 DEF Next, Script, Done
-----------------------------------------------------------------------------
(* Only the workflow publishes, and only origin moves main.                *)
LEMMA StepsOfOrigin ==
    [Next]_vars => \/ UNCHANGED <<main, published>>
                   \/ MainAdvances /\ UNCHANGED published
                   \/ Publish /\ UNCHANGED main
  BY DEF Next, MainAdvances, Colleague, Publish, Done, Script, Interfere, Stop, Fetch,
     FetchRefused, Gain, CalcTag, CalcBase, CalcCommit, Tag, LsRemote, Push, vars

(* What Publish appends is a tag of origin that is valid.                  *)
LEMMA PublishFacts ==
    ASSUME Inv, Publish
    PROVE  \E t \in remote : /\ t \in Tags /\ ValidateTag(t, main)
                             /\ published' = Append(published, t)
                             /\ Len(published') = Len(published) + 1
                             /\ \A i \in 1..Len(published) : published'[i] = published[i]
                             /\ published'[Len(published) + 1] = t
<1>1. remote \subseteq Tags /\ published \in Seq(Tags)
  BY DEF Inv, TypeOK
<1>2. PICK t \in remote : ValidateTag(t, main) /\ published' = Append(published, t)
  BY DEF Publish
<1> QED
  BY <1>1, <1>2

(* What was published goes on validating, and so is what is published now. *)
LEMMA ValidStep == Inv /\ [Next]_vars => PublishedStaysValid'
<1> SUFFICES ASSUME Inv, [Next]_vars PROVE PublishedStaysValid'
  OBVIOUS
<1>0. published \in Seq(Tags) /\ main \in Commits /\ History
  BY DEF Inv, TypeOK
<1>1. \A i \in 1..Len(published) : published[i] \in Tags /\ ValidateTag(published[i], main)
  BY <1>0 DEF Inv, PublishedStaysValid
<1>2. \A t, d : ValidateTag(t, d)' = ValidateTag(t, d)
  BY HistoryStep, SameHistory
<1>3. CASE UNCHANGED <<main, published>>
  BY <1>0, <1>1, <1>2, <1>3 DEF PublishedStaysValid
<1>4. CASE MainAdvances /\ UNCHANGED published
  <2>1. main' \in Commits /\ main \in Ancestors(main')
    BY <1>4 DEF MainAdvances
  <2>2. \A i \in 1..Len(published) : ValidateTag(published[i], main')
    BY <1>0, <1>1, <2>1, ValidTags
  <2> QED
    BY <1>0, <1>2, <1>4, <2>2 DEF PublishedStaysValid
<1>5. CASE Publish /\ UNCHANGED main
  <2>1. PICK t \in remote : /\ ValidateTag(t, main)
                            /\ Len(published') = Len(published) + 1
                            /\ \A i \in 1..Len(published) : published'[i] = published[i]
                            /\ published'[Len(published) + 1] = t
                            /\ published' = Append(published, t) /\ t \in Tags
    BY <1>5, PublishFacts
  <2>2. DOMAIN published' = 1..(Len(published) + 1) /\ Len(published) \in Nat
    BY <1>0, <2>1
  <2>3. \A i \in DOMAIN published' : i \in 1..Len(published) \/ i = Len(published) + 1
    BY <2>2
  <2>4. \A i \in DOMAIN published' : ValidateTag(published'[i], main)
    BY <1>1, <2>1, <2>3
  <2> QED
    BY <1>2, <1>5, <2>4 DEF PublishedStaysValid
<1> QED
  BY <1>3, <1>4, <1>5, StepsOfOrigin

(* What is known of the first n published tags is not changed by more.     *)
LEMMA NewestStays ==
    ASSUME Inv, [Next]_vars, NEW b, NEW c, NEW n \in Nat, n <= Len(published),
           Newest(published, b, c, n)
    PROVE  Newest(published', b, c, n) /\ n <= Len(published')
           /\ \A i \in 1..n : published'[i] = published[i]
<1>0. published \in Seq(Tags) /\ Len(published) \in Nat
  BY DEF Inv, TypeOK
<1>1. CASE UNCHANGED published
  BY <1>1
<1>2. CASE Publish
  <2>1. /\ Len(published') = Len(published) + 1
        /\ \A i \in 1..Len(published) : published'[i] = published[i]
    BY <1>2, PublishFacts
  <2>2. \A i \in 1..n : i \in 1..Len(published)
    BY <1>0
  <2> QED
    BY <1>0, <2>1, <2>2 DEF Newest
<1> QED
  BY <1>1, <1>2, StepsOfOrigin

(* A merge base is the newest base there can be.                           *)
LEMMA MergeBaseIsNewest ==
    ASSUME History, NEW c \in Commits, NEW d \in Commits, NEW n \in Nat,
           \A i \in 1..n : published[i].base \in Ancestors(d)
    PROVE  Newest(published, MergeBase(c, d), c, n)
  BY MergeBaseFacts DEF Newest

(* The ancestors and the newest bases of a state are those of the next.    *)
LEMMA SameNewest ==
    ASSUME [Next]_vars
    PROVE  /\ \A c : Ancestors(c)' = Ancestors(c)
           /\ \A pub, b, c, n : Newest(pub, b, c, n)' = Newest(pub, b, c, n)
           /\ \A pub, t : TagInv(pub, t)' = TagInv(pub, t)
<1>1. \A c : Ancestors(c)' = Ancestors(c)
  BY HistoryStep, SameHistory
<1>2. \A pub, b, c, n : Newest(pub, b, c, n)' = Newest(pub, b, c, n)
  BY <1>1 DEF Newest
<1>3. \A pub, t : TagInv(pub, t)' = TagInv(pub, t)
  BY <1>2 DEF TagInv
<1> QED
  BY <1>1, <1>2, <1>3

-----------------------------------------------------------------------------
(* The bases of what is published are below main.                          *)
LEMMA PublishedBelowMain ==
    ASSUME Inv
    PROVE  \A i \in 1..Len(published) : published[i].base \in Ancestors(main)
<1>1. published \in Seq(Tags) /\ main \in Commits /\ History
  BY DEF Inv, TypeOK
<1>2. \A i \in 1..Len(published) : published[i] \in Tags /\ ValidateTag(published[i], main)
  BY <1>1 DEF Inv, PublishedStaysValid
<1> QED
  BY <1>1, <1>2, ValidTags

(* What Tag adds to a clone. *)
TagOf(m) ==
    [name |-> var[m].tag, base |-> var[m].base, commit |-> var[m].commit,
     after |-> var[m].after, switched |-> var[m].switched, by |-> m]

(* Every tag in a clone, on origin or published says what it knew.         *)
LEMMA TagsStep == Inv /\ [Next]_vars => TagsInv'
<1> SUFFICES ASSUME Inv, [Next]_vars PROVE TagsInv'
  OBVIOUS
<1>0. /\ TypeOK /\ History /\ RunInv /\ TagsInv
      /\ published \in Seq(Tags) /\ Len(published) \in Nat /\ main \in Commits
  BY DEF Inv, TypeOK
<1>1. ASSUME NEW t \in Tags, TagInv(published, t) PROVE TagInv(published', t)
  <2>1. t.after \in Nat /\ t.after <= Len(published)
    BY <1>1 DEF Tags, TagInv
  <2>2. Newest(published, t.base, t.commit, t.after) =>
            Newest(published', t.base, t.commit, t.after)
    BY <2>1, NewestStays
  <2>3. t.after <= Len(published')
    <3>1. CASE UNCHANGED published
      BY <2>1, <3>1
    <3>2. CASE Publish
      BY <1>0, <2>1, <3>2, PublishFacts
    <3> QED
      BY <3>1, <3>2, StepsOfOrigin
  <2> QED
    BY <1>1, <2>2, <2>3 DEF TagInv
<1>2. \A pub, t : TagInv(pub, t)' = TagInv(pub, t)
  BY SameNewest
<1>3. (\A t \in remote' : TagInv(published', t))
      /\ (\A m \in Maintainers : \A t \in tags'[m] : TagInv(published', t))
      /\ (\A i \in 1..Len(published') : TagInv(published', published'[i]))
      => TagsInv'
  BY <1>2 DEF TagsInv
<1>4. /\ \A t \in remote : t \in Tags /\ TagInv(published', t)
      /\ \A m \in Maintainers : \A t \in tags[m] : t \in Tags /\ TagInv(published', t)
      /\ \A i \in 1..Len(published) : published[i] \in Tags /\ TagInv(published', published[i])
  BY <1>0, <1>1 DEF TagsInv, TypeOK
<1>5. ASSUME UNCHANGED published
      PROVE  \A i \in 1..Len(published') : TagInv(published', published'[i])
  BY <1>4, <1>5
<1>6. ASSUME UNCHANGED <<remote, tags, published>> PROVE TagsInv'
  BY <1>3, <1>4, <1>5, <1>6
<1>7. CASE Colleague
  <2>1. PICK t \in Tags : /\ remote' = remote \cup {t}
                          /\ t.after = Len(published) /\ t.switched = FALSE
                          /\ t.base = MergeBase(t.commit, main)
    BY <1>7, ColleagueFacts
  <2>2. t.commit \in Commits /\ UNCHANGED <<published, tags>>
    BY <1>7 DEF Tags, Colleague
  <2>3. Newest(published, t.base, t.commit, t.after)
    BY <1>0, <2>1, <2>2, PublishedBelowMain, MergeBaseIsNewest
  <2>4. TagInv(published', t)
    BY <1>0, <2>1, <2>2, <2>3 DEF TagInv
  <2> QED
    BY <1>3, <1>4, <1>5, <2>1, <2>2, <2>4
<1>8. CASE Publish
  <2>1. PICK t \in remote : /\ Len(published') = Len(published) + 1
                            /\ \A i \in 1..Len(published) : published'[i] = published[i]
                            /\ published'[Len(published) + 1] = t
    BY <1>8, PublishFacts
  <2>2. \A i \in 1..Len(published') : i \in 1..Len(published) \/ i = Len(published) + 1
    BY <1>0, <2>1
  <2>3. UNCHANGED <<remote, tags>>
    BY <1>8 DEF Publish
  <2> QED
    BY <1>3, <1>4, <2>1, <2>2, <2>3
<1>9. ASSUME NEW m \in Maintainers, Gain(m) PROVE TagsInv'
  <2>1. UNCHANGED <<remote, published>>
    BY <1>9 DEF Gain
  <2>2. \A q \in Maintainers : tags'[q] \subseteq tags[q] \cup remote
    <3> DEFINE gained == {t \in remote : \A own \in tags[m] : own.name # t.name}
    <3>1. tags' = [tags EXCEPT ![m] = @ \cup gained]
      BY <1>9 DEF Gain
    <3>2. gained \subseteq remote
      OBVIOUS
    <3> HIDE DEF gained
    <3> QED
      BY <1>0, <3>1, <3>2 DEF TypeOK
  <2> QED
    BY <1>3, <1>4, <1>5, <2>1, <2>2
<1>10. ASSUME NEW m \in Maintainers, Tag(m) PROVE TagsInv'
  <2>1. UNCHANGED <<remote, published>> /\ pc[m] = "look"
    BY <1>10 DEF Tag
  <2>2. tags' = tags \/ tags' = [tags EXCEPT ![m] = @ \cup {TagOf(m)}]
    BY <1>10 DEF Tag, TagOf
  <2>3. TagInv(published, TagOf(m))
    BY <1>0, <2>1 DEF RunInv, RunOf, Calculating, TagInv, TagOf
  <2>4. \A q \in Maintainers : tags'[q] \subseteq tags[q] \cup {TagOf(m)}
    BY <1>0, <2>2 DEF TypeOK
  <2> QED
    BY <1>3, <1>4, <1>5, <2>1, <2>3, <2>4
<1>11. ASSUME NEW m \in Maintainers, Push(m) PROVE TagsInv'
  <2>1. UNCHANGED <<published, tags>> /\ remote' \subseteq remote \cup tags[m]
    BY <1>11 DEF Push, Named
  <2> QED
    BY <1>3, <1>4, <1>5, <2>1
<1>12. ASSUME NEW m \in Maintainers,
              Interfere(m) \/ Stop(m) \/ CalcTag(m) \/ CalcBase(m) \/ CalcCommit(m) \/ LsRemote(m)
       PROVE  TagsInv'
  BY <1>6, <1>12 DEF Interfere, Stop, CalcTag, CalcBase, CalcCommit, LsRemote
<1>13. CASE MainAdvances \/ UNCHANGED vars
  BY <1>6, <1>13 DEF MainAdvances, vars
<1> QED
  BY <1>7, <1>8, <1>9, <1>10, <1>11, <1>12, <1>13 DEF Next, Script, Done, Fetch, FetchRefused

-----------------------------------------------------------------------------
(* A run that does nothing is not disturbed by what others do.             *)
LEMMA RunStays ==
    ASSUME Inv, [Next]_vars, NEW m \in Maintainers,
           UNCHANGED <<pc[m], head[m], tracked[m], var[m]>>
    PROVE  RunOf(m)'
<1>0. RunOf(m) /\ var[m].after \in Nat
  BY DEF Inv, RunInv, TypeOK
<1>1. \A pub, b, c, n : Newest(pub, b, c, n)' = Newest(pub, b, c, n)
  BY SameNewest
<1>2. \A c : Ancestors(c)' = Ancestors(c)
  BY SameNewest
<1>3. CASE pc[m] \in Calculating
  <2>1. var[m].after <= Len(published)
    BY <1>0, <1>3 DEF RunOf
  <2>2. /\ var[m].after <= Len(published')
        /\ \A i \in 1..var[m].after : published'[i] = published[i]
    <3>1. CASE UNCHANGED published
      BY <2>1, <3>1
    <3>2. CASE Publish
      <4>1. published \in Seq(Tags) /\ Len(published) \in Nat
        BY DEF Inv, TypeOK
      <4>2. \A i \in 1..var[m].after : i \in 1..Len(published)
        BY <1>0, <2>1, <4>1
      <4> QED
        BY <1>0, <2>1, <3>2, <4>1, <4>2, PublishFacts
    <3> QED
      BY <3>1, <3>2, StepsOfOrigin
  <2>3. Newest(published, var[m].base, head[m], var[m].after) =>
            Newest(published', var[m].base, head[m], var[m].after)
    BY <1>0, <2>1, NewestStays
  <2>4. \A i \in 1..var[m].after : published'[i].base \in Ancestors(tracked[m])
    BY <1>0, <1>3, <2>2 DEF RunOf
  <2> QED
    BY <1>0, <1>1, <1>2, <1>3, <2>2, <2>3, <2>4 DEF RunOf
<1>4. CASE pc[m] \notin Calculating
  BY <1>0, <1>4 DEF RunOf, Calculating
<1> QED
  BY <1>3, <1>4

(* A step of one run leaves the others alone. *)
LEMMA OthersStay ==
    ASSUME TypeOK, NEW m \in Maintainers, Script(m) \/ Interfere(m) \/ Stop(m),
           NEW q \in Maintainers, q # m
    PROVE  UNCHANGED <<pc[q], head[q], tracked[q], var[q]>>
<1> USE DEF TypeOK
<1>1. CASE Interfere(m)
  <2>1. \/ tracked' = [tracked EXCEPT ![m] = main] /\ UNCHANGED <<head, var>>
        \/ /\ \E c \in Commits : head' = [head EXCEPT ![m] = c]
           /\ var' = [var EXCEPT ![m].switched = TRUE] /\ UNCHANGED tracked
    BY <1>1 DEF Interfere, Set
  <2> QED
    BY <1>1, <2>1 DEF Interfere
<1>2. ASSUME End(m) PROVE UNCHANGED <<pc[q], head[q], tracked[q], var[q]>>
  BY <1>2 DEF End
<1>3. ASSUME Tagged(m) PROVE UNCHANGED <<pc[q], head[q], tracked[q], var[q]>>
  BY <1>3 DEF Tagged, At
<1>4. CASE Fetch(m)
  <2>1. \E c \in Commits : head' = [head EXCEPT ![m] = c]
    BY <1>4 DEF Fetch
  <2>2. var' = [var EXCEPT ![m].after = Len(published)]
    BY <1>4 DEF Fetch, Set
  <2>3. tracked' = [tracked EXCEPT ![m] = main] /\ pc' = [pc EXCEPT ![m] = "tag"]
    BY <1>4 DEF Fetch, At
  <2> QED
    BY <2>1, <2>2, <2>3
<1>5. CASE CalcTag(m) \/ CalcBase(m) \/ CalcCommit(m)
  BY <1>5 DEF CalcTag, CalcBase, CalcCommit, At, Set
<1>6. CASE Tag(m)
  BY <1>2, <1>3, <1>6 DEF Tag
<1>7. CASE LsRemote(m)
  BY <1>2, <1>7 DEF LsRemote, At
<1>8. CASE Push(m) \/ Stop(m)
  BY <1>2, <1>8 DEF Push, Stop
<1>9. CASE FetchRefused(m)
  BY <1>9 DEF FetchRefused
<1> QED
  BY <1>1, <1>4, <1>5, <1>6, <1>7, <1>8, <1>9 DEF Script

(* What a run knows stays right, whatever it and others do.                *)
LEMMA RunStep == Inv /\ [Next]_vars => RunInv'
<1> SUFFICES ASSUME Inv, [Next]_vars, NEW q \in Maintainers PROVE RunOf(q)'
  BY DEF RunInv
<1>0. /\ TypeOK /\ History /\ RunInv /\ published \in Seq(Tags) /\ Len(published) \in Nat
      /\ main \in Commits
  BY DEF Inv, TypeOK
<1>1. ASSUME UNCHANGED <<pc, head, tracked, var>> PROVE RunOf(q)'
  BY <1>1, RunStays
<1>2. CASE MainAdvances \/ Colleague \/ Publish \/ UNCHANGED vars
  BY <1>1, <1>2 DEF MainAdvances, Colleague, Publish, vars
<1>3. ASSUME NEW m \in Maintainers, Script(m) \/ Interfere(m) \/ Stop(m), q # m PROVE RunOf(q)'
  BY <1>0, <1>3, OthersStay, RunStays
<1>4. \A pub, b, c, n : Newest(pub, b, c, n)' = Newest(pub, b, c, n)
  BY SameNewest
<1>5. \A c : Ancestors(c)' = Ancestors(c)
  BY SameNewest
<1>6. RunOf(q) /\ pc[q] \in {"idle", "tag", "base", "commit", "look", "remote", "push"}
  BY <1>0 DEF RunInv, TypeOK
<1> USE DEF Calculating
<1>7. ASSUME pc'[q] \in {"idle", "remote", "push"} PROVE RunOf(q)'
  BY <1>7 DEF RunOf
<1>8. CASE Interfere(q)
  <2>1. CASE tracked' = [tracked EXCEPT ![q] = main] /\ UNCHANGED <<head, var>>
    <3>1. /\ tracked'[q] = main /\ UNCHANGED <<pc, head, var, published>>
      BY <1>0, <1>8, <2>1 DEF Interfere, TypeOK
    <3>2. var[q].after <= Len(published) /\ var[q].after \in Nat
      BY <1>0, <1>6, <1>8 DEF RunOf, Interfere, TypeOK
    <3>3. \A i \in 1..var[q].after : published[i].base \in Ancestors(main)
      BY <1>0, <3>2, PublishedBelowMain
    <3> QED
      BY <1>0, <1>4, <1>5, <1>6, <3>1, <3>3 DEF RunOf
  <2>2. CASE /\ pc[q] \in {"base", "commit"}
             /\ head' \in {[head EXCEPT ![q] = c] : c \in Commits \ {head[q]}}
             /\ Set(q, "switched", TRUE) /\ UNCHANGED tracked
    <3>1. UNCHANGED <<pc, published>> /\ pc[q] \in {"base", "commit"}
      BY <1>8, <2>2 DEF Interfere
    <3>2. PICK c \in Commits : head' = [head EXCEPT ![q] = c]
      BY <2>2
    <3>3. head'[q] \in Commits
      BY <1>0, <3>2 DEF TypeOK
    <3>4. var' = [var EXCEPT ![q].switched = TRUE]
      BY <2>2 DEF Set
    <3>5. /\ var'[q].after = var[q].after /\ var'[q].tag = var[q].tag
          /\ var'[q].base = var[q].base /\ var'[q].switched = TRUE
      BY <1>0, <3>4 DEF TypeOK
    <3> QED
      BY <1>4, <1>5, <1>6, <2>2, <3>1, <3>3, <3>5 DEF RunOf
  <2> QED
    BY <1>8, <2>1, <2>2 DEF Interfere
<1>9. CASE Stop(q)
  BY <1>0, <1>7, <1>9 DEF Stop, End, TypeOK
<1>10. CASE Fetch(q)
  <2>1. PICK c \in Commits : head' = [head EXCEPT ![q] = c]
    BY <1>10 DEF Fetch
  <2>2. var' = [var EXCEPT ![q].after = Len(published)]
    BY <1>10 DEF Fetch, Set
  <2>3. tracked' = [tracked EXCEPT ![q] = main] /\ pc' = [pc EXCEPT ![q] = "tag"]
        /\ UNCHANGED published
    BY <1>10 DEF Fetch, Gain, At
  <2>4. /\ head'[q] \in Commits /\ tracked'[q] = main /\ pc'[q] = "tag"
        /\ var'[q].after = Len(published)
    BY <1>0, <2>1, <2>2, <2>3 DEF TypeOK
  <2> QED
    BY <1>0, <1>5, <2>3, <2>4, PublishedBelowMain DEF RunOf
<1>11. CASE CalcTag(q)
  <2>1. Result(q).tag \in Names
    BY <1>11, ResultFacts DEF CalcTag, At
  <2>2. var' = [var EXCEPT ![q].tag = Result(q).tag]
    BY <1>11 DEF CalcTag, Set
  <2>3. /\ pc[q] = "tag" /\ pc'[q] = "base" /\ UNCHANGED <<head, tracked, published>>
        /\ var'[q].after = var[q].after /\ var'[q].tag \in Names
    BY <1>0, <1>11, <2>1, <2>2 DEF CalcTag, At, TypeOK
  <2> QED
    BY <1>5, <1>6, <2>3 DEF RunOf
<1>12. CASE CalcBase(q)
  <2>1. pc[q] = "base" /\ pc'[q] = "commit" /\ UNCHANGED <<head, tracked, published>>
    BY <1>0, <1>12 DEF CalcBase, At, TypeOK
  <2>2. Result(q).base \in Commits /\ Result(q).base = MergeBase(head[q], tracked[q])
    BY <2>1, ResultFacts
  <2>3. var' = [var EXCEPT ![q].base = Result(q).base]
    BY <1>12 DEF CalcBase, Set
  <2>4. /\ var'[q].after = var[q].after /\ var'[q].tag = var[q].tag
        /\ var'[q].base = Result(q).base /\ var[q].after \in Nat
    BY <1>0, <2>3 DEF TypeOK
  <2>5. Newest(published, Result(q).base, head[q], var[q].after)
    BY <1>0, <1>6, <2>1, <2>2, <2>4, MergeBaseIsNewest DEF RunOf
  <2> QED
    BY <1>4, <1>5, <1>6, <2>1, <2>2, <2>4, <2>5 DEF RunOf
<1>13. CASE CalcCommit(q)
  <2>1. pc[q] = "commit" /\ pc'[q] = "look" /\ UNCHANGED <<head, tracked, published>>
    BY <1>0, <1>13 DEF CalcCommit, At, TypeOK
  <2>2. var' = [var EXCEPT ![q].commit = head[q]]
    BY <1>13 DEF CalcCommit, Set
  <2>3. /\ var'[q].after = var[q].after /\ var'[q].tag = var[q].tag
        /\ var'[q].base = var[q].base /\ var'[q].switched = var[q].switched
        /\ var'[q].commit = head[q]
    BY <1>0, <2>2 DEF TypeOK
  <2> QED
    BY <1>4, <1>5, <1>6, <2>1, <2>3 DEF RunOf
<1>14. CASE Tag(q)
  <2>1. CASE Tagged(q)
    BY <1>0, <1>7, <2>1 DEF Tagged, At, TypeOK
  <2>2. CASE End(q)
    BY <1>0, <1>7, <2>2 DEF End, TypeOK
  <2> QED
    BY <1>14, <2>1, <2>2 DEF Tag
<1>15. CASE LsRemote(q) \/ Push(q)
  BY <1>0, <1>7, <1>15 DEF LsRemote, Push, At, End, TypeOK
<1>16. CASE FetchRefused(q)
  BY <1>1, <1>16 DEF FetchRefused
<1> QED
  BY <1>2, <1>3, <1>8, <1>9, <1>10, <1>11, <1>12, <1>13, <1>14, <1>15, <1>16
     DEF Next, Script, Done

-----------------------------------------------------------------------------
(* Init allows only histories. *)
LEMMA InitHistory == Init => History
<1> SUFFICES ASSUME Init PROVE History
  OBVIOUS
<1>1. /\ parents \in [Commits -> UNION {[1..n -> Commits] : n \in 0..2}]
      /\ \A c \in Commits : (parents[c] = <<>> <=> c = 1) /\ \A p \in Range(parents[c]) : p < c
      /\ date \in Dates
  BY DEF Init
<1>2. ASSUME NEW c \in Commits
      PROVE  /\ Range(parents[c]) \subseteq Commits
             /\ parents[c] # <<>> => parents[c][1] \in Range(parents[c])
  <2>1. PICK n \in 0..2 : parents[c] \in [1..n -> Commits]
    BY <1>1
  <2>2. Range(parents[c]) \subseteq Commits
    BY <2>1 DEF Range
  <2>3. CASE n = 0
    <3>1. parents[c] \in Seq(Commits) /\ Len(parents[c]) = 0
      BY <2>1, <2>3
    <3>2. parents[c] = <<>>
      BY <3>1, EmptySeq
    <3> QED
      BY <2>2, <3>2
  <2>4. CASE n # 0
    BY <2>1, <2>2, <2>4 DEF Range
  <2> QED
    BY <2>3, <2>4
<1>3. date \in [Commits -> Nat] /\ \A c \in Commits : \A d \in 1..c : date[d] <= date[c]
  BY <1>1, DatesAssumption
<1>4. \A c, d \in Commits : d <= c => d \in 1..c
  BY CommitNumbers
<1> QED
  BY <1>1, <1>2, <1>3, <1>4 DEF History

(* The invariant holds at first ... *)
LEMMA InitInv == Init => Inv
<1> SUFFICES ASSUME Init PROVE Inv
  OBVIOUS
<1>1. History
  BY InitHistory
<1>2. TypeOK
  BY CommitNumbers DEF Init, TypeOK, NoRun
<1>3. RunInv /\ TagsInv /\ PublishedStaysValid
  BY DEF Init, RunInv, RunOf, Calculating, TagsInv, PublishedStaysValid
<1> QED
  BY <1>1, <1>2, <1>3 DEF Inv

(* ... and every step keeps it. *)
LEMMA NextInv == Inv /\ [Next]_vars => Inv'
<1> SUFFICES ASSUME Inv, [Next]_vars PROVE Inv'
  OBVIOUS
<1>1. History'
  BY HistoryStep, SameHistory DEF Inv
<1> QED
  BY <1>1, TypeStep, RunStep, TagsStep, ValidStep DEF Inv

(* The inductive invariant holds in every reachable state. *)
THEOREM InvHolds == Spec => []Inv
  BY InitInv, NextInv, PTL DEF Spec

(* The version of any commit can be calculated, and a tag that is made out *)
(* of one calculation, name and base, validates against the main it was    *)
(* made from and against every main that is to come (version.go 59-184;    *)
(* versioning.md 18-22).                                                   *)
CalculatedTagsValidate ==
    \A c, d \in Commits :
        LET result == Calculate(c, d, Nothing)
            tag    == [name |-> result.tag, base |-> result.base, commit |-> c]
        IN  /\ result # Nothing
            /\ \A e \in Commits : d \in Ancestors(e) => ValidateTag(tag, e)

(* What Calculate answers is never an error, in any history with one root, *)
(* and what is tagged with it is not refused later, whatever main becomes. *)
THEOREM WhatIsCalculatedValidates == Spec => []CalculatedTagsValidate
<1>1. ASSUME History, NEW c \in Commits, NEW d \in Commits
      PROVE  LET result == Calculate(c, d, Nothing)
                 tag    == [name |-> result.tag, base |-> result.base, commit |-> c]
             IN  /\ result # Nothing
                 /\ \A e \in Commits : d \in Ancestors(e) => ValidateTag(tag, e)
  <2> DEFINE b      == MergeBase(c, d)
             result == Calculate(c, d, Nothing)
             tag    == [name |-> result.tag, base |-> result.base, commit |-> c]
  <2>1. result = [tag |-> NameOf(c, b), base |-> b]
    BY <1>1, CalculateFacts
  <2>2. b \in Ancestors(c) /\ b \in Ancestors(d) /\ b \in Commits
    BY <1>1, MergeBaseFacts
  <2> HIDE DEF b, result
  <2>3. tag.name = NameOf(c, b) /\ tag.base = b /\ tag.commit = c
    BY <2>1
  <2>4. result \in Results /\ result # Nothing
    BY <1>1, <2>1, <2>2, CalculateFacts, NothingAssumption DEF Results, b
  <2>5. ASSUME NEW e \in Commits, d \in Ancestors(e) PROVE ValidateTag(tag, e)
    <3>1. b \in Ancestors(e)
      BY <1>1, <2>2, <2>5, AncestorFacts
    <3>2. Calculate(c, e, b) = [tag |-> NameOf(c, b), base |-> b]
      BY <2>2, <3>1, NothingAssumption DEF Calculate, RequireAncestor, NameOf
    <3>3. Calculate(c, e, b) # Nothing /\ Calculate(c, e, b).tag = NameOf(c, b)
      BY <2>1, <2>4, <3>2
    <3> HIDE DEF tag
    <3> QED
      BY <2>3, <3>3 DEF ValidateTag
  <2> QED
    BY <2>4, <2>5 DEF result
<1>2. Inv => CalculatedTagsValidate
  BY <1>1 DEF Inv, CalculatedTagsValidate
<1> QED
  BY <1>2, InvHolds, PTL

(* A published tag goes on validating, to the version it was published     *)
(* under, however main advances and whatever happened in the clone it was  *)
(* made in (versioning.md 18-22).                                          *)
THEOREM PublishedTagsStayValid == Spec => []PublishedStaysValid
<1>1. Inv => PublishedStaysValid
  BY DEF Inv
<1> QED
  BY <1>1, InvHolds, PTL

(* A set of commits that lacks a commit of another and is otherwise part   *)
(* of it is smaller.                                                       *)
LEMMA FewerCommits ==
    ASSUME NEW A \in SUBSET Commits, NEW B \in SUBSET A
    PROVE  /\ Cardinality(A) \in Nat /\ Cardinality(B) \in Nat
           /\ Cardinality(B) <= Cardinality(A)
           /\ A # B => Cardinality(B) < Cardinality(A)
<1>1. IsFiniteSet(A)
  BY CommitsAssumption, FS_Subset
<1>2. Cardinality(B) <= Cardinality(A) /\ IsFiniteSet(B)
      /\ (Cardinality(B) = Cardinality(A) => B = A)
  BY <1>1, FS_Subset
<1> QED
  BY <1>1, <1>2, FS_CardinalityType

(* Of two tags on one line of history the later is newer, by its main base *)
(* or, if both have the same, by its distance from it.                     *)
LEMMA NewerName ==
    ASSUME History, NEW a \in Commits, NEW b \in Commits, NEW c \in Commits, NEW d \in Commits,
           a \in FirstParents(b), a \in Ancestors(c), c \in Ancestors(d), c # d
    PROVE  /\ NameOf(c, a).date <= NameOf(d, b).date
           /\ \/ NameOf(c, a).sequence < NameOf(d, b).sequence
              \/ /\ NameOf(c, a).sequence = NameOf(d, b).sequence
                 /\ NameOf(c, a).distance < NameOf(d, b).distance
<1>1. NameOf(c, a).date <= NameOf(d, b).date
  BY FirstParentFacts DEF NameOf, History
<1>2. CASE a = b
  <2>1. Ancestors(c) \subseteq Ancestors(d) /\ Ancestors(d) \subseteq Commits
        /\ d \in Ancestors(d) /\ Ancestors(a) \subseteq Ancestors(c)
    BY AncestorFacts
  <2>2. d \notin Ancestors(c)
    <3>1. c <= d /\ (d \in Ancestors(c) => d <= c)
      BY AncestorFacts
    <3> QED
      BY <3>1, CommitNumbers
  <2>3. Cardinality(Ancestors(c) \ Ancestors(a)) < Cardinality(Ancestors(d) \ Ancestors(a))
    <3> DEFINE A == Ancestors(d) \ Ancestors(a)
               B == Ancestors(c) \ Ancestors(a)
    <3>1. A \in SUBSET Commits /\ B \in SUBSET A /\ A # B
      BY <2>1, <2>2
    <3> HIDE DEF A, B
    <3>2. Cardinality(B) < Cardinality(A)
      BY <3>1, FewerCommits
    <3> QED
      BY <3>2 DEF A, B
  <2> QED
    BY <1>1, <1>2, <2>3 DEF NameOf
<1>3. CASE a # b
  <2>1. FirstParents(a) \subseteq FirstParents(b) /\ FirstParents(b) \subseteq Commits
        /\ b \in FirstParents(b) /\ a <= b /\ (b \in FirstParents(a) => b <= a)
    BY FirstParentFacts
  <2>2. b \notin FirstParents(a)
    BY <1>3, <2>1, CommitNumbers
  <2>3. Cardinality(FirstParents(a)) < Cardinality(FirstParents(b))
    BY <2>1, <2>2, FewerCommits
  <2> QED
    BY <1>1, <2>3 DEF NameOf
<1> QED
  BY <1>2, <1>3

(* A release that descends from one that was out when it was begun is      *)
(* newer, as a version and as a CFBundleVersion, if both main bases are on *)
(* main's own line and HEAD stayed where it was while the new one was      *)
(* calculated: in every history, and whatever maintainers, their           *)
(* colleagues and origin did meanwhile (version.go 98-122, 35-40;          *)
(* release.sh 120-125).                                                    *)
THEOREM LaterReleasesAreNewer == Spec => []DescendantsAreNewer
<1>1. ASSUME Inv PROVE DescendantsAreNewer
  <2> SUFFICES ASSUME NEW i \in DOMAIN published, NEW j \in DOMAIN published,
                      i <= published[j].after, published[i].commit # published[j].commit,
                      ~published[j].switched,
                      published[i].commit \in Ancestors(published[j].commit),
                      {published[i].base, published[j].base} \subseteq FirstParents(main)
               PROVE  /\ published[i].name.date <= published[j].name.date
                      /\ \/ published[i].name.sequence < published[j].name.sequence
                         \/ /\ published[i].name.sequence = published[j].name.sequence
                            /\ published[i].name.distance < published[j].name.distance
    BY DEF DescendantsAreNewer, PlistBuild
  <2> DEFINE old == published[i]
             new == published[j]
  <2>1. /\ published \in Seq(Tags) /\ main \in Commits /\ History
        /\ DOMAIN published = 1..Len(published)
    BY <1>1 DEF Inv, TypeOK
  <2>2. old \in Tags /\ new \in Tags
    BY <2>1
  <2>3. /\ old.base \in Commits /\ old.commit \in Commits /\ new.base \in Commits
        /\ new.commit \in Commits /\ new.after \in Nat
    BY <2>2 DEF Tags
  <2>4. ValidateTag(old, main) /\ ValidateTag(new, main)
    BY <1>1 DEF Inv, PublishedStaysValid
  <2>5. /\ old.name = NameOf(old.commit, old.base) /\ new.name = NameOf(new.commit, new.base)
        /\ old.base \in Ancestors(old.commit)
    <3> HIDE DEF old, new
    <3> QED
      BY <2>1, <2>2, <2>4, ValidTags
  <2>6. old.base \in FirstParents(new.base)
    <3>1. CASE new.base \in FirstParents(old.base)
      <4>1. new.base \in Ancestors(old.base)
        BY <2>1, <2>3, <3>1, FirstParentFacts
      <4>2. old.base \in Ancestors(new.commit)
        BY <2>1, <2>3, <2>5, AncestorFacts
      <4>3. Newest(published, new.base, new.commit, new.after)
        BY <1>1, <2>1 DEF Inv, TagsInv, TagInv
      <4>4. i \in 1..new.after
        BY <2>1, <2>3
      <4>5. new.base = old.base
        BY <4>1, <4>2, <4>3, <4>4 DEF Newest
      <4> QED
        BY <3>1, <4>5
    <3>2. CASE new.base \notin FirstParents(old.base)
      BY <2>1, <3>2, FirstParentFacts
    <3> QED
      BY <3>1, <3>2
  <2> QED
    BY <2>1, <2>3, <2>5, <2>6, NewerName
<1> QED
  BY <1>1, InvHolds, PTL
=============================================================================
