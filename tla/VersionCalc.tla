---------------------------- MODULE VersionCalc ----------------------------
(***************************************************************************)
(* internal/versioncalc/version.go: versions out of a complete git history *)
(* with one root.  A commit is a number larger than those of its parents;  *)
(* an error is Nothing.  Hashes, and the formats of tags and refs, are     *)
(* abstracted to the commits and records they stand for.                   *)
(***************************************************************************)
EXTENDS Integers, FiniteSets, Functions

CONSTANTS Commits, Nothing

ASSUME CommitsAssumption ==
    IsFiniteSet(Commits) /\ Commits # {} /\ Commits = 1..Cardinality(Commits)

(* A version, and what Calculate answers with. *)
Names   == [date : Nat, sequence : Nat, distance : Nat, commit : Commits]
Results == [tag : Names, base : Commits]

ASSUME NothingAssumption == Nothing \notin Commits /\ Nothing \notin Results

VARIABLES
    parents,  \* external: the parents of each commit, the first one first
    date      \* external: the committer's day

Ancestors(c) ==
    LET up[d \in Commits] == {d} \cup UNION {up[p] : p \in Range(parents[d])}
    IN  up[c]

FirstParents(c) ==
    LET line[d \in Commits] ==
            {d} \cup IF parents[d] = <<>> THEN {} ELSE line[parents[d][1]]
    IN  line[c]

(* git merge-base: one of the common ancestors that are not above another. *)
MergeBase(c, d) ==
    LET common == Ancestors(c) \cap Ancestors(d)
    IN  CHOOSE b \in common : \A a \in common : a = b \/ b \notin Ancestors(a)

(* requireAncestor *)
RequireAncestor(a, c) == a \in Ancestors(c)

(* Mutants: the recorded base is not used; the distance is the other way   *)
(* round.                                                                  *)
CalculateAfresh(head, main, recorded) ==
    LET base == MergeBase(head, main)
    IN  [tag |-> [date |-> date[base], sequence |-> Cardinality(FirstParents(base)),
                  distance |-> Cardinality(Ancestors(head) \ Ancestors(base)),
                  commit |-> head],
         base |-> base]
CalculateSwapped(head, main, recorded) ==
    LET base == IF recorded = Nothing THEN MergeBase(head, main) ELSE recorded
    IN  IF RequireAncestor(base, main) /\ RequireAncestor(base, head)
        THEN [tag |-> [date |-> date[base], sequence |-> Cardinality(FirstParents(base)),
                       distance |-> Cardinality(Ancestors(base) \ Ancestors(head)),
                       commit |-> head],
              base |-> base]
        ELSE Nothing

(* Calculate: main is what resolveMain found, recorded is options.MainBase. *)
Calculate(head, main, recorded) ==
    LET base == IF recorded = Nothing THEN MergeBase(head, main) ELSE recorded
    IN  IF RequireAncestor(base, main) /\ RequireAncestor(base, head)
        THEN [tag |-> [date |-> date[base], sequence |-> Cardinality(FirstParents(base)),
                       distance |-> Cardinality(Ancestors(head) \ Ancestors(base)),
                       commit |-> head],
              base |-> base]
        ELSE Nothing

(* ValidateTag: an annotated tag names a version, is on a commit and       *)
(* records one main base.                                                  *)
ValidateTag(tag, main) ==
    LET result == Calculate(tag.commit, main, tag.base)
    IN  result # Nothing /\ result.tag = tag.name

(* ParsePlistVersions: CFBundleVersion. *)
PlistBuild(name) == <<name.sequence, name.distance, 0>>
=============================================================================
