------------------------------ MODULE Release ------------------------------
(***************************************************************************)
(* release.sh 103-174 and the release workflow: maintainers tag commits,   *)
(* each in a clone, and a pushed tag is published once the workflow has    *)
(* validated it.  Meanwhile the default branch advances, a clone may be    *)
(* fetched into or check out another commit, and a run may end between any *)
(* two steps and be started again.                                         *)
(***************************************************************************)
EXTENDS VersionCalc, SequencesExt

CONSTANTS Maintainers,
          Dates,    \* bound: the days of the commits
          MaxRuns,  \* bound: runs of release.sh by one maintainer
          MaxInterferences  \* bound: what others do during runs

(* Dates do not run backwards along history, whose commits are numbered    *)
(* accordingly.                                                            *)
ASSUME DatesAssumption ==
    /\ Dates \subseteq [Commits -> Nat]
    /\ \A f \in Dates, c \in Commits : \A d \in 1..c : f[d] <= f[c]

VARIABLES
    main,       \* external: origin's default branch
    remote,     \* external: the tags on origin
    published,  \* external: the tags whose packages were published, in order
    tags,       \* the tags of each clone
    pc,         \* where its release.sh is, "idle" without one
    head,       \* HEAD and origin/HEAD of the clone, while it runs
    tracked,
    var,        \* TAG, MAIN_BASE and RELEASE_COMMIT of the run; history:
                \* how many tags were published before it, and whether HEAD was
                \* switched between the calculations
    runs, interferences

history == <<parents, date>>
vars == <<history, main, remote, published, head, tracked, tags, pc, var, runs,
          interferences>>

NoRun == [tag |-> Nothing, base |-> Nothing, commit |-> Nothing, after |-> 0,
          switched |-> FALSE]

(* A tag is made once, by a maintainer's run or in another clone.          *)
Tags  == [name : Names, base : Commits, commit : Commits, after : Nat, switched : BOOLEAN,
          by : Maintainers \cup {Nothing}]

TypeOK ==
    /\ main \in Commits
    /\ remote \subseteq Tags /\ published \in Seq(Tags)
    /\ tags \in [Maintainers -> SUBSET Tags]
    /\ pc \in [Maintainers -> {"idle", "tag", "base", "commit", "look", "remote", "push"}]
    /\ head \in [Maintainers -> Commits \cup {Nothing}]
    /\ tracked \in [Maintainers -> Commits \cup {Nothing}]
    /\ var \in [Maintainers -> [tag : Names \cup {Nothing}, base : Commits \cup {Nothing},
                               commit : Commits \cup {Nothing}, after : Nat,
                               switched : BOOLEAN]]

Init ==
    /\ parents \in {f \in [Commits -> UNION {[1..n -> Commits] : n \in 0..2}] :
                        \A c \in Commits : /\ f[c] = <<>> <=> c = 1
                                           /\ \A p \in Range(f[c]) : p < c
                                           /\ IsInjective(f[c])}
    /\ \A c \in Commits :  \* git merge does nothing for an ancestor
           Len(parents[c]) = 2 => parents[c][2] \notin Ancestors(parents[c][1])
    /\ date \in Dates
    /\ main = 1 /\ remote = {} /\ published = <<>>
    /\ tags = [m \in Maintainers |-> {}] /\ pc = [m \in Maintainers |-> "idle"]
    /\ head = [m \in Maintainers |-> Nothing] /\ tracked = head
    /\ var = [m \in Maintainers |-> NoRun] /\ runs = [m \in Maintainers |-> 0]
    /\ interferences = 0

At(m, here, next) == pc[m] = here /\ pc' = [pc EXCEPT ![m] = next]
Set(m, field, value) == var' = [var EXCEPT ![m][field] = value]

(* The run is over, well or not. *)
End(m) ==
    /\ pc' = [pc EXCEPT ![m] = "idle"]
    /\ head' = [head EXCEPT ![m] = Nothing] /\ tracked' = [tracked EXCEPT ![m] = Nothing]
    /\ var' = [var EXCEPT ![m] = NoRun]

-----------------------------------------------------------------------------
(* The surroundings. *)

(* Main is never rewritten: it moves to a descendant. *)
MainAdvances ==
    /\ main' \in {c \in Commits : c # main /\ main \in Ancestors(c)}
    /\ UNCHANGED <<history, remote, published, head, tracked, tags, pc, var, runs, interferences>>

(* An editor or another terminal fetches, or checks out another commit     *)
(* between the calculations: before them it is the commit the run starts   *)
(* on, and after them HEAD is not read any more.                           *)
Interfere(m) ==
    /\ pc[m] \in {"tag", "base", "commit", "look"}
    /\ interferences < MaxInterferences /\ interferences' = interferences + 1
    /\ \/ /\ tracked[m] # main /\ tracked' = [tracked EXCEPT ![m] = main]
          /\ UNCHANGED <<head, var>>
       \/ /\ pc[m] \in {"base", "commit"}
          /\ head' \in {[head EXCEPT ![m] = c] : c \in Commits \ {head[m]}}
          /\ Set(m, "switched", TRUE)
          /\ UNCHANGED tracked
    /\ UNCHANGED <<history, main, remote, published, tags, pc, runs>>

Named(set, name) == {t \in set : t.name = name}

(* A release from another clone, before or during a run of this one.       *)
Colleague ==
    /\ \E m \in Maintainers : pc[m] # "idle" \/ runs[m] < MaxRuns
    /\ interferences < MaxInterferences /\ interferences' = interferences + 1
    /\ \E c \in Commits :
           LET result == Calculate(c, main, Nothing)
           IN  /\ Named(remote, result.tag) = {}
               /\ remote' = remote \cup {[name |-> result.tag, base |-> result.base,
                                          commit |-> c, after |-> Len(published),
                                          switched |-> FALSE, by |-> Nothing]}
    /\ UNCHANGED <<history, main, published, head, tracked, tags, pc, var, runs>>

(* Ctrl+C, a lost network.  A run that has not tagged leaves nothing.      *)
Stop(m) ==
    /\ pc[m] \in {"remote", "push"}
    /\ End(m)
    /\ UNCHANGED <<history, main, remote, published, tags, runs, interferences>>

-----------------------------------------------------------------------------
(* git fetch --tags gains the tags of origin, but does not replace one.    *)
Gain(m) ==
    /\ pc[m] = "idle" /\ runs[m] < MaxRuns /\ runs' = [runs EXCEPT ![m] = @ + 1]
    /\ tags' = [tags EXCEPT ![m] = @ \cup
                    {t \in remote : \A own \in @ : own.name # t.name}]
    /\ UNCHANGED <<history, main, remote, published, interferences>>

(* Origin has another tag of the same name. *)
Clash(m) == \E t \in remote, own \in tags[m] : own.name = t.name /\ own # t

Fetch(m) ==
    /\ Gain(m) /\ ~Clash(m)
    /\ At(m, "idle", "tag")
    /\ head' \in {[head EXCEPT ![m] = c] : c \in Commits}
    /\ tracked' = [tracked EXCEPT ![m] = main]
    /\ Set(m, "after", Len(published))

(* It fails, and with it the run, until somebody deletes the clone's tag.  *)
FetchRefused(m) == Gain(m) /\ Clash(m) /\ UNCHANGED <<head, tracked, pc, var>>

Result(m) == Calculate(head[m], tracked[m], Nothing)

(* Four runs of workmuch-version; VERSION is in the tag's message only.    *)
CalcTag(m) ==
    /\ At(m, "tag", "base") /\ Set(m, "tag", Result(m).tag)
    /\ UNCHANGED <<history, main, remote, published, head, tracked, tags, runs, interferences>>

CalcBase(m) ==
    /\ At(m, "base", "commit") /\ Set(m, "base", Result(m).base)
    /\ UNCHANGED <<history, main, remote, published, head, tracked, tags, runs, interferences>>

CalcCommit(m) ==
    /\ At(m, "commit", "look") /\ Set(m, "commit", head[m])
    /\ UNCHANGED <<history, main, remote, published, head, tracked, tags, runs, interferences>>

(* validate_existing_tag *)
ValidExisting(m) ==
    \A t \in Named(tags[m], var[m].tag) :
        /\ ValidateTag(t, tracked[m])
        /\ t.commit = var[m].commit /\ t.base = var[m].base

(* An existing tag has to be the one this run would make.  From here on    *)
(* the run only needs its name.                                            *)
Tagged(m) ==
    /\ At(m, "look", "remote")
    /\ head' = [head EXCEPT ![m] = Nothing] /\ tracked' = [tracked EXCEPT ![m] = Nothing]
    /\ var' = [var EXCEPT ![m] = [NoRun EXCEPT !.tag = var[m].tag]]

Tag(m) ==
    /\ pc[m] = "look"
    /\ IF Named(tags[m], var[m].tag) = {}
       THEN /\ Tagged(m)
            /\ tags' = [tags EXCEPT ![m] = @ \cup {[name |-> var[m].tag, base |-> var[m].base,
                                                    commit |-> var[m].commit,
                                                    after |-> var[m].after,
                                                    switched |-> var[m].switched,
                                                    by |-> m]}]
       ELSE /\ UNCHANGED tags
            /\ IF ValidExisting(m) THEN Tagged(m) ELSE End(m)
    /\ UNCHANGED <<history, main, remote, published, runs, interferences>>

(* git ls-remote: a tag that is on origin already ends the run, well or not. *)
LsRemote(m) ==
    /\ pc[m] = "remote"
    /\ IF Named(remote, var[m].tag) # {} THEN End(m)
       ELSE At(m, "remote", "push") /\ UNCHANGED <<head, tracked, var>>
    /\ UNCHANGED <<history, main, remote, published, tags, runs, interferences>>

(* git push of a tag that somebody else has pushed meanwhile is rejected.  *)
Push(m) ==
    /\ pc[m] = "push" /\ End(m)
    /\ remote' = IF Named(remote, var[m].tag) = {}
                 THEN remote \cup Named(tags[m], var[m].tag) ELSE remote
    /\ UNCHANGED <<history, main, published, tags, runs, interferences>>

Script(m) ==
    \/ Fetch(m) \/ FetchRefused(m) \/ CalcTag(m) \/ CalcBase(m) \/ CalcCommit(m)
    \/ Tag(m) \/ LsRemote(m) \/ Push(m)

(* The workflow fetches, validates and publishes.  Tags pushed before      *)
(* another one may come after it.                                          *)
Publish ==
    \E t \in remote :
        /\ ~Contains(published, t) /\ ValidateTag(t, main)
        /\ published' = Append(published, t)
        /\ UNCHANGED <<history, main, remote, head, tracked, tags, pc, var, runs, interferences>>

Done == (\A m \in Maintainers : pc[m] = "idle" /\ runs[m] = MaxRuns) /\ UNCHANGED vars

Next ==
    \/ MainAdvances \/ Colleague \/ Publish \/ Done
    \/ \E m \in Maintainers : Script(m) \/ Interfere(m) \/ Stop(m)

Spec == Init /\ [][Next]_vars

-----------------------------------------------------------------------------
(* A published tag goes on validating, to the version it was published     *)
(* under, while main advances: "the result remains reproducible"           *)
(* (versioning.md 18-22), whatever happened in the clone it was made in.   *)
PublishedStaysValid ==
    \A i \in DOMAIN published : ValidateTag(published[i], main)

(* A release that descends from one that was out when it was begun is      *)
(* newer, as a version and as a CFBundleVersion, if both main bases are on *)
(* main's own line and HEAD stayed where it was while the new one was      *)
(* calculated (version.go 98-122, 35-40; release.sh 120-125).              *)
DescendantsAreNewer ==
    \A i, j \in DOMAIN published :
        LET old == published[i]  new == published[j]
            Less(s, t) == s[1] < t[1] \/ (s[1] = t[1] /\ s[2] < t[2])
        IN  /\ i <= new.after /\ old.commit # new.commit /\ ~new.switched
            /\ old.commit \in Ancestors(new.commit)
            /\ {old.base, new.base} \subseteq FirstParents(main)
            => /\ old.name.date <= new.name.date
               /\ Less(PlistBuild(old.name), PlistBuild(new.name))
=============================================================================
