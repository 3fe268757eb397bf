------------------------------ MODULE Backfill ------------------------------
(***************************************************************************)
(* `rlsbl release backfill` (internal/historyrewrite/backfill.go): every   *)
(* releasable's archives brought into the fate model from the history's    *)
(* own evidence.  A run reads tags, archives, changelog files and commits, *)
(* decides every archive at once, and then writes them one by one; it is   *)
(* killed between two of them, run again, and a person declares a version  *)
(* never released at any moment, also between its plan and its writes.     *)
(*                                                                         *)
(* A version is <<major, minor, patch>>.  A tag is the prefix its format   *)
(* spells, the version it parses as (<<>> for none) and its form.  A       *)
(* description is where it came from.                                      *)
(***************************************************************************)
EXTENDS Naturals, Sequences, FiniteSets, SequencesExt

CONSTANTS Releasables,   \* a sequence, in the order of the declarations
          Prefix,        \* the tag format of each, the bare "v" being ""
          Companions,    \* those whose members own a companion tag
          Unreadable,    \* those whose members' targets cannot be read
          Repositories,  \* what a run finds, see Init
          Overrides,     \* the reviewed descriptions a run may be given
          MaxStops, MaxEdits,   \* bounds on the kills and on people's changes
          None

VARIABLES repo,        \* commits, closed identities' tags, Release bodies, changelogs
          tags,        \* each local tag's commit
          archives,    \* the archives in the working tree, by releasable and version
          unversioned, \* the tags the record keeps outside the version model
          stash,
          run,         \* the plans left to write and what was written
          intended,    \* what the first run since a person's last change would write
          head,        \* the archives at HEAD
          said, stops, edits

vars == <<repo, tags, archives, unversioned, stash, run, intended, head, said, stops, edits>>

RequiredFields == {"bump", "include", "exclude", "description"}
Tag(prefix, version, form) == [prefix |-> prefix, version |-> version, form |-> form]

(* Every spelling a version of a releasable is addressable under; members  *)
(* whose targets cannot be read leave the companions out.                  *)
Candidates(rel, v) ==
  <<Tag(Prefix[rel], v, "primary")>>
  \o (IF rel \in Companions /\ rel \notin Unreadable THEN <<Tag(Prefix[rel], v, "companion")>> ELSE <<>>)
Scopes == ToSet(Releasables)

Less(v, w) == \/ v[1] < w[1]
              \/ v[1] = w[1] /\ v[2] < w[2]
              \/ v[1] = w[1] /\ v[2] = w[2] /\ v[3] < w[3]

(***************************************************************************)
(* What the repository records already                                     *)
(***************************************************************************)
Archived(rel) == {s[2] : s \in {t \in DOMAIN archives : t[1] = rel}}
Recorded(rel) == Archived(rel) \cup {s[2] : s \in {t \in repo.changelogs : t[1] = rel}}
Archive(rel, v) == IF <<rel, v>> \in DOMAIN archives THEN archives[<<rel, v>>] ELSE None

(* The spelling an archive names in shipped_as comes first *)
ProbeOrder(rel, v) ==
  LET a == Archive(rel, v)
  IN  IF a # None /\ a.shipped # None
      THEN <<a.shipped>> \o SelectSeq(Candidates(rel, v), LAMBDA t : t # a.shipped) ELSE Candidates(rel, v)
Known == UNION {UNION {ToSet(ProbeOrder(rel, v)) \cap DOMAIN tags : v \in Recorded(rel)} : rel \in Scopes}

(* A tag is adopted by the first releasable that would write it *)
Owners(tag) == IF tag.version = <<>> THEN <<>> ELSE SelectSeq(Releasables, LAMBDA r : tag \in ToSet(Candidates(r, tag.version)))
Adopted == {t \in DOMAIN tags \ Known : Owners(t) # <<>> /\ t.version \notin Recorded(Owners(t)[1])}
AdoptedOf(rel, v) == {t \in Adopted : Owners(t)[1] = rel /\ t.version = v}
Versions(rel) == SetToSortSeq(Recorded(rel) \cup {t.version : t \in {u \in Adopted : Owners(u)[1] = rel}}, Less)

Explained(tag) == tag \in Known \cup Adopted \cup unversioned \cup repo.closed
Unexplained == {t \in DOMAIN tags : ~ Explained(t)}

(***************************************************************************)
(* The evidence for one version                                            *)
(***************************************************************************)
BumpMessages(rel, v) ==
  {Tag("", v, "primary"), Tag("", v, "version"), Tag(rel, v, "release")} \cup ToSet(Candidates(rel, v))
BumpCommits(rel, v) == {c \in DOMAIN repo.commits : repo.commits[c].message \in BumpMessages(rel, v)}
Newest(commits) == CHOOSE c \in commits : \A d \in commits : d <= c
FirstFound(spellings) ==
  LET found == SelectSeq(spellings, LAMBDA t : t \in DOMAIN tags) IN IF found = <<>> THEN None ELSE found[1]

TagFor(rel, v) ==
  IF AdoptedOf(rel, v) # {} THEN CHOOSE t \in AdoptedOf(rel, v) : TRUE ELSE FirstFound(ProbeOrder(rel, v))
Stated(a) == a # None /\ a.fate \in {"recorded", "unrecoverable"}
Evidence(rel, v) ==
  LET tag == TagFor(rel, v) IN
  IF tag # None THEN tags[tag]
  ELSE IF Stated(Archive(rel, v)) \/ BumpCommits(rel, v) = {} THEN None ELSE Newest(BumpCommits(rel, v))

(* The released paths that existed at a commit, else the root's tree *)
TreesAt(commit, rel) ==
  LET there == repo.paths[rel] \cap repo.commits[commit].paths IN IF there = {} THEN {"."} ELSE there

(* The bump the highest-order component that moved names *)
DeriveBump(v, predecessor) ==
  <<IF v[1] # predecessor[1] THEN "major" ELSE IF v[2] # predecessor[2] THEN "minor" ELSE "patch">>

(* The first source that yields a description *)
RecoverDescription(rel, v, tag, commit, predecessor) ==
  CASE tag # None /\ tag \in repo.bodies -> <<"release", tag>>
    [] (tag = None \/ tag \notin repo.bodies) /\ <<rel, v>> \in repo.sections -> <<"section", v>>
    [] OTHER ->
         LET previous == IF predecessor = <<0, 0, 0>> THEN None ELSE FirstFound(Candidates(rel, predecessor))
             first == IF previous = None THEN 0 ELSE tags[previous]
         IN  IF commit # None /\ first < commit THEN <<"subjects", first, commit>> ELSE <<"placeholder">>

(***************************************************************************)
(* The plan for one version's archive                                      *)
(***************************************************************************)
Missing(a) == RequiredFields \ DOMAIN a.fields

PlanVersion(rel, v, predecessor, given) ==
  LET a == Archive(rel, v)
      tag == TagFor(rel, v)
      commit == Evidence(rel, v)
      override == IF v \in DOMAIN given THEN given[v] ELSE None
      subject == IF a # None /\ Stated(a) THEN a.commit ELSE commit
      value(f) == CASE f = "bump" -> DeriveBump(v, predecessor)
                    [] f = "include" -> <<"detected">>
                    [] f = "exclude" -> <<"nothing">>
                    [] OTHER -> IF override # None THEN override
                                ELSE RecoverDescription(rel, v, tag, IF subject # None THEN subject ELSE commit, predecessor)
      fields == IF a = None THEN RequiredFields
                ELSE Missing(a) \cup (IF override # None /\ "description" \in DOMAIN a.fields
                                        THEN (IF a.fields["description"] = override THEN {} ELSE {"description"}) ELSE {})
  IN  [rel |-> rel, version |-> v, exists |-> a # None,
       fills |-> [f \in fields |-> value(f)],
       fate |-> IF Stated(a) THEN None ELSE IF commit = None THEN "unrecoverable" ELSE "recorded",
       commit |-> IF Stated(a) THEN None ELSE commit,
       paths |-> IF Stated(a) \/ commit = None THEN {} ELSE TreesAt(commit, rel)]

Settled(a) == a # None /\ a.fate = "never"
PredecessorArchived(rel, v) ==
  LET below == SelectSeq(Versions(rel), LAMBDA w : Less(w, v) /\ w \in Archived(rel)) IN IF below = <<>> THEN <<0, 0, 0>> ELSE Last(below)
(* The version below it, whatever records that version *)
Predecessor(rel, v) ==
  LET below == SelectSeq(Versions(rel), LAMBDA w : Less(w, v)) IN IF below = <<>> THEN <<0, 0, 0>> ELSE Last(below)
PlanOf(rel, given) ==
  LET vs == Versions(rel)
      plans == [i \in DOMAIN vs |-> PlanVersion(rel, vs[i], Predecessor(rel, vs[i]), given)]
  IN  SelectSeq(plans, LAMBDA p : ~ Settled(Archive(rel, p.version)) /\ (~ p.exists \/ p.fate # None \/ DOMAIN p.fills # {}))
Plan(given) == FlattenSeq([i \in DOMAIN Releasables |-> PlanOf(Releasables[i], given)])

UnknownOverride(given) == \E v \in DOMAIN given : \A r \in Scopes : v \notin ToSet(Versions(r))
NeverReleasedOverride(given) == \E v \in DOMAIN given : \E r \in Scopes : Settled(Archive(r, v))
Refused(given) == UnknownOverride(given) \/ NeverReleasedOverride(given) \/ Unexplained # {} \/ stash

(***************************************************************************)
(* Writing one archive                                                     *)
(***************************************************************************)
Put(f, k, x) == [j \in DOMAIN f \cup {k} |-> IF j = k THEN x ELSE f[j]]
Materialized(p) == [fields |-> p.fills, fate |-> p.fate, commit |-> p.commit, paths |-> p.paths, shipped |-> None]
Completed(a, p) ==
  [a EXCEPT !.fields = [f \in DOMAIN a.fields \cup DOMAIN p.fills |-> IF f \in DOMAIN p.fills THEN p.fills[f] ELSE a.fields[f]],
            !.fate = IF p.fate = None THEN @ ELSE p.fate,
            !.commit = IF p.fate = None THEN @ ELSE p.commit,
            !.paths = IF p.fate = None THEN @ ELSE p.paths]
Written(tree, p) ==
  LET s == <<p.rel, p.version>>
  IN  Put(tree, s, IF p.exists /\ s \in DOMAIN tree THEN Completed(tree[s], p) ELSE Materialized(p))

(* An archive states one fate: read again as it is written *)
ArchiveRefuses(p, a) ==
  \/ (a # None) # p.exists
  \/ a # None /\ p.fate = "recorded" /\ a.fate \in {"unrecoverable", "never"}
  \/ a # None /\ p.fate = "unrecoverable" /\ a.fate \in {"recorded", "never"}

(***************************************************************************)
(* A run                                                                   *)
(***************************************************************************)
Idle == run = None
Outcome(plan) == FoldLeft(Written, archives, plan)

Begin(given, commit) ==
  /\ Idle /\ said # "done"
  /\ ~ Refused(given)
  /\ run' = [left |-> Plan(given), given |-> given, commit |-> commit, written |-> {}]
  /\ intended' = IF intended = None \/ intended.given # given THEN [given |-> given, archives |-> Outcome(Plan(given))] ELSE intended
  /\ said' = "applying"
  /\ UNCHANGED <<repo, tags, archives, unversioned, stash, head, stops, edits>>

Refuse(given) ==
  /\ Idle /\ said # "refused"
  /\ Refused(given)
  /\ said' = "refused"
  /\ UNCHANGED <<repo, tags, archives, unversioned, stash, run, intended, head, stops, edits>>

ApplyVersion ==
  /\ ~ Idle /\ run.left # <<>>
  /\ LET p == Head(run.left)
         s == <<p.rel, p.version>>
     IN  IF ArchiveRefuses(p, Archive(p.rel, p.version))
         THEN run' = None /\ said' = "failed" /\ UNCHANGED archives
         ELSE /\ archives' = Written(archives, p)
              /\ run' = [run EXCEPT !.left = Tail(@), !.written = @ \cup {s}]
              /\ UNCHANGED said
  /\ UNCHANGED <<repo, tags, unversioned, stash, intended, head, stops, edits>>

(* With --auto-commit, the archives this run wrote, and only those *)
Finish ==
  /\ ~ Idle /\ run.left = <<>>
  /\ head' = IF run.commit
             THEN [s \in DOMAIN head \cup run.written |-> IF s \in run.written THEN archives[s] ELSE head[s]] ELSE head
  /\ run' = None /\ said' = "done"
  /\ UNCHANGED <<repo, tags, archives, unversioned, stash, intended, stops, edits>>

Stop ==
  /\ ~ Idle /\ stops < MaxStops /\ stops' = stops + 1
  /\ run' = None /\ said' = "stopped"
  /\ UNCHANGED <<repo, tags, archives, unversioned, stash, intended, head, edits>>

(***************************************************************************)
(* People: the declaration of a version never released, at any moment; the *)
(* ways out of an unexplained tag; a stash put away                        *)
(***************************************************************************)
Edit == edits < MaxEdits /\ edits' = edits + 1 /\ intended' = None /\ UNCHANGED <<repo, run, head, stops>>
Answered == [f \in RequiredFields |-> <<"person">>]
DeclareNeverReleased(rel, v) ==
  /\ Edit
  /\ Archive(rel, v) # None => Archive(rel, v).fate = None
  /\ archives' = Put(archives, <<rel, v>>, [fields |-> Answered, fate |-> "never", commit |-> None, paths |-> {}, shipped |-> None])
  /\ said' = IF Idle THEN "edited" ELSE said
  /\ UNCHANGED <<tags, unversioned, stash>>
RecordShippedAs(rel, tag) ==
  /\ Edit /\ Idle
  /\ tag \in Unexplained /\ tag.version # <<>> /\ tag.form = "old"
  /\ <<rel, tag.version>> \notin DOMAIN archives
  /\ archives' = Put(archives, <<rel, tag.version>>, [fields |-> <<>>, fate |-> None, commit |-> None, paths |-> {}, shipped |-> tag])
  /\ said' = "edited" /\ UNCHANGED <<tags, unversioned, stash>>
RecordUnversioned(tag) ==
  /\ Edit /\ Idle
  /\ tag \in DOMAIN tags \ unversioned
  /\ unversioned' = unversioned \cup {tag}
  /\ said' = "edited" /\ UNCHANGED <<tags, archives, stash>>
DeleteTag(tag) ==
  /\ Edit /\ Idle
  /\ tag \in Unexplained
  /\ tags' = [t \in DOMAIN tags \ {tag} |-> tags[t]]
  /\ said' = "edited" /\ UNCHANGED <<archives, unversioned, stash>>
PopStash ==
  /\ Edit /\ Idle /\ stash /\ stash' = FALSE
  /\ said' = "edited" /\ UNCHANGED <<tags, archives, unversioned>>

Init == \E r \in Repositories :
  /\ repo = [commits |-> r.commits, paths |-> r.paths, closed |-> r.closed, bodies |-> r.bodies,
             sections |-> r.sections, changelogs |-> r.changelogs]
  /\ tags = r.tags /\ archives = r.archives /\ head = r.archives
  /\ unversioned = {} /\ stash = r.stash
  /\ run = None /\ intended = None /\ said = "nothing" /\ stops = 0 /\ edits = 0

Next ==
  \/ \E given \in Overrides : Refuse(given) \/ \E commit \in BOOLEAN : Begin(given, commit)
  \/ ApplyVersion \/ Finish \/ Stop \/ PopStash
  \/ \E rel \in Scopes : \E v \in UNION {Recorded(r) : r \in Scopes} : DeclareNeverReleased(rel, v)
  \/ \E t \in DOMAIN tags : RecordUnversioned(t) \/ DeleteTag(t) \/ \E rel \in Scopes : RecordShippedAs(rel, t)

Spec == Init /\ [][Next]_vars

(***************************************************************************)
(* Properties                                                              *)
(***************************************************************************)

(* A backfill that says it is done left nothing for the next one: planned *)
(* again, every archive is settled and every tag explained, so what one   *)
(* run writes is what the next one reads as complete.                     *)
NothingLeft == said = "done" => ~ Refused(intended.given) /\ Plan(intended.given) = <<>>

(* Killed runs, run again until one is done, write exactly the archives   *)
(* one run would have written: every decision rests on evidence a half    *)
(* applied plan leaves as it was.                                         *)
KillsChangeNothing == said = "done" => archives = intended.archives

(* What a person declared never released, whenever they did, stays        *)
(* declared: a plan made before the declaration does not write a release  *)
(* over it (CompleteArchive, WriteArchive).                               *)
NeverReleasedStands ==
  [][\A s \in DOMAIN archives : archives[s].fate = "never" => s \in DOMAIN archives' /\ archives'[s] = archives[s]]_vars

(* A backfill run until it is done has done all of it, and nothing else    *)
(* than one run would have.                                                *)
RunAgainAgrees == NothingLeft /\ KillsChangeNothing
=============================================================================
