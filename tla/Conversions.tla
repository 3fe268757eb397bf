---------------------------- MODULE Conversions ----------------------------
(***************************************************************************)
(* One releasable that moves between a workspace and a repository of its   *)
(* own: `rlsbl monorepo extract` and `rlsbl monorepo absorb`               *)
(* (internal/monorepo/extract.go, absorb.go), each observed, applied step  *)
(* by step, killed anywhere and run again, with people committing,         *)
(* releasing and editing between.                                          *)
(*                                                                         *)
(* A piece of work is one commit to the releasable.  A record (a changelog *)
(* entry, an archive) names it by the id it has in the workspace or by the *)
(* id it has in the standalone repository: a rewrite gives every commit a  *)
(* new id, so a record carried without its ids being mapped names nothing. *)
(***************************************************************************)
EXTENDS Naturals, FiniteSets

CONSTANTS MaxWork,         \* commits to the releasable
          MaxVersion,      \* releases of it
          MaxStops,        \* kills and failing calls
          MaxConversions,  \* conversions that finish
          Meanwhile        \* whether people commit while a command runs

ConversionsAssumption ==
  /\ MaxWork \in Nat \ {0} /\ MaxVersion \in Nat \ {0}
  /\ MaxStops \in Nat /\ MaxConversions \in Nat
  /\ Meanwhile \in BOOLEAN

(* "w" is the workspace and "s" the standalone repository: the target of   *)
(* an extract, the source of an absorb.  Each has its tag scheme.          *)
Repos == {"w", "s"}
Works == 1..MaxWork
Versions == 1..MaxVersion

NoRecords == [entries |-> {}, archives |-> {}]

(* What git tracks of the releasable: its files, the declaration of its    *)
(* member, its records, its version (0 for none), the transition record,   *)
(* and the records an absorbed member still carries in its own directory.  *)
Empty == [files |-> {}, declared |-> FALSE, records |-> NoRecords,
          version |-> 0, events |-> {}, copies |-> NoRecords]

(* Tags are named by a scheme and a version; 0 is no tag.                  *)
NoTags == [t \in Repos \X Versions |-> 0]

(* The items of each preview, an item with two writes as two steps.        *)
ExtractSteps == {"e-clone", "e-trees", "e-state", "e-tags", "e-commit",
                 "e-record", "e-edit", "e-source"}
AbsorbSteps == {"a-clone", "a-merge", "a-tags", "a-state", "a-copies", "a-declare",
                "a-commit", "a-scaffold", "a-record", "a-append"}

VARIABLES
  there,   \* whether the standalone repository's directory exists
  works,   \* the work whose commits each repository's history holds
  head,    \* the last commit of each
  tree,    \* the working tree of each
  tags,    \* the tags of each
  merged,  \* whether the workspace's history holds an absorb's merge
  pc,      \* the running conversion's next step
  plan,    \* what its observation found
  run,     \* what its apply learned: commit map, tag maps, remaps
  count,   \* conversions that finished
  stops,   \* kills and failing calls
  last     \* the newest work
vars == <<there, works, head, tree, tags, merged, pc, plan, run, count, stops, last>>

Clean(r) == tree[r] = head[r]

(* A commit of everything changed in r, whose content becomes c.           *)
Committed(r, c) ==
  /\ head' = [head EXCEPT ![r] = c]
  /\ tree' = [tree EXCEPT ![r] = c]

NoPlan == [content |-> Empty, tags |-> NoTags]
NoRun == [map |-> {}, tagMaps |-> {}, remaps |-> {}]

(* Work done where it was born; its first commit has its changelog entry.  *)
Born(r) ==
  [Empty EXCEPT !.files = {1}, !.declared = TRUE,
                !.records = [entries |-> {[work |-> 1, ids |-> r]}, archives |-> {}]]

Init ==
  /\ \E home \in Repos :
       /\ there = (home = "s")
       /\ works = [r \in Repos |-> IF r = home THEN {1} ELSE {}]
       /\ head = [r \in Repos |-> IF r = home THEN Born(r) ELSE Empty]
  /\ tree = head
  /\ tags = [r \in Repos |-> NoTags]
  /\ merged = FALSE
  /\ pc = "idle" /\ plan = NoPlan /\ run = NoRun
  /\ count = 0 /\ stops = 0 /\ last = 1

(***************************************************************************)
(* Carrying records through a rewrite: conversion.go.                      *)
(***************************************************************************)
Spelled(rec, r) == [rec EXCEPT !.ids = r]

(* carryEntries: an entry whose commit the rewrite mapped takes the new    *)
(* id, and one whose commit it did not is dropped.                         *)
CarryEntriesBackwards(entries, to, map) ==
  {e \in entries : e.ids = to /\ e.work \in map}
CarryEntries(entries, to, map) ==
  {Spelled(e, to) : e \in {x \in entries : x.ids # to /\ x.work \in map}}

(* planArchiveRemap: an archive whose release commit the rewrite carried   *)
(* is moved, and any other is left as recorded.                            *)
Moves(archives, to, map) == {a \in archives : a.ids # to /\ a.work \in map}
CarryArchivesAsRecorded(archives, to, map) == archives
CarryArchives(archives, to, map) ==
  (archives \ Moves(archives, to, map))
    \cup {Spelled(a, to) : a \in Moves(archives, to, map)}

VersionsOf(archives) == {a.version : a \in archives}
TaggedIn(ts, scheme) == {v \in Versions : ts[<<scheme, v>>] # 0}

Refuse == pc' = "idle" /\ plan' = NoPlan /\ run' = NoRun
Finish == Refuse /\ count' = count + 1

(***************************************************************************)
(* Extract.                                                                *)
(***************************************************************************)
(* observeDeparture: every refusal is made here, and the trees, the tags   *)
(* and the source's edited declarations are decided here.                  *)
NewNamesFree ==
  \A v \in TaggedIn(tags["w"], "w") :
    tags["w"][<<"s", v>>] \in {0, tags["w"][<<"w", v>>]}
ObserveExtract ==
  /\ pc = "idle" /\ count < MaxConversions
  /\ head["w"].declared /\ head["w"].files # {}
  /\ ~there
  /\ Clean("w")
  /\ NewNamesFree
  /\ plan' = [content |-> head["w"], tags |-> tags["w"]]
  /\ run' = NoRun
  /\ pc' = "e-clone"
  /\ UNCHANGED <<there, works, head, tree, tags, merged, count, stops, last>>

(* applyHistory: the lock, the working tree once more, and the clone with  *)
(* its history rewritten down to the member.                               *)
CloneWorkspace ==
  /\ pc = "e-clone" /\ ~there
  /\ IF Clean("w")
     THEN /\ there' = TRUE
          /\ works' = [works EXCEPT !["s"] = works["w"]]
          /\ Committed("s", [Empty EXCEPT !.files = head["w"].files])
          /\ tags' = [tags EXCEPT !["s"] = tags["w"]]
          /\ run' = [run EXCEPT !.map = works["w"]]
          /\ pc' = "e-trees" /\ UNCHANGED plan
     ELSE Refuse /\ UNCHANGED <<there, works, head, tree, tags>>
  /\ UNCHANGED <<merged, count, stops, last>>

(* applyTrees: what arrived must be the tree that was observed.            *)
VerifyTrees ==
  /\ pc = "e-trees"
  /\ IF head["s"].files = plan.content.files
     THEN pc' = "e-state" /\ UNCHANGED <<plan, run>>
     ELSE Refuse
  /\ UNCHANGED <<there, works, head, tree, tags, merged, count, stops, last>>

(* applyState: the records are read where they lie now.                    *)
CopyRecords ==
  /\ pc = "e-state"
  /\ LET from == tree["w"].records
     IN /\ tree' = [tree EXCEPT !["s"].records =
                      [entries |-> CarryEntries(from.entries, "s", run.map),
                       archives |-> CarryArchives(from.archives, "s", run.map)],
                                !["s"].version = plan.content.version]
        /\ run' = [run EXCEPT !.remaps =
                     VersionsOf(Moves(from.archives, "s", run.map))]
  /\ pc' = "e-tags"
  /\ UNCHANGED <<there, works, head, tags, merged, plan, count, stops, last>>

(* applyTags: every own tag takes the destination's scheme; the current    *)
(* version keeps its old name beside it.                                   *)
TranslateTags ==
  /\ pc = "e-tags"
  /\ LET moved == TaggedIn(plan.tags, "w") \cap TaggedIn(tags["s"], "w")
         kept == {plan.content.version}
     IN /\ tags' = [tags EXCEPT !["s"] =
                      [t \in Repos \X Versions |->
                         CASE t[1] = "s" /\ t[2] \in moved -> tags["s"][<<"w", t[2]>>]
                           [] t[1] = "w" /\ t[2] \in moved \ kept -> 0
                           [] OTHER -> tags["s"][t]]]
        /\ run' = [run EXCEPT !.tagMaps = moved]
  /\ pc' = "e-commit"
  /\ UNCHANGED <<there, works, head, tree, merged, plan, count, stops, last>>

(* eventsOf and scopedTo: the events about the releasable travel with it,  *)
(* without the departures from a repository it is no longer in.            *)
Travelling(events) == {e \in events : e[2] # "departed"}

(* observeDestination's declarations and records, and applyDestination,    *)
(* which writes and commits them.                                          *)
Arrived == [tree["s"] EXCEPT !.declared = TRUE, !.events = Travelling(plan.content.events)]
CommitDestination ==
  /\ pc = "e-commit"
  /\ Committed("s", Arrived)
  /\ pc' = "e-record"
  /\ UNCHANGED <<there, works, tags, merged, plan, run, count, stops, last>>

(* The events of one conversion: itself, then what elaborates it.          *)
EventsOf(direction, alias) ==
  {<<direction, "conversion">>}
    \cup (IF run.tagMaps # {} THEN {<<direction, "tag-map">>} ELSE {})
    \cup (IF run.remaps # {} THEN {<<direction, "remap">>} ELSE {})
    \cup (IF alias THEN {<<direction, "alias">>} ELSE {})

(* applyRecord.                                                            *)
RecordDestination ==
  /\ pc = "e-record"
  /\ LET alias == plan.content.version \in run.tagMaps
     IN Committed("s", [tree["s"] EXCEPT !.events = @ \cup EventsOf("extract", alias)])
  /\ pc' = "e-edit"
  /\ UNCHANGED <<there, works, tags, merged, plan, run, count, stops, last>>

(* observeSourceEdit's declarations without the releasable, and            *)
(* editSource, all its writes and deletions: what leaves is whatever the   *)
(* departing paths hold now.                                               *)
Departed ==
  [Empty EXCEPT !.events = head["w"].events \cup {<<"extract", "departed">>}]
DirtyNow == ~Clean("w")
EditSource ==
  /\ pc = "e-edit"
  /\ IF DirtyNow
     THEN Refuse /\ UNCHANGED tree
     ELSE /\ tree' = [tree EXCEPT !["w"] = Departed]
          /\ pc' = "e-source" /\ UNCHANGED <<plan, run>>
  /\ UNCHANGED <<there, works, head, tags, merged, count, stops, last>>

CommitSource ==
  /\ pc = "e-source"
  /\ Committed("w", tree["w"])
  /\ Finish
  /\ UNCHANGED <<there, works, tags, merged, stops, last>>

(* The edit or its commit fails, and every path is put back.               *)
RestoreSource ==
  /\ pc = "e-source"
  /\ stops < MaxStops /\ stops' = stops + 1
  /\ tree' = [tree EXCEPT !["w"] = head["w"]]
  /\ Refuse
  /\ UNCHANGED <<there, works, head, tags, merged, count, last>>

(***************************************************************************)
(* Absorb, as the member of its own releasable.                            *)
(***************************************************************************)
(* The tags an absorb creates: each version's under the workspace's        *)
(* scheme, and the current version's own name beside it.                   *)
Current == head["s"].version
Overlaps == \E v \in TaggedIn(tags["s"], "s") : tags["w"][<<"w", v>>] # 0
Taken ==
  \/ Overlaps
  \/ Current # 0 /\ tags["s"][<<"s", Current>>] # 0 /\ tags["w"][<<"s", Current>>] # 0

(* observeArrival: a merge of the same name, path and root commit in the   *)
(* workspace's history makes this a run that completes an earlier absorb,  *)
(* which skips what an absorb asks of the workspace.                       *)
Healing == merged
Arrives ==
  /\ ~head["w"].declared
  /\ head["w"].files = {}
  /\ ~Taken
ObserveAbsorb ==
  /\ pc = "idle" /\ count < MaxConversions
  /\ there /\ head["s"].declared
  /\ Clean("s") /\ Clean("w")
  /\ Healing \/ Arrives
  /\ plan' = [content |-> head["s"], tags |-> tags["s"]]
  /\ run' = NoRun
  /\ pc' = "a-clone"
  /\ UNCHANGED <<there, works, head, tree, tags, merged, count, stops, last>>

(* applySource: the lock, both working trees once more, and a scratch      *)
(* clone rewritten under the member's path.                                *)
CloneSource ==
  /\ pc = "a-clone"
  /\ IF there /\ Clean("w") /\ Clean("s")
     THEN /\ run' = [run EXCEPT !.map = works["s"]]
          /\ pc' = "a-merge" /\ UNCHANGED plan
     ELSE Refuse
  /\ UNCHANGED <<there, works, head, tree, tags, merged, count, stops, last>>

(* applyHistory: the merge, with the trailers a later run finds it by,     *)
(* unless the observation found one.                                       *)
Merge ==
  /\ pc = "a-merge"
  /\ IF Healing
     THEN UNCHANGED <<works, head, tree, merged>>
     ELSE /\ works' = [works EXCEPT !["w"] = @ \cup run.map]
          /\ Committed("w", [head["w"] EXCEPT !.files = head["s"].files \cap run.map,
                                              !.copies = head["s"].records])
          /\ merged' = TRUE
  /\ pc' = "a-tags"
  /\ UNCHANGED <<there, tags, plan, run, count, stops, last>>

(* applyTags: a tag that stands at another commit is never moved, and one  *)
(* whose commit is not here is not created.                                *)
Carried == {v \in TaggedIn(plan.tags, "s") :
              plan.tags[<<"s", v>>] \in run.map \cap works["w"]}
Held(v) == tags["w"][<<"w", v>>] \in {0, plan.tags[<<"s", v>>]}
Imported ==
  [t \in Repos \X Versions |->
     IF t[2] \in Carried /\ (t[1] = "w" \/ t[2] = plan.content.version)
     THEN plan.tags[<<"s", t[2]>>]
     ELSE tags["w"][t]]
ImportTags ==
  /\ pc = "a-tags"
  /\ IF /\ \A v \in Carried : Held(v)
        /\ plan.content.version \in Carried =>
             tags["w"][<<"s", plan.content.version>>]
               \in {0, plan.tags[<<"s", plan.content.version>>]}
     THEN /\ tags' = [tags EXCEPT !["w"] = Imported]
          /\ run' = [run EXCEPT !.tagMaps = Carried]
          /\ pc' = "a-state" /\ UNCHANGED plan
     ELSE Refuse /\ UNCHANGED tags
  /\ UNCHANGED <<there, works, head, tree, merged, count, stops, last>>

(* applyState: the copies that arrived with the merge move into the        *)
(* releasable's records, what is there already kept; the version file and  *)
(* the arriving events are written when missing.                           *)
Arriving == tree["w"].copies
HereAlready(a) == \E x \in tree["w"].records.archives : x.version = a.version
Differs(a) ==
  \E x \in tree["w"].records.archives : x.version = a.version /\ x # Spelled(a, "w")
VersionFile == IF tree["w"].version = 0 THEN plan.content.version ELSE tree["w"].version
MapHere == run.map \cap works["w"]
MigrateRecords ==
  /\ pc = "a-state"
  /\ LET moved == {a \in Arriving.archives : ~HereAlready(a)}
     IN IF \E a \in Arriving.archives : Differs(a)
        THEN Refuse /\ UNCHANGED tree
        ELSE /\ tree' = [tree EXCEPT
                  !["w"].records =
                    [entries |-> @.entries \cup CarryEntries(Arriving.entries, "w", MapHere),
                     archives |-> @.archives \cup CarryArchives(moved, "w", MapHere)],
                  !["w"].version = VersionFile,
                  !["w"].events = @ \cup Travelling(plan.content.events)]
             /\ run' = [run EXCEPT !.remaps = VersionsOf(Moves(moved, "w", MapHere))]
             /\ pc' = "a-copies" /\ UNCHANGED plan
  /\ UNCHANGED <<there, works, head, tags, merged, count, stops, last>>

DeleteCopies ==
  /\ pc = "a-copies"
  /\ tree' = [tree EXCEPT !["w"].copies = NoRecords]
  /\ pc' = "a-declare"
  /\ UNCHANGED <<there, works, head, tags, merged, plan, run, count, stops, last>>

(* applyWorkspace: declare, commit everything, scaffold.                   *)
Declare ==
  /\ pc = "a-declare"
  /\ tree' = [tree EXCEPT !["w"].declared = TRUE]
  /\ pc' = "a-commit"
  /\ UNCHANGED <<there, works, head, tags, merged, plan, run, count, stops, last>>

CommitAbsorb ==
  /\ pc = "a-commit"
  /\ Committed("w", tree["w"])
  /\ pc' = "a-scaffold"
  /\ UNCHANGED <<there, works, tags, merged, plan, run, count, stops, last>>

(* A member whose directory is not there cannot be scaffolded.             *)
Scaffold ==
  /\ pc = "a-scaffold"
  /\ IF head["w"].files = {}
     THEN Refuse
     ELSE pc' = "a-record" /\ UNCHANGED <<plan, run>>
  /\ UNCHANGED <<there, works, head, tree, tags, merged, count, stops, last>>

(* applyRecord: the conversion and what elaborates it, unless a run        *)
(* recorded the conversion.                                                *)
Recorded(c) == <<"absorb", "conversion">> \in c.events
RecordAbsorb ==
  /\ pc = "a-record"
  /\ IF Recorded(tree["w"])
     THEN Finish /\ UNCHANGED tree
     ELSE /\ tree' = [tree EXCEPT !["w"].events =
                @ \cup EventsOf("absorb", plan.content.version \in run.tagMaps)]
          /\ pc' = "a-append" /\ UNCHANGED <<plan, run, count>>
  /\ UNCHANGED <<there, works, head, tags, merged, stops, last>>

CommitRecord ==
  /\ pc = "a-append"
  /\ Committed("w", tree["w"])
  /\ Finish
  /\ UNCHANGED <<there, works, tags, merged, stops, last>>

(***************************************************************************)
(* What goes wrong, and what people do.                                    *)
(***************************************************************************)
Kill ==
  /\ pc \in ExtractSteps \cup AbsorbSteps
  /\ stops < MaxStops /\ stops' = stops + 1
  /\ Refuse
  /\ UNCHANGED <<there, works, head, tree, tags, merged, count, last>>

(* A person puts uncommitted changes away, as every refusal over them asks. *)
CleanUp ==
  /\ pc = "idle"
  /\ \E r \in Repos : ~Clean(r) /\ tree' = [tree EXCEPT ![r] = head[r]]
  /\ UNCHANGED <<there, works, head, tags, merged, pc, plan, run, count, stops, last>>

(* The directory of an extract that did not finish, or of an absorbed      *)
(* repository, is deleted.                                                 *)
DeleteStandalone ==
  /\ pc = "idle" /\ there
  /\ head["w"].declared /\ (merged => Recorded(head["w"]))
  /\ there' = FALSE
  /\ works' = [works EXCEPT !["s"] = {}]
  /\ Committed("s", Empty)
  /\ tags' = [tags EXCEPT !["s"] = NoTags]
  /\ UNCHANGED <<merged, pc, plan, run, count, stops, last>>

(* People work where the releasable is declared, the commit with its       *)
(* changelog entry: between commands, before an extract has cloned, and    *)
(* with Meanwhile at any step of one.                                      *)
Quiet == pc \in {"idle", "e-clone"} \/ Meanwhile
Home(r) == head[r].declared /\ head[r].files # {} /\ Clean(r)
           /\ (r = "s" => there /\ ~head["w"].declared)
Work(r) ==
  /\ Quiet /\ Home(r) /\ last < MaxWork
  /\ last' = last + 1
  /\ works' = [works EXCEPT ![r] = @ \cup {last + 1}]
  /\ Committed(r, [head[r] EXCEPT
       !.files = @ \cup {last + 1},
       !.records.entries = @ \cup {[work |-> last + 1, ids |-> r]}])
  /\ UNCHANGED <<there, tags, merged, pc, plan, run, count, stops>>

(* A release: its bump commit, the entries' file closed, the archive, the  *)
(* tag.                                                                    *)
Release(r) ==
  /\ pc = "idle" /\ Home(r) /\ last < MaxWork
  /\ head[r].version < MaxVersion /\ head[r].records.entries # {}
  /\ LET v == head[r].version + 1
     IN /\ Committed(r, [head[r] EXCEPT
             !.files = @ \cup {last + 1},
             !.version = v,
             !.records = [entries |-> {},
                          archives |-> @.archives
                            \cup {[version |-> v, work |-> last + 1, ids |-> r]}]])
        /\ tags' = [tags EXCEPT ![r][<<r, v>>] = last + 1]
  /\ last' = last + 1
  /\ works' = [works EXCEPT ![r] = @ \cup {last + 1}]
  /\ UNCHANGED <<there, merged, pc, plan, run, count, stops>>

(* An edit nobody committed yet, even while a command runs.                *)
Edit ==
  /\ Clean("w") /\ head["w"].files # {} /\ last < MaxWork
  /\ pc \notin {"e-source"}
  /\ last' = last + 1
  /\ tree' = [tree EXCEPT !["w"].files = @ \cup {last + 1}]
  /\ UNCHANGED <<there, works, head, tags, merged, pc, plan, run, count, stops>>

Rest == pc = "idle" /\ UNCHANGED vars

Extract ==
  \/ CloneWorkspace \/ VerifyTrees \/ CopyRecords \/ TranslateTags
  \/ CommitDestination \/ RecordDestination \/ EditSource \/ CommitSource
Absorb ==
  \/ CloneSource \/ Merge \/ ImportTags \/ MigrateRecords \/ DeleteCopies
  \/ Declare \/ CommitAbsorb \/ Scaffold \/ RecordAbsorb \/ CommitRecord
People ==
  \/ CleanUp \/ DeleteStandalone \/ Edit
  \/ \E r \in Repos : Work(r) \/ Release(r)

Next ==
  \/ ObserveExtract \/ ObserveAbsorb \/ Extract \/ Absorb
  \/ RestoreSource \/ Kill \/ People \/ Rest

Spec == Init /\ [][Next]_vars

(* A started command takes its steps; an operator whose absorb stopped     *)
(* puts the working tree in order and runs it again.                       *)
FairSpec ==
  /\ Spec
  /\ WF_vars(Extract \/ Absorb)
  /\ SF_vars(ObserveAbsorb) /\ WF_vars(CleanUp)

(***************************************************************************)
(* Properties.                                                             *)
(***************************************************************************)

(* "Every one of them has to arrive with its code for the history to stay   *)
(* true": the commit that takes the releasable out of the workspace is made *)
(* only when the new repository's last commit holds all of it, under the    *)
(* new scheme's tags, and no file leaves the workspace's working tree that  *)
(* the new repository's does not have.                                      *)
WorksOf(entries) == {e.work : e \in entries}
ReleasesOf(archives) == {<<a.version, a.work>> : a \in archives}
HoldsAll(from, to) ==
  /\ from.files \subseteq to.files
  /\ WorksOf(from.records.entries) \subseteq WorksOf(to.records.entries)
  /\ ReleasesOf(from.records.archives) \subseteq ReleasesOf(to.records.archives)
  /\ from.version <= to.version
DepartsWhole ==
  /\ head["w"].declared /\ ~head'["w"].declared =>
       /\ HoldsAll(head["w"], head["s"])
       /\ \A v \in TaggedIn(tags["w"], "w") :
            tags["s"][<<"s", v>>] = tags["w"][<<"w", v>>]
  /\ tree'["w"].files = {} => tree["w"].files \subseteq tree["s"].files

(* Every commit a repository's records name is named by its id there, and   *)
(* every tag and archive of a version agree on the commit, whichever runs   *)
(* of which conversions moved them.                                         *)
RecordsResolve ==
  \A r \in Repos : LET rec == head[r].records IN
    /\ \A e \in rec.entries : e.ids = r /\ e.work \in works[r]
    /\ \A a \in rec.archives : a.ids = r /\ a.work \in works[r]
    /\ \A a \in rec.archives, t \in Repos :
         tags[r][<<t, a.version>>] \in {0, a.work}

(* "A run that stops is completed by running the same command again": once  *)
(* the history is merged the releasable ends up declared, its arriving      *)
(* copies gone and its conversion recorded.                                 *)
Completed == head["w"].declared /\ head["w"].copies = NoRecords /\ Recorded(head["w"])
AbsorbEnds == (merged /\ ~Recorded(head["w"])) ~> Completed

(* Nothing that was merged is lost on the way: a finished absorb holds      *)
(* every archive the source states of commits that came, and every entry,   *)
(* unreleased or in a later release.                                        *)
Covered(w, rec) ==
  \/ w \in WorksOf(rec.entries)
  \/ \E a \in rec.archives : a.version > head["s"].version /\ a.work > w
NothingLost ==
  Completed' /\ ~Completed =>
    LET rec == head'["w"].records IN
    /\ \A w \in WorksOf(head["s"].records.entries) \cap works["w"] : Covered(w, rec)
    /\ {a \in ReleasesOf(head["s"].records.archives) : a[2] \in works["w"]}
         \subseteq ReleasesOf(rec.archives)

(* A conversion carries everything across, in either direction.            *)
CarriesAll == [][DepartsWhole /\ NothingLost]_vars

=============================================================================
