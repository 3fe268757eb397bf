----------------------------- MODULE Migration -----------------------------
(***************************************************************************)
(* `rlsbl migrate records` (internal/migration): the one conversion of a   *)
(* repository from the layout of the Python rlsbl to .strictmetadata/.     *)
(*                                                                         *)
(* A run reads the whole old layout and decides everything: every old file *)
(* is claimed by the conversion of its class, which plans writes, drops it *)
(* on purpose or refuses.  A run that is not refused writes the planned    *)
(* files, stage by stage, then regenerates the changelogs, removes the old *)
(* directories one by one and commits the paths it touched.  It may stop   *)
(* between any two of these steps, and be run again.                       *)
(*                                                                         *)
(* A file of the old layout is its directory, its class, the version or    *)
(* other key in its name, and what it says as far as the conversions tell  *)
(* it apart.  A version label is <<>> for unreleased, <<n>> for a stable   *)
(* version and <<n, k>> for its k-th pre-release.                          *)
(***************************************************************************)
EXTENDS Naturals, Sequences, FiniteSets, SequencesExt

CONSTANTS Repositories,   \* the repositories a run finds, see Init
          Limit,          \* MaxCommitsPerEntry
          Today,          \* the day of the migration
          MaxStops, MaxEdits,   \* bounds on the kills and on people's changes
          None

ASSUME MigrationAssumption == Limit \in Nat /\ Today \in Nat /\ MaxStops \in Nat /\ MaxEdits \in Nat

VARIABLES repo,        \* what does not change: layout, manifests, history, visibility
          old, new,    \* the old layout's files and the new ones, in the working tree
          beside,      \* whether a path the migration does not touch has a change
          head,        \* the three at HEAD
          run,         \* the plan that is applied, and how far it got
          said,        \* what the last run reported
          stops, edits

vars == <<repo, old, new, beside, head, run, said, stops, edits>>

Standalone == repo.layout = "standalone"
Dir(at, name) == [at |-> at, name |-> name]
RootDir == Dir("root", "")
WorkspaceDir == Dir("workspace", "")
StateDir(rel) == IF Standalone THEN RootDir ELSE Dir("releasable", rel)
In(d, class) == {f \in old : f.dir = d /\ f.class = class}
Class(class) == {f \in old : f.class = class}

(* An old directory and the directory that is removed with it *)
Removed(f) == IF f.dir.at \in {"releasable", "closed"} THEN (IF Standalone THEN RootDir ELSE WorkspaceDir) ELSE f.dir
OldDirectories == {Removed(f) : f \in old}

Path(what, subject, key) == [what |-> what, subject |-> subject, key |-> key]
Write(path, content) == [path |-> path, content |-> content]
Ignored(path) == path.what \in {"retry", "batch_plan"}

(***************************************************************************)
(* Pre-releases of the dropped channel (prerelease.go)                     *)
(***************************************************************************)
PreRelease(label) == Len(label) = 2
StableOf(label) == <<label[1]>>

StableReleased(d, label) ==
  IF \E a \in In(d, "archive") : a.key = label
  THEN \E a \in In(d, "archive") : a.key = label /\ a.val.fate # "never"
  ELSE \E c \in In(d, "changes") : c.key = label

PreReleaseDestinationStable(d, label) == StableOf(label)
PreReleaseDestination(d, label) == IF StableReleased(d, StableOf(label)) THEN StableOf(label) ELSE <<>>

PreReleases(d) == {f.key : f \in {g \in In(d, "changes") \cup In(d, "archive") : PreRelease(g.key)}}
NewerFirst(labels) == SetToSortSeq(labels, LAMBDA a, b : a[1] > b[1] \/ (a[1] = b[1] /\ a[2] > b[2]))

(***************************************************************************)
(* Changelogs (changelogs.go): a file is its entries, in order             *)
(***************************************************************************)

(* batch_limits.exclusions becomes the entry's batch_reason *)
Excluded(d, label, i) == \E c \in In(d, "config") : <<label, i>> \in c.val.excluded
ConvertEntries(d, file) ==
  [i \in DOMAIN file.val |->
    [file.val[i] EXCEPT !.reason = Cardinality(file.val[i].commits) > Limit /\ Excluded(d, file.key, i)]]
EntriesOf(d, label) ==
  IF \E c \in In(d, "changes") : c.key = label
  THEN ConvertEntries(d, CHOOSE c \in In(d, "changes") : c.key = label) ELSE <<>>

(* foldEntries: an entry naming the commits of one already kept is left out *)
FoldEntries(entries) == {entries[i] : i \in {j \in DOMAIN entries : \A h \in 1 .. j - 1 : entries[h].commits # entries[j].commits}}

Folded(d, label) == {p \in PreReleases(d) : PreReleaseDestination(d, p) = label /\ \E c \in In(d, "changes") : c.key = p}
ConvertedLabels(d) ==
  {c.key : c \in {f \in In(d, "changes") : ~ PreRelease(f.key)}}
  \cup {PreReleaseDestination(d, c.key) : c \in {f \in In(d, "changes") : PreRelease(f.key)}}
ConvertChangelog(d, what, subject) ==
  LET older(label) == NewerFirst(Folded(d, label))
      content(label) == FoldEntries(EntriesOf(d, label) \o FlattenSeq([i \in DOMAIN older(label) |-> EntriesOf(d, older(label)[i])]))
  IN  {Write(Path(what, subject, label), content(label)) : label \in ConvertedLabels(d)}

(***************************************************************************)
(* A releasable's records, or a retired subject's (records.go)             *)
(***************************************************************************)
ConvertArchives(d, what, subject) ==
  {Write(Path(what, subject, a.key), a.val) : a \in {f \in In(d, "archive") : ~ PreRelease(f.key)}}
ConvertReleaseFile(d, subject) ==
  {Write(Path("release_file", subject, <<>>), f.val) : f \in {g \in In(d, "release_file") : g.val = "filled"}}
ConvertRetry(d, subject) == {Write(Path("retry", subject, <<>>), f.val) : f \in In(d, "retry")}
ConvertVersion(d, what, subject) ==
  IF d = RootDir THEN {} ELSE {Write(Path(what, subject, <<>>), f.val) : f \in In(d, "version")}
ConvertUndoAudits(d, what, subject) ==
  {Write(Path(what, subject, <<>>), f.val) : f \in {g \in In(d, "undo_audit") : g.val # <<>>}}
ConvertScrubs(d) == {Write(Path("rewrite_archive", "", f.key), f.val) : f \in In(d, "scrub")}

ConvertState(subject, d) ==
  ConvertChangelog(d, "changelog", subject) \cup ConvertReleaseFile(d, subject) \cup ConvertRetry(d, subject)
  \cup ConvertArchives(d, "archive", subject) \cup ConvertVersion(d, "version", subject)
  \cup ConvertUndoAudits(d, "undo_audit", subject) \cup ConvertScrubs(d)
ConvertRetired(subject, d) ==
  ConvertChangelog(d, "retired_changelog", subject) \cup ConvertArchives(d, "retired_archive", subject)
  \cup ConvertVersion(d, "retired_version", subject)
  \cup ConvertUndoAudits(d, "retired_undo_audit", subject) \cup ConvertScrubs(d)
  \cup {Write(Path("retired_config", subject, <<>>), f.val) : f \in In(d, "config")}

ConvertBatchReleases ==
  {Write(Path(f.class, "", f.key), f.val) :
     f \in In(WorkspaceDir, "batch_archive") \cup In(WorkspaceDir, "batch_plan")
           \cup {g \in In(WorkspaceDir, "batch_file") : g.val = "filled"}}

(***************************************************************************)
(* The transition records (history.go): lines of one file per directory    *)
(***************************************************************************)
Lines(event) == UNION {{f.val[i] : i \in {j \in DOMAIN f.val : f.val[j].event = event}} : f \in Class("transitions")}
ClosedSubjects == {e.subject : e \in Lines("closed")}
Renames == Lines("rename")
RetiredDirs == {d \in {f.dir : f \in old} :
                  d.at = "closed" \/ (d.at = "releasable" /\ d.name \notin repo.rels)}
Surgery == {[e EXCEPT !.subject = IF Standalone THEN "" ELSE @] : e \in Lines("surgery")}

(***************************************************************************)
(* Hook scripts, merge bases and the managed files (scaffolding.go)        *)
(***************************************************************************)
Owners == {[name |-> r, dir |-> StateDir(r)] : r \in repo.rels}
          \cup (IF Standalone THEN {} ELSE {[name |-> m, dir |-> Dir("member", m)] : m \in repo.members})
Customized(o) == {f \in In(o.dir, "hook") : f.val = "customized"}
DeclaredSlots(o) == UNION {c.val.hooks : c \in In(o.dir, "config")}
ConvertHookScripts ==
  UNION {{Write(Path("hook", o.name, f.key), f.val) : f \in Customized(o)} : o \in Owners}

Managed == UNION {f.val : f \in Class("managed")}
ConvertScaffoldState ==
  {Write(Path("base", "", f.key), f.val) : f \in {g \in Class("base") : g.key \in Managed}}
  \cup (IF Class("managed") = {} /\ In(RootDir, "version") = {} THEN {}
        ELSE {Write(Path("scaffold_state", "", <<>>), Managed)})

(***************************************************************************)
(* Configs (configs.go, build.go)                                          *)
(***************************************************************************)
Agreed(key) == Cardinality({c.val[key] : c \in {f \in Class("config") : f.val[key] # None}}) <= 1
Value(key) == IF \E c \in Class("config") : c.val[key] # None
              THEN (CHOOSE c \in Class("config") : c.val[key] # None).val[key] ELSE None
(* A member's config is merged over its releasable's *)
ModesOf(rel) ==
  {c.val.mode : c \in {f \in In(StateDir(rel), "config") \cup
                            UNION {In(Dir("member", m), "config") : m \in {n \in repo.members : repo.under[n] = rel}} :
                       f.val.mode # None}}
Declarations ==
  [timeout |-> Value("timeout"),
   rels |-> {[name |-> r, mode |-> CHOOSE m \in ModesOf(r) : TRUE] : r \in repo.rels},
   hooks |-> UNION {{<<o.name, p>> : p \in DeclaredSlots(o) \cup {f.key : f \in Customized(o)}} : o \in Owners}]

(***************************************************************************)
(* What moves to strictcode.toml (strictcode.go, scaffolding.go): the      *)
(* Python tools' paths, one declaration per rule for the repository; the   *)
(* library lint lists, one per language; the known dead modules.  A path   *)
(* is a sequence, relative to what stands before it.                       *)
(***************************************************************************)
StrictcodeFile == Path("strictcode", "", <<>>)
Held == IF StrictcodeFile \in DOMAIN new THEN new[StrictcodeFile] ELSE [tools |-> {}, lists |-> {}, dead |-> {}]
Declared(rule) == {f.val : f \in {g \in Class("tools") : g.val.rule = rule}}
PythonTool(rule) ==
  LET cwds == {t.cwd : t \in Declared(rule)}
  IN  IF Cardinality(cwds) = 1
      THEN [rule |-> rule, cwd |-> CHOOSE c \in cwds : TRUE, paths |-> UNION {t.paths : t \in Declared(rule)}]
      ELSE [rule |-> rule, cwd |-> <<>>, paths |-> UNION {{t.cwd \o path : path \in t.paths} : t \in Declared(rule)}]
PythonTools == {PythonTool(f.val.rule) : f \in Class("tools")}
LintLists == {f.val : f \in Class("lint")}
DeadModules == UNION {{<<f.dir.name>> \o path : path \in f.val} : f \in Class("dead_modules")}
LintRefused ==
  \/ \E l, m \in LintLists : l # m /\ l.language = m.language
  \/ \E f \in Class("dead_modules") : f.dir.at = "releasable"
  \/ \E f \in old : f.dir.at = "member" /\ ~ Standalone /\ f.class \in {"changes", "archive"}
StrictcodeRefused ==
  \/ \E t \in PythonTools, h \in Held.tools : t.rule = h.rule
  \/ \E l \in LintLists, h \in Held.lists : l.language = h.language
ConvertStrictcode ==
  IF Class("tools") \cup Class("lint") \cup Class("dead_modules") = {} THEN {}
  ELSE {Write(StrictcodeFile, [tools |-> Held.tools \cup PythonTools, lists |-> Held.lists \cup LintLists,
                               dead |-> Held.dead \cup DeadModules])}

(***************************************************************************)
(* The options entries that move to strictcode or are renamed (options.go) *)
(***************************************************************************)
Moved == [lint |-> "strictcode_lint", gate |-> "format_version"]
ConvertOptions ==
  {Write(Path("options", "", <<>>), {IF o \in DOMAIN Moved THEN Moved[o] ELSE o : o \in new[p]}) :
     p \in {q \in DOMAIN new : q.what = "options" /\ new[q] \cap DOMAIN Moved # {}}}
RemovedOption == \E p \in DOMAIN new : p.what = "options" /\ "removed" \in new[p]

(***************************************************************************)
(* The lifecycle-and-license record (lifecycle.go).  Days are numbers, 0   *)
(* the first commit's; a period ends the day before until, Open without.   *)
(***************************************************************************)
Open == Today + 1
Identity(subject, facet, value, from, until) ==
  [subject |-> subject, facet |-> facet, value |-> value, from |-> from, until |-> until]
Earlier(a, b) == IF a < b THEN a ELSE b

(* The renames that led to a name, oldest first, followed back to a name  *)
(* already seen                                                           *)
RenameTo(name) == CHOOSE r \in Renames : r.to = name
Chain(name) ==
  LET back[n \in Nat] == IF n = 0 THEN <<>>
        ELSE LET rest == back[n - 1]
                 at == IF rest = <<>> THEN name ELSE rest[1].from
                 seen == {name} \cup {rest[i].from : i \in 2 .. Len(rest)}
             IN  IF (\E r \in Renames : r.to = at) /\ (rest = <<>> \/ at \notin seen)
                 THEN <<RenameTo(at)>> \o rest ELSE rest
  IN  back[Cardinality(Renames)]

(* The periods of a value that changed on each day of a chain: a change   *)
(* dated before the one it follows leaves an empty period                 *)
Starts(chain) == [i \in 1 .. Len(chain) + 1 |-> IF i = 1 THEN 0 ELSE chain[i - 1].at]
Periods(subject, facet, chain, last) ==
  {Identity(subject, facet, chain[i].from, Earlier(Starts(chain)[i], chain[i].at), chain[i].at) : i \in DOMAIN chain}
  \cup {Identity(subject, facet, last, Starts(chain)[Len(chain) + 1], Open)}
NameIdentities == UNION {Periods(r, "name", Chain(r), r) : r \in repo.rels}

(* An identity transition takes effect with the release of its version    *)
ReleasedOn(subject, version) ==
  {a.val.day : a \in {f \in In(StateDir(subject), "archive") : f.key = version /\ f.val.fate = "released"}}
Changes(subject) == SetToSortSeq({e \in Lines("identity") : e.subject = subject}, LAMBDA a, b : a.at < b.at)
InEffect(subject) == SelectSeq(Changes(subject), LAMBDA c : ReleasedOn(subject, c.version) # {})
Pending(subject) == {c \in Lines("identity") : c.subject = subject /\ ReleasedOn(subject, c.version) = {}}
PackageIdentities ==
  UNION {LET steps == [i \in DOMAIN InEffect(r) |->
                         [from |-> InEffect(r)[i].from, at |-> CHOOSE day \in ReleasedOn(r, InEffect(r)[i].version) : TRUE]]
             last == IF steps = <<>> THEN Changes(r)[1].from ELSE InEffect(r)[Len(steps)].to
         IN  Periods(r, "package", steps, last)
         : r \in {s \in repo.rels : Changes(s) # <<>>}}
Broken(changes) == \E i \in 2 .. Len(changes) : changes[i].from # changes[i - 1].to

License(rel) == IF repo.given[rel] # None THEN repo.given[rel] ELSE CHOOSE l \in repo.manifests[rel] : TRUE
PreReleaseTags ==
  UNION {{<<r, p>> : p \in {q \in PreReleases(StateDir(r)) : <<r, q>> \in repo.tags}} : r \in repo.rels}

LifecycleRecord ==
  [licenses |-> {<<r, License(r)>> : r \in repo.rels},
   retired |-> ClosedSubjects,
   identities |-> NameIdentities \cup PackageIdentities,
   pending |-> UNION {Pending(r) : r \in repo.rels},
   tags |-> PreReleaseTags \cup {<<e.subject, <<0>> >> : e \in Lines("tag")}]

(* The library's validation: periods of one identity do not overlap *)
RecordValid(rec) ==
  \A p, q \in rec.identities : p.subject = q.subject /\ p.facet = q.facet /\ p # q => p.until <= q.from \/ q.until <= p.from

(***************************************************************************)
(* What is refused, every reason together                                  *)
(***************************************************************************)
InProgress == Class("in_progress") # {}
BothLayouts == ~ Standalone /\ \E f \in old : f.dir = RootDir
Stray == \E f \in old : f.dir.at = "member" /\ f.dir.name \notin repo.members
Unconvertible ==
  \/ \E f \in Class("config") : f.val.form # "known"
  \/ \E f \in Class("release_file") \cup Class("batch_file") : f.val = "refused"
  \/ RemovedOption
  \/ Lines("mirror") # {}
Disagreeing == ~ Agreed("timeout") \/ \E r \in repo.rels : Cardinality(ModesOf(r)) # 1
HooksRefused == \E o \in Owners : \E f \in Customized(o) : f.key \in DeclaredSlots(o)
HistoriesRefused ==
  \/ \E d \in RetiredDirs : d.name \notin ClosedSubjects \/ PreReleases(d) # {}
  \/ \E d, e \in RetiredDirs : d # e /\ d.name = e.name
  \/ \E d \in RetiredDirs : In(d, "archive") # {} /\ \A a \in In(d, "archive") : a.val.fate # "released"
  \/ ClosedSubjects \cap repo.rels # {}
  \/ \E r, s \in Renames : r # s /\ r.to = s.to
  \/ \E r \in repo.rels : Broken(Changes(r)) \/ \E i \in 1 .. Len(Changes(r)) - 1 : Changes(r)[i] \in Pending(r)
LicensesRefused ==
  \/ \E r \in repo.rels :
       \/ repo.given[r] = None /\ Cardinality(repo.manifests[r]) # 1
       \/ repo.given[r] \notin {None, "proprietary"} /\ repo.manifests[r] \notin SUBSET {repo.given[r]}
  \/ repo.private /\ \A r \in repo.rels : repo.given[r] # "proprietary"
(* The conversions claim every class they know *)
Unclaimed == Class("unknown") # {}

Stages ==
  LET each(f(_)) == UNION {f(r) : r \in repo.rels} IN
  << each(LAMBDA r : ConvertState(r, StateDir(r))),
     UNION {ConvertRetired(d.name, d) : d \in RetiredDirs},
     IF Standalone THEN {} ELSE ConvertBatchReleases,
     ConvertHookScripts,
     ConvertScaffoldState,
     {Write(Path("run_state_gitignore", "", <<>>), "rules")},
     ConvertStrictcode,
     ConvertOptions,
     {Write(Path("declarations", "", <<>>), Declarations)},
     IF Surgery = {} THEN {} ELSE {Write(Path("transitions", "", <<>>), Surgery)},
     {Write(Path("record", "", <<>>), LifecycleRecord)} >>
Writes(stages) == UNION {stages[i] : i \in DOMAIN stages}
Generated == {Path("CHANGELOG", r, <<>>) : r \in repo.rels}

(* Two conversions that write one path *)
Colliding(stages) == \E v, w \in Writes(stages) : v # w /\ v.path = w.path

Refused ==
  \/ InProgress \/ BothLayouts \/ Stray \/ Unconvertible \/ Disagreeing \/ HooksRefused \/ HistoriesRefused
  \/ LicensesRefused \/ LintRefused \/ StrictcodeRefused \/ Unclaimed
  \/ ~ RecordValid(LifecycleRecord) \/ Colliding(Stages)

(***************************************************************************)
(* Uncommitted changes                                                     *)
(***************************************************************************)
Touched(stages) == {w.path : w \in Writes(stages)} \cup Generated
Differs(f, g, p) ==
  IF p \in DOMAIN f /\ p \in DOMAIN g THEN f[p] # g[p] ELSE p \in DOMAIN f \cup DOMAIN g
OldChanged == {f \in old \cup head.old : ~ f.ignored} \cap ((old \ head.old) \cup (head.old \ old))
Uncommitted(stages) ==
  OldChanged # {} \/ \E p \in Touched(stages) : ~ Ignored(p) /\ Differs(new, head.new, p)

(***************************************************************************)
(* A run                                                                   *)
(***************************************************************************)
HasNew == Path("declarations", "", <<>>) \in DOMAIN new
HasOld == {RootDir, WorkspaceDir} \cap OldDirectories # {}
Idle == run = None

Say(what) == said' = what /\ UNCHANGED <<repo, old, new, beside, head, run, stops, edits>>
Convert == Idle /\ ~ HasOld /\ HasNew /\ said # "converted" /\ Say("converted")
Refuse ==
  /\ Idle /\ HasOld /\ said # "refused"
  /\ (~ HasNew => (~ Refused => Uncommitted(Stages)))
  /\ Say("refused")

Build ==
  /\ Idle /\ HasOld /\ ~ HasNew
  /\ ~ Refused /\ ~ Uncommitted(Stages)
  /\ run' = [stages |-> Stages, left |-> Stages, step |-> "write", dirs |-> OldDirectories]
  /\ said' = "applying"
  /\ UNCHANGED <<repo, old, new, beside, head, stops, edits>>

Put(f, p, content) == [q \in DOMAIN f \cup {p} |-> IF q = p THEN content ELSE f[q]]
Left == {i \in DOMAIN run.left : run.left[i] # {}}
WritePlanned ==
  /\ ~ Idle /\ run.step = "write"
  /\ IF Left = {}
     THEN run' = [run EXCEPT !.step = "changelogs"] /\ UNCHANGED new
     ELSE LET i == CHOOSE j \in Left : \A h \in Left : j <= h
              w == CHOOSE v \in run.left[i] : TRUE   \* one fixed order
          IN  /\ new' = Put(new, w.path, w.content)
              /\ run' = [run EXCEPT !.left[i] = @ \ {w}]
  /\ UNCHANGED <<repo, old, beside, head, said, stops, edits>>

(* Regenerated from the converted entries *)
EntriesIn(tree, rel) == UNION {tree[p] : p \in {q \in DOMAIN tree : q.what = "changelog" /\ q.subject = rel}}
Regenerate ==
  /\ ~ Idle /\ run.step = "changelogs"
  /\ new' = [p \in DOMAIN new \cup Generated |-> IF p \in Generated THEN EntriesIn(new, p.subject) ELSE new[p]]
  /\ run' = [run EXCEPT !.step = "remove"]
  /\ UNCHANGED <<repo, old, beside, head, said, stops, edits>>

(* The workspace's directory goes first, the members' after it *)
First(dirs) == IF WorkspaceDir \in dirs THEN WorkspaceDir ELSE CHOOSE d \in dirs : TRUE
RemoveOld ==
  /\ ~ Idle /\ run.step = "remove"
  /\ IF run.dirs = {}
     THEN run' = [run EXCEPT !.step = "commit"] /\ UNCHANGED old
     ELSE /\ old' = {f \in old : Removed(f) # First(run.dirs)}
          /\ run' = [run EXCEPT !.dirs = @ \ {First(run.dirs)}]
  /\ UNCHANGED <<repo, new, beside, head, said, stops, edits>>

Committed == {p \in Touched(run.stages) : ~ Ignored(p)}
Commit ==
  /\ ~ Idle /\ run.step = "commit"
  /\ LET paths == Committed \cup DOMAIN head.new IN
     head' = [old |-> old, beside |-> head.beside,
              new |-> [p \in paths |-> IF p \in Committed THEN new[p] ELSE head.new[p]]]
  /\ run' = None /\ said' = "migrated"
  /\ UNCHANGED <<repo, old, new, beside, stops, edits>>

(* A process that dies, or whose next write, removal or commit fails *)
Stop ==
  /\ ~ Idle /\ stops < MaxStops /\ stops' = stops + 1
  /\ run' = None /\ said' = "stopped"
  /\ UNCHANGED <<repo, old, new, beside, head, edits>>

(***************************************************************************)
(* People: a change beside the records, the hand edits the refusals name,  *)
(* the removal of a half migration's files, and a commit of everything     *)
(***************************************************************************)
EditBeside ==
  /\ Idle /\ edits < MaxEdits /\ edits' = edits + 1
  /\ beside' = ~ beside
  /\ UNCHANGED <<repo, old, new, head, run, said, stops>>
HandEdit ==
  /\ Idle /\ edits < MaxEdits /\ said = "refused" /\ HasOld
  /\ \E f \in old :
       /\ f.class \in {"unknown", "in_progress", "hook", "config", "managed"}
       /\ old' = old \ {f}
  /\ edits' = edits + 1
  /\ UNCHANGED <<repo, new, beside, head, run, said, stops>>
RemoveHalf ==
  /\ Idle /\ said = "refused" /\ HasOld /\ new # head.new
  /\ new' = head.new
  /\ UNCHANGED <<repo, old, beside, head, run, said, stops, edits>>
CommitWork ==
  /\ Idle /\ edits < MaxEdits /\ edits' = edits + 1
  /\ head' = [old |-> old, beside |-> beside, new |-> [p \in {q \in DOMAIN new : ~ Ignored(q)} |-> new[p]]]
  /\ UNCHANGED <<repo, old, new, beside, run, said, stops>>

Init == \E r \in Repositories :
  /\ repo = [layout |-> r.layout, rels |-> r.rels, members |-> r.members, under |-> r.under, given |-> r.given,
             manifests |-> r.manifests, private |-> r.private, tags |-> r.tags, was |-> r.old]
  /\ old = r.old /\ new = r.new /\ beside = FALSE
  /\ head = [old |-> {f \in r.old : ~ f.ignored}, new |-> r.new, beside |-> FALSE]
  /\ run = None /\ said = "nothing" /\ stops = 0 /\ edits = 0

Next ==
  \/ Convert \/ Refuse \/ Build \/ WritePlanned \/ Regenerate \/ RemoveOld \/ Commit \/ Stop
  \/ EditBeside \/ HandEdit \/ RemoveHalf \/ CommitWork

Spec == Init /\ [][Next]_vars

(***************************************************************************)
(* Properties                                                              *)
(***************************************************************************)

(* What an old file becomes: every old record a conversion does not drop   *)
(* on purpose is in the new tree, a changelog's entries by the commits     *)
(* they name.                                                              *)
Releasing(d) == IF d = RootDir THEN repo.rels ELSE {d.name}
Holds(tree, what, f, key) == \E p \in DOMAIN tree : p.what \in what /\ p.key = key /\ tree[p] = f.val
Converted(f, tree) ==
  CASE f.class = "changes" ->
         \A i \in DOMAIN f.val : \E p \in DOMAIN tree :
           /\ p.what \in {"changelog", "retired_changelog"} /\ p.subject \in Releasing(f.dir)
           /\ p.key \in IF PreRelease(f.key) THEN {<<>>, StableOf(f.key)} ELSE {f.key}
           /\ \E e \in tree[p] : e.commits = f.val[i].commits
    [] f.class = "archive" -> PreRelease(f.key) \/ Holds(tree, {"archive", "retired_archive"}, f, f.key)
    [] f.class = "undo_audit" -> f.val = <<>> \/ Holds(tree, {"undo_audit", "retired_undo_audit"}, f, <<>>)
    [] f.class = "scrub" -> Holds(tree, {"rewrite_archive"}, f, f.key)
    [] f.class \in {"batch_archive", "batch_plan"} -> Holds(tree, {f.class}, f, f.key)
    [] f.class = "hook" -> f.val # "customized" \/ Holds(tree, {"hook"}, f, f.key)
    [] f.class = "tools" ->
         \E p \in DOMAIN tree : p.what = "strictcode" /\
           \A path \in f.val.paths : \E t \in tree[p].tools : \E q \in t.paths : t.rule = f.val.rule /\ t.cwd \o q = f.val.cwd \o path
    [] f.class = "dead_modules" -> \E p \in DOMAIN tree : p.what = "strictcode" /\ \A path \in f.val : <<f.dir.name>> \o path \in tree[p].dead
    [] OTHER -> TRUE

(* At no moment of a migration, however often it is killed and run again, *)
(* is an old record or declaration neither in the old tree nor converted in the new one: *)
(* the writes precede the removals (Apply), and every conversion takes    *)
(* what it claims.  Hooks and managed lists can be edited away by hand.   *)
NothingVanishes == \A f \in repo.was : f \in old \/ f.class = "hook" \/ Converted(f, new)

(* No entry of a dropped pre-release is filed under a version that was    *)
(* never released, where no later changelog would show it: a version's    *)
(* converted changelog belongs to a release (PreReleaseDestination).      *)
FiledUnderReleases ==
  \A p \in DOMAIN new : p.what = "changelog" /\ p.key # <<>> =>
    \E f \in repo.was :
      /\ f.key = p.key /\ f.dir = StateDir(p.subject)
      /\ f.class = "changes" \/ (f.class = "archive" /\ f.val.fate # "never")
      /\ \A a \in repo.was : a.class = "archive" /\ a.key = p.key /\ a.dir = f.dir => a.val.fate # "never"

(* On every day the record gives each releasable exactly one name, one it *)
(* already had by then, and the renames that followed that day turn that  *)
(* name into today's: the chain of names is the history, whatever order   *)
(* the record files are in.                                               *)
After(day) == SetToSortSeq({r \in UNION {{f.val[i] : i \in DOMAIN f.val} : f \in {g \in repo.was : g.class = "transitions"}} :
                              r.event = "rename" /\ r.at > day}, LAMBDA a, b : a.at < b.at)
Became(name, day) == FoldLeft(LAMBDA n, r : IF r.from = n THEN r.to ELSE n, name, After(day))
NamesFollowHistory ==
  \A p \in DOMAIN new : p.what = "record" =>
    \A r \in repo.rels, day \in 0 .. Today :
      LET held == {i \in new[p].identities : i.subject = r /\ i.facet = "name" /\ i.from <= day /\ day < i.until}
      IN  Cardinality(held) = 1 /\ \A i \in held :
            Became(i.value, day) = r /\ \A later \in ToSet(After(day)) : later.to # i.value

(* What a migration writes is the history the old layout held: nothing     *)
(* vanished, nothing is filed under another release, and every name is the *)
(* one the releasable had that day.                                        *)
Faithful == NothingVanishes /\ FiledUnderReleases /\ NamesFollowHistory
=============================================================================
