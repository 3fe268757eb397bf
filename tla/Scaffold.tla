------------------------------ MODULE Scaffold ------------------------------
(***************************************************************************)
(* `rlsbl scaffold` (internal/scaffold) and the sync of a workspace's      *)
(* routers it ends with (internal/workflows).  A text is a function from   *)
(* its hunks to values, and git's three-way merge is taken hunk by hunk: a *)
(* value is the template's, as some version of rlsbl rendered it, a user's *)
(* own, or a conflict holding both sides between git's markers.            *)
(*                                                                         *)
(* A run reads the declarations before it takes the run lock, plans every  *)
(* file under the lock, refuses before it writes, and then writes one file *)
(* at a time: its text, its merge base, the files no template renders any  *)
(* more, the hooks, the scaffold state, its commit, the routers, and their *)
(* commit.  It may be killed, or a call may fail, between any two of them. *)
(***************************************************************************)
EXTENDS Naturals, Sequences, FiniteSets

CONSTANTS Members,      \* the members scaffolded (the root member is not)
          Targets,      \* Targets[m]: the release targets of a member
          Procs,        \* the processes running rlsbl
          Hunks,        \* the hunks of a text
          Changing,     \* those an upgrade of rlsbl changes in every template
          Editable,     \* the files a person edits, a bound
          Flags,        \* Flags[m]: the <<auto-commit, skip-shared>> runs of m are given, a bound
          SharedKinds,  \* the files every member renders, from {"scratch", "LICENSE"}
          Versioned,    \* members whose other manifests declare a version that is not 0.0.0
          Overlap,      \* whether a run may begin while another one runs
          MaxTool,      \* rlsbl is upgraded at most this often
          MaxActs,      \* what people do between runs, a bound
          MaxRuns,      \* the runs of rlsbl, a bound
          MaxStops,     \* the runs stopped part-way, a bound
          None          \* no process, and no member

ScaffoldAssumption ==
  /\ MaxTool \in Nat /\ MaxActs \in Nat /\ MaxRuns \in Nat /\ MaxStops \in Nat
  /\ Changing \subseteq Hunks
  /\ SharedKinds \subseteq {"scratch", "LICENSE"} /\ Versioned \subseteq Members
  /\ Overlap \in BOOLEAN /\ Flags \in [Members -> SUBSET (BOOLEAN \X BOOLEAN)]
  /\ None \notin Procs

VARIABLES declared,     \* the publish mode releasables.toml declares, by member
          disk, base,   \* the working tree: each file's text, and its merge base
          head, headBase,   \* the same as HEAD holds them
          scaffolded,   \* each file as the last scaffold commit touching it left it
          managed,      \* the scaffold state: the text each managed file was recorded with
          bases,        \* whether the directory of the merge bases exists
          hook,         \* the pre-push hook: "none", "shipped" or somebody's "own"
          routers,      \* what the routers inline of each member
          tool,         \* the version of rlsbl, and of its templates
          lock,         \* the process holding the run lock
          run,          \* each process's run
          acts, runs, stops,   \* what people did, the runs begun, and those stopped part-way
          torn,         \* files whose text is newer than the base a merge would start from
          fresh         \* the member of the run that completed last, or None for a sync, nothing done since

tree == <<disk, base, head, headBase, scaffolded, managed, bases, hook, routers>>
vars == <<declared, tree, tool, lock, run, acts, runs, stops, torn, fresh>>

Absent == <<>>
Template(n) == <<"template", n>>
Own(n) == <<"own", n>>
Conflict(x, y) == <<"conflict", x, y>>

(***************************************************************************)
(* What a member renders.                                                  *)
(***************************************************************************)
Go(m)     == IF "go" \in Targets[m] THEN {"ci-go", "VERSION"} ELSE {}
Npm(m)    == IF "npm" \in Targets[m] THEN {"ci-npm", "npmignore"} ELSE {}
Pypi(m)   == IF "pypi" \in Targets[m] THEN {"ci-pypi"} ELSE {}
Publish(mode) == IF mode = "ci" THEN {"publish"} ELSE {}

\* Written while absent and then the project's own, never recorded.
UserOwned == {"npmignore", "LICENSE"}
CI == {"ci-go", "ci-npm", "ci-pypi"}

Kinds == <<"VERSION", "ci-go", "ci-npm", "npmignore", "ci-pypi", "scratch", "LICENSE", "publish">>
Rendered(m, mode) == {m} \X (Go(m) \cup Npm(m) \cup Pypi(m) \cup SharedKinds \cup Publish(mode))
Files == UNION {Rendered(m, "ci") : m \in Members}
FilesOf(m) == {f \in Files : f[1] = m}
InOrder(files) ==
  LET of(m) == SelectSeq([i \in 1..Len(Kinds) |-> <<m, Kinds[i]>>], LAMBDA f : f \in files)
  IN  IF \E m \in Members : files \subseteq FilesOf(m)
      THEN of(CHOOSE m \in Members : files \subseteq FilesOf(m)) ELSE <<>>

\* VERSION is rendered with the version it holds.
Theirs(f) == IF f[2] = "VERSION" /\ disk[f] # Absent THEN disk[f]
             ELSE [h \in Hunks |-> Template(IF h \in Changing THEN tool ELSE 0)]

(***************************************************************************)
(* The plan of one file.                                                   *)
(***************************************************************************)
\* MUTANT: both sides changed, the template wins.
MergeHunkTakesTheirs(ours, from, theirs) == IF theirs = from THEN ours ELSE theirs
MergeHunk(ours, from, theirs) ==
  CASE ours = theirs \/ theirs = from -> ours
    [] ours = from                    -> theirs
    [] OTHER                          -> Conflict(ours, theirs)
Merge(ours, from, theirs) == [h \in Hunks |-> MergeHunk(ours[h], from[h], theirs[h])]
Marked(text) == text # Absent /\ \E h \in Hunks : text[h][1] = "conflict"

\* The base a merge starts from: the stored one, else the file as the last
\* `rlsbl scaffold` commit touching it left it.
BaseOf(f) == IF base[f] # Absent THEN base[f] ELSE scaffolded[f]

PlanRefused(f) ==
  /\ f[2] \notin UserOwned
  /\ disk[f] # Absent /\ BaseOf(f) = Absent /\ disk[f] # Theirs(f)

UncommittedBase(f) == base[f] # Absent /\ headBase[f] # base[f]

PlannedText(f) ==
  LET theirs == Theirs(f) IN
  IF disk[f] = Absent THEN theirs
  ELSE IF \/ f[2] \in UserOwned \/ BaseOf(f) = Absent
          \/ disk[f] = theirs \/ BaseOf(f) = theirs
       THEN disk[f]
  ELSE Merge(disk[f], BaseOf(f), theirs)

PlanFile(f) ==
  LET theirs   == Theirs(f)
      text     == PlannedText(f)
      current  == disk[f] # Absent /\ (disk[f] = theirs \/ BaseOf(f) = theirs)
      keeps    == f[2] \in UserOwned
      pending  == ~keeps /\ disk[f] # Absent /\ UncommittedBase(f)
      stores   == ~keeps /\ (~current \/ base[f] = Absent)
      \* a merge that conflicts is written and not committed
      clashes  == ~keeps /\ disk[f] # Absent /\ ~current /\ Marked(text)
  IN  [text   |-> text,
       write  |-> IF keeps THEN disk[f] = Absent ELSE disk[f] = Absent \/ ~current,
       store  |-> stores, base |-> theirs,
       record |-> ~keeps,
       commit |-> ~clashes /\ (text # disk[f] \/ pending \/ (~keeps /\ ~current)),
       commitBase |-> ~clashes /\ (stores \/ pending),
       clashes |-> clashes]

\* Managed files of the member no template renders any more: refused when
\* edited since they were recorded.
Orphans(m, mode) == {f \in FilesOf(m) : managed[f] # Absent /\ f \notin Rendered(m, mode)}
OrphanEdited(f) == disk[f] # Absent /\ disk[f] # managed[f]

BasesMissing(m) == ~bases /\ \E f \in FilesOf(m) : managed[f] # Absent

\* A go module's VERSION is created at 0.0.0, which another target's
\* manifest, at the version it declares, must not disagree with.
VersionDisagrees(m) ==
  /\ "go" \in Targets[m] /\ disk[<<m, "VERSION">>] = Absent
  /\ m \in Versioned

Idle == [at |-> "idle"]
Nobody == \A p \in Procs : run[p] = Idle

Mode(p, m) == run[p].modes[m]

(***************************************************************************)
(* A run reads the declarations and edits them in memory as its flags say, *)
(* takes the lock, and plans.                                              *)
(***************************************************************************)
Begin(p, m, mode, flags) ==
  LET modes == [declared EXCEPT ![m] = mode] IN
  /\ run[p] = Idle /\ runs < MaxRuns
  /\ ~Overlap => Nobody
  /\ run' = [run EXCEPT ![p] =
       [at |-> "begun", member |-> m, modes |-> modes, edited |-> modes # declared,
        auto |-> flags[1], skip |-> flags[2]]]
  /\ runs' = runs + 1
  /\ UNCHANGED <<declared, tree, tool, lock, acts, stops, torn, fresh>>

Acquire(p) ==
  /\ run[p].at = "begun" /\ lock = None
  /\ lock' = p
  /\ run' = [run EXCEPT ![p].at = "plan"]
  /\ UNCHANGED <<declared, tree, tool, acts, runs, stops, torn, fresh>>

Skipped(p) == IF run[p].skip THEN SharedKinds ELSE {}
ToPlan(p) == {f \in Rendered(run[p].member, Mode(p, run[p].member)) : f[2] \notin Skipped(p)}

Refused(p) ==
  LET m == run[p].member IN
  \/ hook = "own"
  \/ BasesMissing(m)
  \/ VersionDisagrees(m)
  \/ \E f \in ToPlan(p) : PlanRefused(f)
  \/ \E f \in Orphans(m, Mode(p, m)) : OrphanEdited(f)

Refuse(p) ==
  /\ run[p].at = "plan" /\ Refused(p)
  /\ run' = [run EXCEPT ![p] = Idle]
  /\ lock' = None
  /\ UNCHANGED <<declared, tree, tool, acts, runs, stops, torn, fresh>>

Plan(p) ==
  LET m == run[p].member
      plans == [f \in ToPlan(p) |-> PlanFile(f)]
      keep(f) == f \notin FilesOf(m) \/ (f[2] \in Skipped(p) /\ f \in Rendered(m, Mode(p, m)))
  IN
  /\ run[p].at = "plan" /\ ~Refused(p)
  /\ run' = [run EXCEPT ![p] =
       [at |-> IF run[p].edited THEN "declare" ELSE "text", member |-> m, modes |-> run[p].modes, edited |-> run[p].edited,
        auto |-> run[p].auto, skip |-> run[p].skip, plans |-> plans,
        todo |-> InOrder({f \in ToPlan(p) : plans[f].write \/ plans[f].store}),
        orphans |-> Orphans(m, Mode(p, m)),
        clashed |-> \E f \in ToPlan(p) : plans[f].clashes,
        state |-> [f \in Files |->
           IF f \in ToPlan(p) THEN (IF plans[f].record THEN plans[f].text ELSE Absent)
           ELSE IF keep(f) THEN managed[f] ELSE Absent]]]
  /\ fresh' = {}
  /\ UNCHANGED <<declared, tree, tool, lock, acts, runs, stops, torn>>

(***************************************************************************)
(* The writes, one at a time.                                              *)
(***************************************************************************)
At(p, at) == run[p].at = at
Step(p, at) == run' = [run EXCEPT ![p].at = at]

\* The text written is the one this run read before it had the lock.
WriteDeclarations(p) ==
  /\ At(p, "declare")
  /\ declared' = run[p].modes
  /\ Step(p, "text")
  /\ UNCHANGED <<tree, tool, lock, acts, runs, stops, torn, fresh>>

WriteText(p) ==
  LET f == Head(run[p].todo) IN
  /\ At(p, "text") /\ run[p].todo # <<>>
  /\ disk' = IF run[p].plans[f].write THEN [disk EXCEPT ![f] = run[p].plans[f].text] ELSE disk
  /\ Step(p, "base")
  /\ UNCHANGED <<declared, base, head, headBase, scaffolded, managed, bases, hook, routers,
                 tool, lock, acts, runs, stops, torn, fresh>>

WriteBase(p) ==
  LET f == Head(run[p].todo)
      store == run[p].plans[f].store
  IN
  /\ At(p, "base")
  /\ base' = IF store THEN [base EXCEPT ![f] = run[p].plans[f].base] ELSE base
  /\ bases' = (bases \/ store)
  /\ torn' = IF store /\ ~Marked(disk[f]) THEN torn \ {f} ELSE torn
  /\ run' = [run EXCEPT ![p].at = "text", ![p].todo = Tail(@)]
  /\ UNCHANGED <<declared, disk, head, headBase, scaffolded, managed, hook, routers,
                 tool, lock, acts, runs, stops, fresh>>

RemoveOrphans(p) ==
  /\ At(p, "text") /\ run[p].todo = <<>>
  /\ disk' = [f \in Files |-> IF f \in run[p].orphans THEN Absent ELSE disk[f]]
  /\ Step(p, IF run[p].orphans = {} THEN "hooks" ELSE "orphaned")
  /\ UNCHANGED <<declared, base, head, headBase, scaffolded, managed, bases, hook, routers,
                 tool, lock, acts, runs, stops, torn, fresh>>

RemoveOrphanBases(p) ==
  /\ At(p, "orphaned")
  /\ base' = [f \in Files |-> IF f \in run[p].orphans THEN Absent ELSE base[f]]
  /\ Step(p, "hooks")
  /\ UNCHANGED <<declared, disk, head, headBase, scaffolded, managed, bases, hook, routers,
                 tool, lock, acts, runs, stops, torn, fresh>>

InstallHooks(p) ==
  /\ At(p, "hooks")
  /\ hook' = "shipped"
  /\ Step(p, "state")
  /\ UNCHANGED <<declared, disk, base, head, headBase, scaffolded, managed, bases, routers,
                 tool, lock, acts, runs, stops, torn, fresh>>

WriteState(p) ==
  /\ At(p, "state")
  /\ managed' = run[p].state
  /\ Step(p, "commit")
  /\ UNCHANGED <<declared, disk, base, head, headBase, scaffolded, bases, hook, routers,
                 tool, lock, acts, runs, stops, torn, fresh>>

\* The files and bases the run commits, as the working tree holds them.
Committed(p) == {f \in DOMAIN run[p].plans : run[p].plans[f].commit} \cup run[p].orphans
\* MUTANT: the merge bases stay out of the commit.
CommittedBases(p) == {f \in DOMAIN run[p].plans : run[p].plans[f].commitBase} \cup run[p].orphans

CommitWritten(p) ==
  LET files == IF run[p].auto THEN Committed(p) ELSE {}
      held  == IF run[p].auto THEN CommittedBases(p) ELSE {}
  IN
  /\ At(p, "commit")
  /\ head' = [f \in Files |-> IF f \in files THEN disk[f] ELSE head[f]]
  /\ headBase' = [f \in Files |-> IF f \in held THEN base[f] ELSE headBase[f]]
  /\ scaffolded' = [f \in Files |->
       IF f \in files /\ disk[f] # head[f] THEN disk[f] ELSE scaffolded[f]]
  /\ IF run[p].clashed
     THEN run' = [run EXCEPT ![p] = Idle] /\ lock' = None
     ELSE run' = [run EXCEPT ![p].at = "sync"] /\ lock' = lock
  /\ UNCHANGED <<declared, disk, base, managed, bases, hook, routers, tool, acts, runs, stops, torn, fresh>>

(***************************************************************************)
(* The routers.                                                            *)
(***************************************************************************)
Sources(m) == {f \in FilesOf(m) : f[2] \in CI /\ disk[f] # Absent}
PublishOf(m) == <<m, "publish">>

\* A workflow left with markers, a publishing member without its publish
\* workflow, or one without CI to wait for, refuses the sync.
SyncRefused(modes) ==
  \E m \in Members :
    \/ \E f \in Sources(m) : Marked(disk[f])
    \/ /\ modes[m] = "ci"
       /\ disk[PublishOf(m)] = Absent \/ Marked(disk[PublishOf(m)]) \/ Sources(m) = {}

Routed(modes) ==
  [m \in Members |->
     [ci      |-> [f \in Sources(m) |-> disk[f]],
      publish |-> IF modes[m] = "ci" THEN disk[PublishOf(m)] ELSE Absent]]

\* MUTANT: a publish workflow left behind is not removed.
SuppressedNone(modes) == {f \in Files : FALSE /\ modes[f[1]] = "none"}

\* Publish workflows of members that publish nothing.
Suppressed(modes) == {PublishOf(m) : m \in {k \in Members : modes[k] # "ci" /\ disk[PublishOf(k)] # Absent}}

\* `monorepo sync` on its own, which takes no lock.
SyncCommand(p) ==
  /\ run[p] = Idle /\ runs < MaxRuns
  /\ ~Overlap => Nobody
  /\ \E flags \in UNION {Flags[m] : m \in Members} :
       run' = [run EXCEPT ![p] =
         [at |-> "sync", member |-> None, modes |-> declared, auto |-> flags[1], skip |-> FALSE]]
  /\ runs' = runs + 1 /\ fresh' = {}
  /\ UNCHANGED <<declared, tree, tool, lock, acts, stops, torn>>

Released(p) == IF lock = p THEN None ELSE lock

Sync(p) ==
  /\ At(p, "sync")
  /\ IF SyncRefused(run[p].modes)
     THEN /\ run' = [run EXCEPT ![p] = Idle] /\ lock' = Released(p)
          /\ UNCHANGED routers
     ELSE /\ routers' = Routed(run[p].modes)
          /\ Step(p, "suppress") /\ lock' = lock
  /\ UNCHANGED <<declared, disk, base, head, headBase, scaffolded, managed, bases, hook,
                 tool, acts, runs, stops, torn, fresh>>

Suppress(p) ==
  LET gone == Suppressed(run[p].modes) IN
  /\ At(p, "suppress")
  /\ disk' = [f \in Files |-> IF f \in gone THEN Absent ELSE disk[f]]
  /\ head' = IF run[p].auto THEN [f \in Files |-> IF f \in gone THEN Absent ELSE head[f]] ELSE head
  /\ run' = [run EXCEPT ![p] = Idle]
  /\ lock' = Released(p)
  /\ fresh' = IF run[p].auto /\ ~run[p].skip THEN {run[p].member} ELSE {}
  /\ UNCHANGED <<declared, base, headBase, scaffolded, managed, bases, hook, routers,
                 tool, acts, runs, stops, torn>>

\* A killed command, or a call that fails: the lock goes with the process.
\* Before its first write a run that stops has changed nothing.
Stop(p) ==
  /\ run[p].at \notin {"idle", "begun", "plan"} /\ stops < MaxStops /\ stops' = stops + 1
  /\ run' = [run EXCEPT ![p] = Idle]
  /\ lock' = Released(p)
  /\ torn' = IF At(p, "base") /\ run[p].plans[Head(run[p].todo)].store
             THEN torn \cup {Head(run[p].todo)} ELSE torn
  /\ fresh' = {}
  /\ UNCHANGED <<declared, tree, tool, acts, runs>>

(***************************************************************************)
(* What people do, between runs.                                           *)
(***************************************************************************)
Person == Nobody /\ acts < MaxActs /\ acts' = acts + 1 /\ fresh' = {}

Edit(f, h) ==
  /\ Person /\ f \in Editable /\ disk[f] # Absent
  /\ disk' = [disk EXCEPT ![f][h] = Own(acts)]
  /\ UNCHANGED <<declared, base, head, headBase, scaffolded, managed, bases, hook, routers,
                 tool, lock, run, runs, stops, torn>>

\* A marked hunk is resolved to one of its sides.
ResolveHunk(f, h) ==
  /\ Nobody /\ fresh' = {} /\ disk[f] # Absent /\ disk[f][h][1] = "conflict"
  /\ \E side \in {2, 3} : disk' = [disk EXCEPT ![f][h] = @[side]]
  /\ UNCHANGED <<declared, base, head, headBase, scaffolded, managed, bases, hook, routers,
                 tool, lock, run, acts, runs, stops, torn>>

DeleteFile(f) ==
  /\ Person /\ f \in Editable /\ disk[f] # Absent
  /\ disk' = [disk EXCEPT ![f] = Absent]
  /\ UNCHANGED <<declared, base, head, headBase, scaffolded, managed, bases, hook, routers,
                 tool, lock, run, runs, stops, torn>>

CommitWork ==
  /\ Person
  /\ head' = disk /\ headBase' = base
  /\ UNCHANGED <<declared, disk, base, scaffolded, managed, bases, hook, routers,
                 tool, lock, run, runs, stops, torn>>

\* The merge bases are lost, with their directory or without it: the refusal
\* of a run that finds no directory says to create it.
LoseBases ==
  /\ Person /\ bases
  /\ torn' = torn \cup {f \in Files : disk[f] # Absent /\ disk[f] # scaffolded[f]}
  /\ base' = [f \in Files |-> Absent] /\ bases' \in BOOLEAN
  /\ UNCHANGED <<declared, disk, head, headBase, scaffolded, managed, hook, routers,
                 tool, lock, run, runs, stops>>

RemoveHook ==
  /\ Person /\ hook = "own"
  /\ hook' = "none"
  /\ UNCHANGED <<declared, disk, base, head, headBase, scaffolded, managed, bases, routers,
                 tool, lock, run, runs, stops, torn>>

Declare(m) ==
  /\ Person
  /\ declared' = [declared EXCEPT ![m] = IF @ = "ci" THEN "none" ELSE "ci"]
  /\ UNCHANGED <<tree, tool, lock, run, runs, stops, torn>>

Upgrade ==
  /\ Nobody /\ tool < MaxTool
  /\ tool' = tool + 1 /\ fresh' = {}
  /\ UNCHANGED <<declared, tree, lock, run, acts, runs, stops, torn>>

Init ==
  /\ declared = [m \in Members |-> "ci"]
  /\ disk = [f \in Files |-> IF f[1] \in Versioned /\ f[2] = "VERSION"
                            THEN [h \in Hunks |-> Own(0)] ELSE Absent]
  /\ head = disk
  /\ base = [f \in Files |-> Absent] /\ headBase = base
  /\ scaffolded = base /\ managed = base
  /\ bases = FALSE /\ hook \in {"none", "own"}
  /\ routers = [m \in Members |-> [ci |-> <<>>, publish |-> Absent]]
  /\ tool = 0 /\ lock = None /\ run = [p \in Procs |-> Idle]
  /\ acts = 0 /\ runs = 0 /\ stops = 0 /\ torn = {} /\ fresh = {}

RunStep(p) ==
  \/ Acquire(p) \/ Refuse(p) \/ Plan(p) \/ WriteDeclarations(p) \/ WriteText(p) \/ WriteBase(p)
  \/ RemoveOrphans(p) \/ RemoveOrphanBases(p) \/ InstallHooks(p) \/ WriteState(p)
  \/ CommitWritten(p) \/ Sync(p) \/ Suppress(p)

People ==
  \/ \E f \in Files, h \in Hunks : Edit(f, h) \/ ResolveHunk(f, h)
  \/ \E f \in Files : DeleteFile(f)
  \/ CommitWork \/ LoseBases \/ RemoveHook
  \/ \E m \in Members : Declare(m)
  \/ Upgrade

Next ==
  \/ \E p \in Procs :
       \/ RunStep(p) \/ SyncCommand(p) \/ Stop(p)
       \/ \E m \in Members, mode \in {"ci", "none"}, flags \in BOOLEAN \X BOOLEAN :
            flags \in Flags[m] /\ Begin(p, m, mode, flags)
  \/ People

Spec == Init /\ [][Next]_vars

(***************************************************************************)
(* Properties.                                                             *)
(***************************************************************************)
RECURSIVE Holds(_, _)
\* A value a hunk holds, alone or on a side of a conflict.
Holds(value, own) ==
  value = own \/ (value[1] = "conflict" /\ (Holds(value[2], own) \/ Holds(value[3], own)))

\* A run never drops what a person wrote into a file it still renders: the
\* merge keeps it, or a conflict holds it.  The exception is a base rebuilt
\* from history, which is the file itself and not the template it came from.
EditKept(p) ==
  WriteText(p) =>
    LET f == Head(run[p].todo) IN
    disk[f] # Absent => \A h \in Hunks :
      disk[f][h][1] = "own" => Holds(disk'[f][h], disk[f][h]) \/ base[f] = Absent

\* A conflict is about something a person wrote, unless a run was stopped
\* between a file's text and its merge base, or the bases were lost while
\* the text was not committed.
ConflictIsReal ==
  \A f \in Files \ torn : disk[f] # Absent =>
    \A h \in Hunks : disk[f][h][1] = "conflict" => \E n \in 0..MaxActs : Holds(disk[f][h], Own(n))

\* A member scaffolded, committed and left alone is scaffolded again without
\* a change: to its files, their bases, the scaffold state, or HEAD.
RerunChangesNothing(p) ==
  Plan(p) /\ run[p].member \in fresh /\ ~run[p].edited /\ ~run[p].skip =>
    /\ \A f \in DOMAIN run'[p].plans :
         LET plan == run'[p].plans[f] IN
         plan.text = disk[f] /\ ~plan.store /\ ~plan.commit /\ ~plan.commitBase
    /\ run'[p].orphans = {}
    /\ run'[p].state = managed

\* Running scaffold again is safe: it keeps what people wrote, in conflicts
\* that are about that and nothing else, and where nothing changed it changes
\* nothing.
RerunIsSafe ==
  [][ConflictIsReal' /\ \A p \in Procs : EditKept(p) /\ RerunChangesNothing(p)]_vars

\* After a run that completed, what is declared of every member, its publish
\* workflow and the routers agree.
PublishFollowsMode ==
  Nobody /\ fresh # {} =>
    \A m \in Members :
      /\ disk[PublishOf(m)] # Absent <=> declared[m] = "ci"
      /\ routers = Routed(declared)
=============================================================================
