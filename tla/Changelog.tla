------------------------------ MODULE Changelog ------------------------------
(***************************************************************************)
(* The JSONL changelogs of a workspace (internal/changelog, the changelog  *)
(* commands and the changelog checks): entries are added, amended, edited, *)
(* removed, remapped and finalized by commands that hold the release lock, *)
(* CHANGELOG.md and the roll-up are generated from them, and a released    *)
(* version's GitHub Release follows them.  A person commits, rewrites      *)
(* commits, collects garbage, pushes and writes lines by hand meanwhile,   *)
(* and a command is killed between two of its writes.                      *)
(*                                                                         *)
(* The lock is modelled by `run`: one command reads and writes at a time   *)
(* (RunLock has the lock itself).  The commits the commands make change    *)
(* tool-owned paths only, so they are exempt, and appear in `head` alone.  *)
(***************************************************************************)
EXTENDS Naturals, Sequences, FiniteSets, FiniteSetsExt, SequencesExt

CONSTANTS Releasables, Member, State, \* each releasable's one member, and its own state directories
          Works,                     \* the commits a person makes: [paths, auto]
          Kinds,                     \* what an entry may say: [facing, type, text, reason]
          Edits,                     \* the sparse updates: [facing, type, text], None where absent
          Bumps, Start,
          NoAutoCommit,              \* the commands run with --no-auto-commit
          PerEntry, PerCommit,       \* MaxCommitsPerEntry and MaxEntriesPerCommit
          MaxNamed, MaxCommits, MaxEntries, MaxReleases, MaxCommands, MaxStops, MaxLines,
          MaxDeeds,                    \* bounds, the last on those of four kinds together
          None

VARIABLES commits,     \* every commit made, by id: [paths, auto]
          objects,     \* those the object database still holds
          branch,      \* HEAD's first-parent line, oldest first
          releases,    \* the recorded releases: [rel, version, length of the branch, range, upto]
          origin,      \* how much of the branch was pushed
          unreleased, released, archives,     \* the changelog files and the archives' fates
          home, rollup,                       \* CHANGELOG.md of each, and the workspace's
          head,                               \* the files at HEAD
          notes,                              \* the GitHub Releases' texts
          run, candidate, resyncs,            \* the command at work, what each release in flight holds, the Releases left to rewrite
          hooks,                              \* post-rewrite maps not yet followed
          stopped, stale, trimmed,            \* what stops, failed rewrites and removals left behind
          used                                \* what was spent of the bounds

vars == <<commits, objects, branch, releases, origin, unreleased, released, archives, home, rollup, head,
          notes, run, candidate, resyncs, hooks, stopped, stale, trimmed, used>>

Records == {State[rel] : rel \in Releasables}
Idle == [step |-> "idle"]
Versions(rel) == {s[2] : s \in {t \in DOMAIN released : t[1] = rel}}

(***************************************************************************)
(* Scopes and ranges                                                       *)
(***************************************************************************)
Resolves(c) == c \in objects
Claims(rel, c) == {Member[rel], State[rel]} \cap commits[c].paths # {}
Packages(rel, named) == {Member[rel]} \cap UNION {commits[c].paths : c \in named}
Exempt(c) == commits[c].auto \/ (commits[c].paths # {} /\ commits[c].paths \subseteq Records)
Needing(rel, cs, covered) == {c \in cs : Claims(rel, c) /\ c \notin covered /\ ~ Exempt(c)}

Releases(rel) == SelectSeq(releases, LAMBDA r : r.rel = rel)
Nearest(rel) == IF Releases(rel) = <<>> THEN 0 ELSE Last(Releases(rel)).length
UnreleasedRange(rel) == {branch[i] : i \in (Nearest(rel) + 1)..Len(branch)}
InScopeOf(rel, range) == {c \in range : Claims(rel, c)}

(***************************************************************************)
(* Entries                                                                 *)
(***************************************************************************)
Named(es) == UNION {es[i].commits : i \in DOMAIN es}
CoveredCommits(es) == {c \in Named(es) : Resolves(c)}

Overlaps(existing, entry) ==
  \E i \in DOMAIN existing : /\ existing[i].commits \cap entry.commits # {}
                             /\ existing[i].facing = entry.facing /\ existing[i].type = entry.type

WellSaid(entry) == entry.facing => entry.text # "" /\ entry.type # ""
(* Prepare's answer: the entry, or None where it refuses *)
Prepare(rel, id, named, kind, resolved, existing) ==
  LET entry == [id |-> id, commits |-> named, facing |-> kind.facing, type |-> kind.type, text |-> kind.text,
                packages |-> IF resolved THEN Packages(rel, named) ELSE {}, reason |-> kind.reason]
  IN  IF /\ resolved => \A c \in named : Resolves(c) /\ Claims(rel, c)
         /\ WellSaid(entry)
         /\ kind.reason <=> Cardinality(named) > PerEntry
         /\ ~ Overlaps(existing, entry)
      THEN entry ELSE None

ApplyEdit(entry, edit) ==
  LET off == edit.facing # None /\ edit.facing = <<FALSE>>
      Field(new, old) == IF new = None \/ (off /\ new # <<"">>) THEN old ELSE new[1]
      out == [entry EXCEPT !.facing = IF edit.facing = None THEN @ ELSE edit.facing[1],
                           !.type = Field(edit.type, @), !.text = Field(edit.text, @)]
  IN  IF WellSaid(out) THEN out ELSE None

(* A place is a releasable's unreleased file (version 0) or a version's *)
FileAt(rel, v) == IF v = 0 THEN unreleased[rel] ELSE released[<<rel, v>>]
Places(rel) == {0} \cup Versions(rel)
(* The entries of an id, or that name a commit (id 0)                      *)
Find(rel, id, c) ==
  {<<v, i>> \in UNION {{<<v, i>> : i \in DOMAIN FileAt(rel, v)} : v \in Places(rel)} :
     LET entry == FileAt(rel, v)[i] IN IF id # 0 THEN entry.id = id ELSE c \in entry.commits}
(* One match, or several narrowed by the type the edit writes *)
One(rel, matches, type) ==
  LET kept == {m \in matches : type # None /\ FileAt(rel, m[1])[m[2]].type = type[1]}
  IN  IF Cardinality(matches) = 1 THEN matches ELSE IF Cardinality(kept) = 1 THEN kept ELSE {}

RemappedEntry(entry, map) == [entry EXCEPT !.commits = {IF c \in DOMAIN map THEN map[c] ELSE c : c \in @}]
Remapped(es, map) == [i \in DOMAIN es |-> RemappedEntry(es[i], map)]

(***************************************************************************)
(* The generated documents                                                 *)
(***************************************************************************)
Group(es, type) == SelectSeq(es, LAMBDA e : e.facing /\ e.type = type)
Section(es, fate) ==
  [t \in {"breaking", "feature", "fix"} |->
     [i \in DOMAIN Group(es, t) |-> <<Group(es, t)[i].text, Group(es, t)[i].packages>>]] @@ [note |-> fate]
ArchiveMeta(rel, v) == IF <<rel, v>> \in DOMAIN archives THEN archives[<<rel, v>>] ELSE ""
VersionSection(rel, v) == Section(released[<<rel, v>>], ArchiveMeta(rel, v))
Sections(rel) ==
  [v \in Versions(rel) \cup (IF unreleased[rel] = <<>> THEN {} ELSE {0}) |->
     IF v = 0 THEN Section(unreleased[rel], "") ELSE VersionSection(rel, v)]
RollUp == [rel \in {r \in Releasables : Sections(r) # <<>>} |-> Sections(rel)]

(***************************************************************************)
(* The checks                                                              *)
(***************************************************************************)
HashFindings(rel) == {c \in Named(unreleased[rel]) : ~ Resolves(c)}
RangeFindings(rel) == {c \in CoveredCommits(unreleased[rel]) : c \notin InScopeOf(rel, UnreleasedRange(rel))}
CoverageEveryFile(rel) ==
  Needing(rel, UnreleasedRange(rel), UNION {CoveredCommits(FileAt(rel, v)) : v \in Places(rel)})
CoverageOf(rel) == Needing(rel, UnreleasedRange(rel), CoveredCommits(unreleased[rel]))
OrphanFindings(rel) ==
  {i \in DOMAIN unreleased[rel] : unreleased[rel][i].commits \cap InScopeOf(rel, UnreleasedRange(rel)) \cap objects = {}}
UserFacingProblem(rel, bump) ==
  (bump = "infra") = (\E i \in DOMAIN unreleased[rel] : unreleased[rel][i].facing)
BatchCommitFindings(rel) ==
  {i \in DOMAIN unreleased[rel] : Cardinality(unreleased[rel][i].commits) > PerEntry /\ ~ unreleased[rel][i].reason}
BatchEntryFindings(rel) ==
  {c \in DOMAIN commits : Cardinality(Find(rel, 0, c)) > PerCommit}
ChecksPass(rel, bump) ==
  /\ HashFindings(rel) = {} /\ RangeFindings(rel) = {} /\ CoverageOf(rel) = {} /\ OrphanFindings(rel) = {}
  /\ ~ UserFacingProblem(rel, bump)
  /\ BatchCommitFindings(rel) = {} /\ BatchEntryFindings(rel) = {}

(* The pre-push hook asks every file, and every releasable the push touches *)
Pushed == {branch[i] : i \in (origin + 1)..Len(branch)}
PushCoverage(rel) ==
  LET covered == UNION {CoveredCommits(FileAt(rel, v)) : v \in Places(rel)}
  IN  Needing(rel, Pushed, covered)

(***************************************************************************)
(* What a person and git do.  A command reads the history as it begins and *)
(* not again, so what changes the history comes between commands.          *)
(***************************************************************************)
Spend(what) == used' = [used EXCEPT ![what] = @ + 1]
Deeds == used.commits + used.commands + used.stops + used.lines
Left(what) ==
  /\ what # "entries" => Deeds < MaxDeeds
  /\ CASE what = "commits" -> used.commits < MaxCommits
       [] what = "entries" -> used.entries < MaxEntries
       [] what = "commands" -> used.commands < MaxCommands
       [] what = "stops" -> used.stops < MaxStops
       [] what = "lines" -> used.lines < MaxLines
Stored == <<unreleased, released, archives, home, rollup, head, notes>>
History == <<commits, objects, branch, releases, origin, candidate>>
Ghosts == <<stopped, stale, trimmed>>

Commit ==
  /\ run = Idle /\ Left("commits") /\ Spend("commits")
  /\ \E w \in Works :
       LET id == Cardinality(DOMAIN commits) + 1
       IN  /\ commits' = commits @@ (id :> w)
           /\ objects' = objects \cup {id}
           /\ branch' = Append(branch, id)
  /\ UNCHANGED <<releases, origin, candidate, Stored, run, resyncs, hooks, Ghosts>>

(* An amend of the tip (n = 1) or a squash of the last two commits, of     *)
(* those no release and no push holds; git calls the post-rewrite hook     *)
Held == Max({origin} \cup {releases[i].length : i \in DOMAIN releases} \cup {candidate[rel] : rel \in Releasables})
Rewrite ==
  /\ run = Idle /\ Left("commits") /\ Spend("commits")
  /\ \E n \in {1, 2} :
       LET old == {branch[i] : i \in (Len(branch) - n + 1)..Len(branch)}
           id == Cardinality(DOMAIN commits) + 1
       IN  /\ Len(branch) - n >= Held
           /\ commits' = commits @@ (id :> [paths |-> UNION {commits[c].paths : c \in old}, auto |-> FALSE])
           /\ objects' = objects \cup {id}
           /\ branch' = Append(SubSeq(branch, 1, Len(branch) - n), id)
           /\ hooks' = Append(hooks, [c \in old |-> id])
  /\ UNCHANGED <<releases, origin, candidate, Stored, run, resyncs, Ghosts>>

CollectGarbage ==
  /\ run = Idle /\ objects # ToSet(branch)
  /\ objects' = ToSet(branch)
  /\ UNCHANGED <<commits, branch, releases, origin, candidate, Stored, run, resyncs, hooks, Ghosts, used>>

(* A push of a branch, which the pre-push hook lets through *)
Push ==
  /\ run = Idle /\ origin < Len(branch)
  /\ \A rel \in Releasables : PushCoverage(rel) = {}
  /\ origin' = Len(branch)
  /\ UNCHANGED <<commits, objects, branch, releases, candidate, Stored, run, resyncs, hooks, Ghosts, used>>

(* A person's line at the end of an unreleased file, written without the   *)
(* lock; a release in flight is Release's subject                          *)
WriteLine(rel) ==
  /\ Left("lines") /\ Left("entries")
  /\ used' = [used EXCEPT !.lines = @ + 1, !.entries = @ + 1]
  /\ run # Idle => run.command # "release"
  /\ unreleased' = [unreleased EXCEPT ![rel] = Append(@, [id |-> used.entries + 1, commits |-> {Last(branch)},
          facing |-> FALSE, type |-> "", text |-> "", packages |-> {}, reason |-> FALSE])]
  /\ UNCHANGED <<History, released, archives, home, rollup, head, notes, run, resyncs, hooks, Ghosts>>

(***************************************************************************)
(* The commands, each from the moment it holds the lock                    *)
(***************************************************************************)
Work(step, command, rel, v) ==
  [step |-> step, command |-> command, rel |-> rel, v |-> v, index |-> 0, seen |-> <<>>, entry |-> None,
   auto |-> command \notin NoAutoCommit]
Begin(work) ==
  /\ run = Idle
  /\ work.command # "release" => Left("commands")
  /\ run' = work
Opened == UNCHANGED <<History, Stored, resyncs, Ghosts>>

(* A released version's Release can be told to exist or not *)
Fates == {"recorded", "unrecoverable", "never released"}
ReleasedFate(rel, v) == v # 0 => ArchiveMeta(rel, v) \in Fates

CommitSets == {named \in SUBSET DOMAIN commits : named # {} /\ Cardinality(named) <= MaxNamed}
Add(rel) ==
  /\ Left("entries")
  /\ \E named \in CommitSets, kind \in Kinds :
       LET entry == Prepare(rel, used.entries + 1, named, kind, TRUE, unreleased[rel])
       IN  /\ entry # None
           /\ Begin([Work("write", "add", rel, 0) EXCEPT !.entry = entry])
  /\ used' = [used EXCEPT !.commands = @ + 1, !.entries = @ + 1]
  /\ Opened /\ UNCHANGED hooks

Amend(rel, v) ==
  /\ Left("entries")
  /\ ReleasedFate(rel, v)
  /\ \E named \in CommitSets, kind \in Kinds, resolved \in BOOLEAN :
       LET entry == Prepare(rel, used.entries + 1, named, kind, resolved, released[<<rel, v>>])
       IN  /\ entry # None
           /\ Begin([Work("write", "amend", rel, v) EXCEPT !.entry = entry])
  /\ used' = [used EXCEPT !.commands = @ + 1, !.entries = @ + 1]
  /\ Opened /\ UNCHANGED hooks

(* The flags of an edit or a removal: an entry's id, or a commit it names  *)
Selectors == {<<id, 0>> : id \in 1..used.entries} \cup {<<0, c>> : c \in DOMAIN commits}
Edit(rel) ==
  /\ \E sel \in Selectors, edit \in Edits :
       /\ sel[2] # 0 => Resolves(sel[2])
       /\ \E m \in One(rel, Find(rel, sel[1], sel[2]), edit.type) :
            LET entry == ApplyEdit(FileAt(rel, m[1])[m[2]], edit)
            IN  /\ ReleasedFate(rel, m[1])
                /\ entry # None
                /\ Begin([Work("write", "edit", rel, m[1]) EXCEPT !.index = m[2], !.seen = FileAt(rel, m[1]),
                                                                  !.entry = entry])
  /\ Spend("commands")
  /\ Opened /\ UNCHANGED hooks

(* A commit that no longer resolves is matched as written *)
RemoveEntry(rel) ==
  /\ \E sel \in Selectors :
       \E m \in One(rel, Find(rel, sel[1], sel[2]), None) :
          /\ ReleasedFate(rel, m[1])
          /\ Begin([Work("write", "remove", rel, m[1]) EXCEPT !.index = m[2], !.seen = FileAt(rel, m[1]),
                                                              !.entry = FileAt(rel, m[1])[m[2]]])
  /\ Spend("commands")
  /\ Opened /\ UNCHANGED hooks

Generate(rel) ==
  /\ Versions(rel) # {} \/ unreleased[rel] # <<>>
  /\ Begin(Work("home", "generate", rel, 0))
  /\ Spend("commands")
  /\ Opened /\ UNCHANGED hooks

(* `changelog remap --stdin`, which the post-rewrite hook runs *)
RemapAll ==
  /\ hooks # <<>> /\ run = Idle
  /\ run' = [Work("remap", "remap", None, 0) EXCEPT !.seen = Head(hooks)]
  /\ hooks' = Tail(hooks)
  /\ Opened /\ UNCHANGED used

(* A release passes the checks over a clean tree; what it releases is what *)
(* the branch holds then                                                   *)
Working == [unreleased |-> unreleased, released |-> released, home |-> home, rollup |-> rollup]
NextVersion(rel) == Cardinality({s \in DOMAIN archives : s[1] = rel}) + 1
BeginRelease(rel, bump) ==
  /\ Len(releases) < MaxReleases
  /\ head = Working
  /\ ChecksPass(rel, bump)
  /\ <<rel, NextVersion(rel)>> \notin DOMAIN released
  /\ Begin(Work("finalize", "release", rel, NextVersion(rel)))
  /\ candidate' = [candidate EXCEPT ![rel] = Len(branch)]
  /\ UNCHANGED <<used, commits, objects, branch, releases, origin, Stored, resyncs, hooks, Ghosts>>

(* A release stopped after it finalized is taken up again; one stopped     *)
(* between Finalize's two writes is refused until a person, finding every  *)
(* entry unreleased still, takes the file away                             *)
ResumeRelease(rel) ==
  /\ Len(releases) < MaxReleases
  /\ <<rel, NextVersion(rel)>> \in DOMAIN released
  /\ unreleased[rel] = <<>>
  /\ Begin(Work("archive", "release", rel, NextVersion(rel)))
  /\ Opened /\ UNCHANGED <<hooks, used>>
RemoveLeftover(rel) ==
  /\ run = Idle
  /\ <<rel, NextVersion(rel)>> \in DOMAIN released
  /\ ToSet(released[<<rel, NextVersion(rel)>>]) \subseteq ToSet(unreleased[rel])
  /\ released' = [s \in DOMAIN released \ {<<rel, NextVersion(rel)>>} |-> released[s]]
  /\ UNCHANGED <<History, unreleased, archives, home, rollup, head, notes, run, resyncs, hooks, Ghosts, used>>

(***************************************************************************)
(* The steps of the command that holds the lock                            *)
(***************************************************************************)
Unchanged == UNCHANGED <<History, archives, head, notes, resyncs, hooks, Ghosts, used>>
SetFile(rel, v, es) ==
  IF v = 0 THEN unreleased' = [unreleased EXCEPT ![rel] = es] /\ UNCHANGED released
           ELSE released' = [s \in DOMAIN released \cup {<<rel, v>>} |-> IF s = <<rel, v>> THEN es ELSE released[s]]
                /\ UNCHANGED unreleased
AfterUnreleased == [run EXCEPT !.step = IF run.auto THEN "commit" ELSE "end"]
After == [run EXCEPT !.step = IF run.v # 0 THEN "home" ELSE IF run.auto THEN "commit" ELSE "end"]

(* An append reads the file again; a rewrite refuses a file that changed   *)
AppendLine ==
  /\ run.step = "write" /\ run.command \in {"add", "amend"}
  /\ SetFile(run.rel, run.v, Append(FileAt(run.rel, run.v), run.entry))
  /\ run' = After
  /\ UNCHANGED <<home, rollup>> /\ Unchanged
Rewritten(es) == IF run.command = "edit" THEN [es EXCEPT ![run.index] = run.entry] ELSE RemoveAt(es, run.index)
RewriteUnchecked ==
  /\ run.step = "write" /\ run.command \in {"edit", "remove"}
  /\ SetFile(run.rel, run.v, Rewritten(run.seen))
  /\ run' = After
  /\ trimmed' = IF run.command = "remove" /\ run.v # 0 THEN trimmed \cup {<<run.rel, run.v>>} ELSE trimmed
  /\ UNCHANGED <<History, archives, home, rollup, head, notes, resyncs, hooks, stopped, stale, used>>
RewriteFile ==
  /\ run.step = "write" /\ run.command \in {"edit", "remove"}
  /\ IF FileAt(run.rel, run.v) # run.seen
     THEN run' = Idle /\ UNCHANGED <<unreleased, released, trimmed>>
     ELSE /\ SetFile(run.rel, run.v, Rewritten(run.seen))
          /\ run' = After
          /\ trimmed' = IF run.command = "remove" /\ run.v # 0 THEN trimmed \cup {<<run.rel, run.v>>} ELSE trimmed
  /\ UNCHANGED <<History, archives, home, rollup, head, notes, resyncs, hooks, stopped, stale, used>>

(* One file after the other; a rerun would find the written ones mapped    *)
Holding(map) == {<<rel, v>> \in UNION {{<<rel, v>> : v \in Places(rel)} : rel \in Releasables} :
                    Named(FileAt(rel, v)) \cap DOMAIN map # {}}
RemapFile ==
  /\ run.step = "remap"
  /\ IF Holding(run.seen) = {}
     THEN run' = [run EXCEPT !.step = "commit"] /\ UNCHANGED <<unreleased, released>>
     ELSE \E p \in Holding(run.seen) :
            SetFile(p[1], p[2], Remapped(FileAt(p[1], p[2]), run.seen)) /\ run' = run
  /\ UNCHANGED <<home, rollup>> /\ Unchanged

Finalize ==
  /\ run.step = "finalize"
  /\ SetFile(run.rel, run.v, unreleased[run.rel])
  /\ run' = [run EXCEPT !.step = "empty"]
  /\ UNCHANGED <<home, rollup>> /\ Unchanged
FinalizeEmpties ==
  /\ run.step = "empty"
  /\ unreleased' = [unreleased EXCEPT ![run.rel] = <<>>]
  /\ run' = [run EXCEPT !.step = "archive"]
  /\ UNCHANGED <<released, home, rollup>> /\ Unchanged
Archive ==
  /\ run.step = "archive"
  /\ archives' = archives @@ (<<run.rel, run.v>> :> "recorded")
  /\ releases' = Append(releases, [rel |-> run.rel, version |-> run.v, length |-> candidate[run.rel],
        upto |-> used.entries, range |-> {branch[i] : i \in (Nearest(run.rel) + 1)..candidate[run.rel]}])
  /\ candidate' = [candidate EXCEPT ![run.rel] = 0]
  /\ run' = [run EXCEPT !.step = "home"]
  /\ UNCHANGED <<commits, objects, branch, origin, unreleased, released, home, rollup, head, notes, resyncs, hooks, Ghosts, used>>

RegenerateHome ==
  /\ run.step = "home"
  /\ home' = [home EXCEPT ![run.rel] = Sections(run.rel)]
  /\ run' = [run EXCEPT !.step = "rollup"]
  /\ UNCHANGED <<unreleased, released, rollup>> /\ Unchanged
RegenerateRollUp ==
  /\ run.step = "rollup"
  /\ rollup' = RollUp
  /\ stopped' = stopped \ {run.rel}
  /\ run' = [run EXCEPT !.step = IF run.auto THEN "commit" ELSE "end"]
  /\ UNCHANGED <<History, unreleased, released, archives, home, head, notes, resyncs, hooks, stale, trimmed, used>>

(* The commit takes the files the command names, whole                     *)
Committed ==
  LET rel == run.rel
      docs == run.v # 0 \/ run.command = "generate"
  IN  IF run.command = "remap" THEN [head EXCEPT !.unreleased = unreleased, !.released = released]
      ELSE [unreleased |-> IF run.command = "release" \/ (run.v = 0 /\ run.command # "generate")
                           THEN [head.unreleased EXCEPT ![rel] = unreleased[rel]] ELSE head.unreleased,
            released |-> IF run.v # 0 THEN [s \in DOMAIN head.released \cup {<<rel, run.v>>} |->
                                              IF s = <<rel, run.v>> THEN released[s] ELSE head.released[s]] ELSE head.released,
            home |-> IF docs THEN [head.home EXCEPT ![rel] = home[rel]] ELSE head.home,
            rollup |-> IF docs THEN rollup ELSE head.rollup]
CommitFiles ==
  /\ run.step = "commit"
  /\ head' = Committed
  /\ run' = [run EXCEPT !.step = "end"]
  /\ UNCHANGED <<History, unreleased, released, archives, home, rollup, notes, resyncs, hooks, Ghosts, used>>

(* A released version's Release is rewritten once the lock is given back,  *)
(* and a release publishes its own                                         *)
Published(rel, v) == ArchiveMeta(rel, v) \in {"recorded", "unrecoverable"}
End ==
  /\ run.step = "end"
  /\ resyncs' = IF run.v # 0 /\ Published(run.rel, run.v) THEN resyncs \cup {<<run.rel, run.v>>} ELSE resyncs
  /\ run' = Idle
  /\ UNCHANGED <<History, Stored, hooks, Ghosts, used>>
Resync ==
  /\ \E s \in resyncs :
       /\ resyncs' = resyncs \ {s}
       /\ notes' = [r \in DOMAIN notes \cup {s} |-> IF r = s THEN VersionSection(s[1], s[2]) ELSE notes[r]]
       /\ stale' = stale \ {s}
  /\ UNCHANGED <<History, unreleased, released, archives, home, rollup, head, run, hooks, stopped, trimmed, used>>

(* A kill, or a write or commit that fails: what is written stays, and the *)
(* Release is not rewritten                                                *)
Stop ==
  /\ run # Idle /\ Left("stops") /\ Spend("stops")
  /\ stopped' = IF run.step \in {"empty", "archive", "home", "rollup"} THEN stopped \cup {run.rel} ELSE stopped
  /\ stale' = IF run.v # 0 /\ run.step \notin {"write", "finalize"} THEN stale \cup {<<run.rel, run.v>>} ELSE stale
  /\ run' = Idle
  /\ UNCHANGED <<History, Stored, resyncs, hooks, trimmed>>
ResyncFails ==
  /\ Left("stops") /\ Spend("stops")
  /\ \E s \in resyncs : resyncs' = resyncs \ {s} /\ stale' = stale \cup {s}
  /\ UNCHANGED <<History, Stored, run, hooks, stopped, trimmed>>
HookLost ==
  /\ hooks # <<>> /\ Left("stops") /\ Spend("stops")
  /\ hooks' = Tail(hooks)
  /\ UNCHANGED <<History, Stored, run, resyncs, Ghosts>>

Kept == {e.id : e \in UNION {UNION {ToSet(FileAt(rel, v)) : v \in Places(rel)} : rel \in Releasables}}

Init ==
  /\ commits = Start.commits /\ objects = DOMAIN Start.commits /\ branch = [i \in DOMAIN Start.commits |-> i]
  /\ releases = Start.releases /\ origin = 0
  /\ unreleased = Start.unreleased /\ released = Start.released /\ archives = Start.archives
  /\ home = [rel \in Releasables |-> Sections(rel)] /\ rollup = RollUp /\ head = Working
  /\ notes = [s \in {t \in DOMAIN archives : Published(t[1], t[2])} |-> VersionSection(s[1], s[2])]
  /\ run = Idle /\ candidate = [rel \in Releasables |-> 0] /\ resyncs = {} /\ hooks = <<>>
  /\ stopped = {} /\ stale = {} /\ trimmed = {}
  /\ used = [commits |-> 0, entries |-> Cardinality(Kept),
             commands |-> 0, stops |-> 0, lines |-> 0]

Command ==
  \/ AppendLine \/ RewriteFile \/ RemapFile
  \/ Finalize \/ FinalizeEmpties \/ Archive
  \/ RegenerateHome \/ RegenerateRollUp \/ CommitFiles \/ End
Next ==
  \/ Commit \/ Rewrite \/ CollectGarbage \/ Push
  \/ \E rel \in Releasables :
       \/ WriteLine(rel) \/ Add(rel) \/ Edit(rel) \/ RemoveEntry(rel) \/ Generate(rel)
       \/ \E v \in Versions(rel) : Amend(rel, v)
       \/ \E bump \in Bumps : BeginRelease(rel, bump)
       \/ ResumeRelease(rel) \/ RemoveLeftover(rel)
  \/ RemapAll \/ Command \/ Resync \/ Stop \/ ResyncFails \/ HookLost

Spec == Init /\ [][Next]_vars

(***************************************************************************)
(* Properties                                                              *)
(***************************************************************************)
(* No two writers lose an entry: an entry written, by a command or by      *)
(* hand, leaves the changelog only by the `changelog remove` that took it, *)
(* whatever is written, rewritten, finalized or killed meanwhile           *)
(* (docs/changelog.md, "two writers never lose an entry"; files.go         *)
(* rewrite, Finalize).                                                     *)
NeverLost ==
  [][\A id \in Kept \ Kept' : run.step = "write" /\ run.command = "remove" /\ run.entry.id = id]_vars

(* A released version's file describes its release: every commit of the    *)
(* range that needs an entry has one there until a removal takes it, and   *)
(* what was finalized names no commit of another range, however entries    *)
(* were edited and commits rewritten, remapped and collected before        *)
(* (validate.go CoverageOf, RangeFindings, HashFindings).                  *)
ReleasedDescribes ==
  \A i \in DOMAIN releases :
    LET r == releases[i]
        es == released[<<r.rel, r.version>>]
    IN  /\ <<r.rel, r.version>> \notin trimmed => Needing(r.rel, r.range, CoveredCommits(es)) = {}
        /\ \A j \in DOMAIN es : es[j].id <= r.upto => es[j].commits \subseteq r.range

(* Once no command is at work the generated documents tell every released  *)
(* version as its file does, unless a stopped command said they do not     *)
(* (generate.go Regenerate; commands.go Amend, Edit, Remove).              *)
DocumentsTell ==
  run = Idle =>
    \A s \in DOMAIN released : s[1] \notin stopped =>
      /\ s[2] \in DOMAIN home[s[1]] /\ home[s[1]][s[2]] = VersionSection(s[1], s[2])
      /\ stopped = {} => s[1] \in DOMAIN rollup /\ rollup[s[1]][s[2]] = VersionSection(s[1], s[2])

(* A published version's GitHub Release tells what its file tells, unless  *)
(* a rewrite of it is still to come or one failed (commands.go Outcome,    *)
(* cli/changelog.go resyncRelease).                                        *)
NotesFollow ==
  \A s \in DOMAIN archives :
    Published(s[1], s[2]) /\ s \notin resyncs \cup stale /\ (run # Idle => <<run.rel, run.v>> # s) =>
      s \in DOMAIN notes /\ notes[s] = VersionSection(s[1], s[2])

(* Everything generated from a changelog tells what the changelog tells:   *)
(* the documents of the repository and the Releases on GitHub.             *)
Told == DocumentsTell /\ NotesFollow
=============================================================================
