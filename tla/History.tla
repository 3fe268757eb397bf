------------------------------ MODULE History ------------------------------
(* The commands that rewrite a published history and repair the records the   *)
(* rewrite renamed: `release scrub`, `transition declassify`, `release        *)
(* reconcile`.  A branch is the set of its commits; a commit is <<work, gen>>:*)
(* which piece of work it is, and the rewrite that last wrote it.  safegit,   *)
(* git, GitHub and the other clones are modelled from how the code uses them. *)
EXTENDS Naturals, Sequences, FiniteSets

CONSTANTS
    Versions,   \* the released versions, numbers
    Born,       \* [Versions -> work]: the work each was released from
    Initial,    \* works 1..Initial are on the branch at first
    Periods,    \* the proprietary periods, a sequence of <<first, last>> works
    Clones,     \* the sets of version tags this clone may lack
    Firsts,     \* the works a rewrite may start from
    MaxWork,    \* bound on the works committed by people
    MaxGen,     \* bound on the rewrites
    MaxOthers,  \* bound on what other clones do on origin
    MaxStops,   \* bound on the failures and kills
    MaxWaits,   \* bound on the commands that wait for the lock
    MaxMishaps, \* bound on the last three together
    Kills       \* may a run die between a write and the save that records it?

ASSUME HistoryAssumption ==
    /\ Versions \subseteq Nat /\ Born \in [Versions -> 1..Initial]
    /\ \A n \in {Initial, MaxWork, MaxGen, MaxOthers, MaxStops, MaxWaits, MaxMishaps} : n \in Nat
    /\ Kills \in BOOLEAN

VARIABLES
    here, tags,     \* the local branch and version tags
    objects,        \* the commits in the local object store
    disk, head,     \* the records in the working tree, and as committed at HEAD
    journal,        \* the commit map of safegit's last rewrite
    altered,        \* the rewrites that changed what released trees hold
    origin, otags,  \* origin's branch and version tags
    mark,           \* the commit each GitHub Release's marker names, or None
    pub,            \* the records as committed at origin's branch
    public,         \* is the GitHub repository public?
    saved,          \* the scrub's and the declassification's saved results
    plan,           \* the reconcile plan file
    run,            \* the one run holding the lock
    waiting,        \* a command waiting for the lock, with what it read before
    next, gens, others, stops, waits,   \* counters
    folded,         \* history: every commit a squash folded
    fresh,          \* history: what other clones put on origin since each
                    \* rewriting command first read it
    sound,          \* history: the records that named commits of the branch then
    overtaken       \* history: did a command go on from a result that was no
                    \* longer the saved one?

local == <<here, tags, objects>>
records == <<disk, head>>
remote == <<origin, otags, mark, pub, public>>
queue == <<waiting, waits, overtaken>>
history == <<folded, fresh, sound>>
vars == <<local, records, journal, altered, remote, saved, plan, run,
          next, gens, others, stops, queue, history>>

\* May one more of a bounded thing go wrong?
MayGoWrong(count, bound) == count < bound /\ others + stops + waits < MaxMishaps

None == <<0, 0>>
NoResult == [op |-> "none"]
Nobody == [op |-> "none"]
NoPlan == [digest |-> <<{}, [v \in Versions |-> None], {}>>, items |-> {}]
Idle == [at |-> "idle"]
Empty == [id \in {} |-> None]

-----------------------------------------------------------------------------
(* Commit maps.                                                              *)

Follow(m, id) == IF id \in DOMAIN m THEN m[id] ELSE id
Image(m, ids) == {Follow(m, id) : id \in ids}
Mapped(m, f) == [v \in Versions |-> Follow(m, f[v])]
Both(old, new) == [id \in DOMAIN old \cup DOMAIN new |->
                     IF id \in DOMAIN new THEN new[id] ELSE old[id]]

\* A second rewrite folded into the first: each original commit maps to where
\* it ends up.
Compose(first, second) ==
    LET written == {first[id] : id \in DOMAIN first}
    IN  [id \in DOMAIN first \cup (DOMAIN second \ written) |->
           IF id \in DOMAIN first THEN Follow(second, first[id]) ELSE second[id]]

\* Where id ends up after every rewrite the map m names.
Resolve(m, id) ==
    LET walk[n \in 0..MaxGen] == IF n = 0 THEN id ELSE Follow(m, walk[n - 1])
    IN  walk[MaxGen]

\* Does the released tree at new differ from the one recorded at old?
TreeChanged(old, new) ==
    \/ old[1] # new[1]
    \/ \E g \in altered : old[2] < g /\ g <= new[2]

\* The versions whose release commit the map m moves, and whether a move is
\* refused: the new commit is not here, or its tree is another.
Moved(m) == {v \in Versions : disk.rec[v] \in DOMAIN m /\ m[disk.rec[v]] # disk.rec[v]}
MoveRefused(m, onChange) ==
    \E v \in Moved(m) :
        \/ m[disk.rec[v]] \notin objects
        \/ onChange = "refuse" /\ TreeChanged(disk.rec[v], m[disk.rec[v]])

\* The records with the release commits moved through m, and the moves recorded.
MovedRecords(m, files) ==
    [files EXCEPT !.rec = Mapped(m, files.rec),
                  !.moves = Both(@, [id \in {files.rec[v] : v \in Moved(m)} |-> m[id]])]

\* The changelog repaired from the journal, when it renames an id that names no
\* commit.
Unresolved(log) == {v \in Versions : log[v] \notin objects}
FromJournal(log) ==
    IF \E v \in Unresolved(log) : log[v] \in DOMAIN journal
    THEN Mapped(journal, log)
    ELSE log

Commit(files) ==
    /\ head' = files
    /\ here' = here \cup {<<next, gens>>}
    /\ objects' = objects \cup {<<next, gens>>}
    /\ next' = next + 1

-----------------------------------------------------------------------------
(* safegit.                                                                  *)

Rewriting(first) ==
    [id \in {i \in here : i[1] >= first} |-> <<id[1], gens + 1>>]

\* A squash folds works first..last of the branch into one commit that keeps
\* the last one's tree, and rewrites what follows.
Squashing(first, last) ==
    [id \in {i \in here : i[1] >= first} |->
       <<IF id[1] <= last THEN last ELSE id[1], gens + 1>>]

\* One rewrite: the branch and the tags move, the map is journalled, and the
\* old commits are pruned unless something still holds them.
SafegitRewrites(m, prunes) ==
    /\ DOMAIN m # {}
    /\ gens' = gens + 1
    /\ here' = Image(m, here)
    /\ tags' = Mapped(m, tags)
    /\ journal' = m
    /\ objects' = (IF prunes THEN objects \ DOMAIN m ELSE objects) \cup Image(m, here)

\* The bound on rewrites keeps room for the planned squashes, but those of a
\* declassification that waits for the one that rewrites.
Room ==
    gens + (IF saved["declassify"] = NoResult \/ waiting.op = "declassify" THEN 0
            ELSE Len(saved["declassify"].left)) < MaxGen

MovedTags(m) == {v \in Versions : tags[v] \in DOMAIN m}

-----------------------------------------------------------------------------
(* What the commands share: the saved result and its steps.                  *)

\* Mutant: the repository is made public before the tags are pushed.
StepsPublicEarly(op) ==
    IF op = "scrub"
    THEN <<"hashes", "moves", "verify", "caches", "commit", "branch", "tags", "releases">>
    ELSE <<"records", "commit", "branch", "public", "tags", "releases">>

Steps(op) ==
    IF op = "scrub"
    THEN <<"hashes", "moves", "verify", "caches", "commit", "branch", "tags", "releases">>
    ELSE <<"records", "commit", "branch", "tags", "releases", "public">>

Done(s, step) == \E i \in 1..s.done : Steps(s.op)[i] = step

\* HEAD is where the saved result left it.  A scrub recognises its own commit by
\* its message; a declassification knows the commit it saved.
SameHead(s) ==
    \/ here = s.newHead /\ (s.op = "scrub" \/ ~Done(s, "commit"))
    \/ here = s.commit /\ Done(s, "commit")

AtStep(step) ==
    /\ run.at = "steps"
    /\ run.mem.done < Len(Steps(run.mem.op))
    /\ Steps(run.mem.op)[run.mem.done + 1] = step
Did(mem) == run' = [at |-> "did", mem |-> mem]

\* pushWithLease: the push lands when origin holds what the lease expects, and
\* is done already when origin holds the target.
LeaseHolds(current, expected, target) == current \in {expected, target}

CompleteStep ==
    /\ run.at = "did"
    /\ LET mem == [run.mem EXCEPT !.done = @ + 1]
       IN  /\ saved' = [saved EXCEPT ![mem.op] = mem]
           /\ run' = [at |-> "steps", mem |-> mem]
    /\ UNCHANGED <<local, records, journal, altered, remote, plan, next, gens,
                   others, stops, history>>

FinishRun ==
    /\ run.at = "steps" /\ run.mem.done = Len(Steps(run.mem.op))
    /\ saved' = [saved EXCEPT ![run.mem.op] = NoResult]
    /\ run' = Idle
    /\ UNCHANGED <<local, records, journal, altered, remote, plan, next, gens,
                   others, stops, history>>

\* Mutant: the cleanup check asks for the rewritten commits.
StillHeldAnew(s) == {s.map[id] : id \in DOMAIN s.map} \cap objects

\* A failed cleanup must be completed by hand before the records are validated.
StillHeld(s) ==
    IF s.op = "scrub" THEN DOMAIN s.map \cap objects ELSE s.folded \cap objects
RequireCleanup ==
    /\ run.at = "cleanup"
    /\ LET mem == [run.mem EXCEPT !.unclean = FALSE]
       IN  IF run.mem.unclean /\ StillHeld(run.mem) # {}
           THEN run' = Idle /\ UNCHANGED saved
           ELSE /\ run' = [at |-> "steps", mem |-> mem]
                /\ saved' = IF run.mem.unclean THEN [saved EXCEPT ![mem.op] = mem] ELSE saved
    /\ UNCHANGED <<local, records, journal, altered, remote, plan, next, gens,
                   others, stops, history>>

NewResult(op, branch, otagsRead) ==
    [op |-> op, map |-> Empty, branch |-> branch, otags |-> otagsRead,
     newHead |-> here, commit |-> {}, moved |-> {}, newTags |-> tags, left |-> <<>>, folded |-> {},
     unverified |-> FALSE, unclean |-> FALSE, remapped |-> FALSE, recs |-> FALSE,
     archive |-> FALSE, gen |-> gens, done |-> 0]

\* What the properties remember from a command's first reading on.  A rewrite
\* whose records are not repaired is remembered from its own.
Unrepaired == run.at = "ran" \/ \E op \in DOMAIN saved : saved[op] # NoResult /\ saved[op].map # Empty
Sound(kind) == {<<kind, v>> : v \in {u \in Versions : disk[kind][u] \in here /\ head[kind][u] \in here}}
Watch(op) ==
    /\ fresh' = [fresh EXCEPT ![op] = {}]
    /\ sound' = IF Unrepaired THEN sound ELSE Sound("log") \cup Sound("rec")

\* A command's first part is over before it asks for the lock: came is the saved
\* result it goes on from, or the one it makes.
Came(op, resuming, mem) == [op |-> op, resuming |-> resuming, mem |-> mem]

\* Holding the lock.  A fresh scrub reads origin's refs, the lease of every push,
\* only now; a resumed declassification asks for HEAD again, a resumed scrub
\* does not.
Enters(came) ==
    run' = IF came.op = "scrub" /\ ~came.resuming
           THEN [at |-> "read", mem |-> NewResult("scrub", origin, otags)]
           ELSE IF came.op = "declassify" /\ came.resuming /\ ~SameHead(came.mem)
           THEN Idle
           ELSE [at |-> IF came.mem.unverified THEN "verify"
                        ELSE IF came.mem.left # <<>> THEN "squash" ELSE "cleanup",
                 mem |-> came.mem]

\* The lock is free, or the command waits until it is, and gets it then.
Free == run = Idle /\ waiting = Nobody
TakesLock(came) ==
    \/ Free /\ Enters(came) /\ UNCHANGED queue
    \/ /\ run # Idle /\ waiting = Nobody /\ MayGoWrong(waits, MaxWaits)
       /\ waiting' = came /\ waits' = waits + 1
       /\ UNCHANGED <<run, overtaken>>

\* The command that waited goes on with what it read before, not with what is
\* saved now.
Acquires ==
    /\ waiting # Nobody /\ run = Idle
    /\ waiting' = Nobody
    /\ Enters(waiting)
    /\ overtaken' = (overtaken \/ saved[waiting.op] # waiting.mem)
    /\ IF waiting.op = "scrub" /\ ~waiting.resuming THEN Watch("scrub") ELSE UNCHANGED <<fresh, sound>>
    /\ UNCHANGED <<local, records, journal, altered, remote, saved, plan, next, gens,
                   others, stops, waits, folded>>

\* Mutant: a resumed command reads its leases again.
ResumeRereads(op) ==
    /\ saved[op] # NoResult
    /\ op = "scrub" => SameHead(saved[op])
    /\ TakesLock(Came(op, TRUE, [saved[op] EXCEPT !.branch = origin, !.otags = otags]))
    /\ UNCHANGED <<local, records, journal, altered, remote, saved, plan, next, gens,
                   others, stops, history>>

\* Running the command again while its result is saved.
Resume(op) ==
    /\ saved[op] # NoResult
    /\ op = "scrub" => SameHead(saved[op])
    /\ TakesLock(Came(op, TRUE, saved[op]))
    /\ UNCHANGED <<local, records, journal, altered, remote, saved, plan, next, gens,
                   others, stops, history>>

-----------------------------------------------------------------------------
(* release scrub.                                                            *)

Folds(s, m, clean) ==
    [s EXCEPT !.map = Compose(@, m), !.moved = @ \cup MovedTags(m), !.newTags = Mapped(m, @),
              !.newHead = Image(m, here), !.unclean = @ \/ ~clean, !.gen = gens + 1]

\* A scrub that finds no saved one.
ScrubReads ==
    /\ saved["scrub"] = NoResult
    /\ TakesLock(Came("scrub", FALSE, NoResult))
    /\ IF run' # run THEN Watch("scrub") ELSE UNCHANGED <<fresh, sound>>
    /\ UNCHANGED <<local, records, journal, altered, remote, saved, plan, next, gens,
                   others, stops, folded>>

\* safegit rewrites from work first on, remapping the changelog inside the
\* history, which changes released trees.  outcome: "clean", its cleanup
\* failed, or it failed after the rewrite.  One begun over a declassification
\* that stopped after a squash leaves the records behind.
ScrubRewrites(first, outcome) ==
    LET m == Rewriting(first) IN
    /\ run.at = "read" /\ Room
    /\ SafegitRewrites(m, outcome = "clean")
    /\ disk' = [disk EXCEPT !.log = Mapped(m, @)]
    /\ head' = [head EXCEPT !.log = Mapped(m, @)]
    /\ altered' = altered \cup {gens + 1}
    /\ run' = [at |-> "ran",
               mem |-> [Folds(run.mem, m, outcome # "unclean")
                          EXCEPT !.unverified = (outcome = "unverified")]]
    /\ sound' = IF saved["declassify"] # NoResult /\ saved["declassify"].map # Empty THEN {} ELSE sound
    /\ UNCHANGED <<remote, saved, plan, next, others, stops, folded, fresh>>

SaveScrub ==
    /\ run.at = "ran"
    /\ saved' = [saved EXCEPT !["scrub"] = run.mem]
    /\ run' = IF run.mem.unverified THEN Idle ELSE [at |-> "cleanup", mem |-> run.mem]
    /\ UNCHANGED <<local, records, journal, altered, remote, plan, next, gens,
                   others, stops, history>>

\* safegit finds nothing to rewrite: the changelog and the release commits an
\* earlier rewrite left behind are repaired from its journal and committed.
RepairWithoutRewrite ==
    /\ run.at = "read"
    /\ LET log == FromJournal(disk.log)
           files == MovedRecords(journal, [disk EXCEPT !.log = log])
           repaired == {x \in {"log"} : log # disk.log} \cup
                       {x \in {"rec"} : Moved(journal) # {}}
       IN  IF MoveRefused(journal, "refuse")
           THEN disk' = [disk EXCEPT !.log = log]
                /\ UNCHANGED <<here, objects, head, next>>
           ELSE IF repaired = {}
           THEN UNCHANGED <<here, objects, head, disk, next>>
           ELSE disk' = files
                /\ Commit([head EXCEPT
                     !.log = IF "log" \in repaired THEN log ELSE @,
                     !.rec = IF "rec" \in repaired THEN files.rec ELSE @,
                     !.moves = IF "rec" \in repaired THEN files.moves ELSE @])
    /\ run' = Idle
    /\ UNCHANGED <<tags, journal, altered, remote, saved, plan, gens, others, stops, history>>

\* A rewrite safegit failed after is confirmed by running it again first; it may
\* rewrite further (first > 0), and fail again.
VerifySavedRewrite(first, passes) ==
    LET m == IF first = 0 THEN Empty ELSE Rewriting(first)
        mem == [Folds(run.mem, m, TRUE) EXCEPT
                  !.gen = IF first = 0 THEN run.mem.gen ELSE @,
                  !.unverified = ~passes]
    IN  /\ run.at = "verify"
        /\ passes \/ first # 0
        /\ IF first = 0
           THEN /\ objects' = objects \ DOMAIN run.mem.map
                /\ UNCHANGED <<here, tags, journal, gens, records, altered>>
           ELSE /\ Room
                /\ SafegitRewrites(m, passes)
                /\ disk' = [disk EXCEPT !.log = Mapped(m, @)]
                /\ head' = [head EXCEPT !.log = Mapped(m, @)]
                /\ altered' = altered \cup {gens + 1}
        /\ saved' = [saved EXCEPT !["scrub"] = mem]
        /\ run' = IF passes THEN [at |-> "cleanup", mem |-> mem] ELSE Idle
        /\ UNCHANGED <<remote, plan, next, others, stops, history>>

\* validateHashes: ids through the rewrite's map, then from the journal.  An id
\* of the rewrite that still names nothing is refused, with what was written
\* left on disk.
ValidateHashes ==
    /\ AtStep("hashes")
    /\ LET log1 == Mapped(run.mem.map, disk.log)
           log2 == FromJournal(log1)
           held == DOMAIN run.mem.map \cup {run.mem.map[id] : id \in DOMAIN run.mem.map}
       IN  /\ disk' = [disk EXCEPT !.log = log2]
           /\ IF \E v \in Unresolved(log2) : log2[v] \in held
              THEN run' = Idle
              ELSE Did([run.mem EXCEPT !.remapped = @ \/ log2 # disk.log])
    /\ UNCHANGED <<local, head, journal, altered, remote, saved, plan, next, gens,
                   others, stops, history>>

\* moveReleaseCommits records the rewritten trees.
MoveReleaseCommits ==
    /\ AtStep("moves")
    /\ IF MoveRefused(run.mem.map, "record")
       THEN run' = Idle /\ UNCHANGED disk
       ELSE /\ disk' = MovedRecords(run.mem.map, disk)
            /\ Did([run.mem EXCEPT !.recs = @ \/ Moved(run.mem.map) # {}])
    /\ UNCHANGED <<local, head, journal, altered, remote, saved, plan, next, gens,
                   others, stops, history>>

\* The generated changelogs are compared and the validation caches deleted.
VerifyAndClear ==
    /\ AtStep("verify") \/ AtStep("caches")
    /\ Did(run.mem)
    /\ UNCHANGED <<local, records, journal, altered, remote, saved, plan, next, gens,
                   others, stops, history>>

\* One that exists is never written again.
WriteRewriteArchive ==
    /\ AtStep("commit") /\ run.mem.op = "scrub" /\ ~run.mem.archive
    /\ IF run.mem.gen \in disk.archived
       THEN run' = Idle /\ UNCHANGED disk
       ELSE /\ disk' = [disk EXCEPT !.archived = @ \cup {run.mem.gen}, !.moves = Both(@, run.mem.map)]
            /\ run' = [run EXCEPT !.at = "archived"]
    /\ UNCHANGED <<local, head, journal, altered, remote, saved, plan, next, gens,
                   others, stops, history>>
SaveArchivePath ==
    /\ run.at = "archived"
    /\ LET mem == [run.mem EXCEPT !.archive = TRUE]
       IN  /\ saved' = [saved EXCEPT !["scrub"] = mem]
           /\ run' = [at |-> "steps", mem |-> mem]
    /\ UNCHANGED <<local, records, journal, altered, remote, plan, next, gens,
                   others, stops, history>>

\* The scrub commits the files it knows it changed.
CommitScrub ==
    /\ AtStep("commit") /\ run.mem.op = "scrub" /\ run.mem.archive
    /\ Commit([head EXCEPT !.log = IF run.mem.remapped THEN disk.log ELSE @,
                           !.rec = IF run.mem.recs THEN disk.rec ELSE @,
                           !.moves = disk.moves, !.archived = disk.archived])
    /\ Did([run.mem EXCEPT !.commit = here'])
    /\ UNCHANGED <<tags, disk, journal, altered, remote, saved, plan, gens, others, stops, history>>

-----------------------------------------------------------------------------
(* The pushes and the Releases, which both rewriting commands share.         *)

\* A scrub pushes the branch as it is, a declassification its own commit.
PushBranch ==
    /\ AtStep("branch")
    /\ LET target == IF run.mem.op = "scrub" THEN here ELSE run.mem.commit
       IN  IF LeaseHolds(origin, run.mem.branch, target)
           THEN origin' = target /\ pub' = head /\ Did(run.mem)
           ELSE run' = Idle /\ UNCHANGED <<origin, pub>>
    /\ UNCHANGED <<local, records, journal, altered, otags, mark, public, saved, plan,
                   next, gens, others, stops, history>>

\* One moved tag; a tag origin holds already is done.
PushTag(v) ==
    /\ AtStep("tags") /\ v \in run.mem.moved
    /\ LET target == run.mem.newTags[v]
       IN  /\ otags[v] # target
           /\ IF LeaseHolds(otags[v], run.mem.otags[v], target)
              THEN otags' = [otags EXCEPT ![v] = target] /\ UNCHANGED run
              ELSE run' = Idle /\ UNCHANGED otags
    /\ UNCHANGED <<local, records, journal, altered, origin, mark, pub, public, saved, plan,
                   next, gens, others, stops, history>>
TagsPushed ==
    /\ AtStep("tags")
    /\ \A v \in run.mem.moved : otags[v] = run.mem.newTags[v]
    /\ Did(run.mem)
    /\ UNCHANGED <<local, records, journal, altered, remote, saved, plan, next, gens,
                   others, stops, history>>

\* Every moved tag's Release is written from the record; those that could not be
\* written keep their document, and the step is not done.  A version recorded
\* with no release commit keeps the commit its own marker names, moved.
UpdateReleases(written) ==
    /\ AtStep("releases")
    /\ written \subseteq run.mem.moved
    /\ mark' = [v \in Versions |->
                  IF v \notin written THEN mark[v]
                  ELSE IF disk.rec[v] # None THEN disk.rec[v]
                  ELSE Follow(run.mem.map, mark[v])]
    /\ IF written = run.mem.moved
       THEN Did(run.mem) /\ UNCHANGED stops
       ELSE run' = Idle /\ MayGoWrong(stops, MaxStops) /\ stops' = stops + 1
    /\ UNCHANGED <<local, records, journal, altered, origin, otags, pub, public, saved, plan,
                   next, gens, others, history>>

-----------------------------------------------------------------------------
(* transition declassify.                                                    *)

InPeriod(p, ids) == {id \in ids : p[1] <= id[1] /\ id[1] <= p[2]}

\* The checks, the plan of squashes, and the lease on origin, saved before the
\* lock is asked for.  A ref of origin this clone does not hold is refused.
BeginDeclassify ==
    LET ranges == SelectSeq(Periods, LAMBDA p : InPeriod(p, here) # {})
        mem == [NewResult("declassify", origin, otags) EXCEPT !.left = ranges]
    IN  /\ saved["declassify"] = NoResult /\ saved["scrub"] = NoResult
        /\ ~disk.licensed /\ gens + Len(ranges) <= MaxGen
        /\ ranges # <<>> => origin \subseteq objects /\ \A v \in Versions : otags[v] \in objects \cup {None}
        /\ saved' = [saved EXCEPT !["declassify"] = mem]
        /\ TakesLock(Came("declassify", FALSE, mem))
        /\ Watch("declassify")
        /\ UNCHANGED <<local, records, journal, altered, remote, plan, next, gens,
                       others, stops, folded>>

\* safegit is named the range's ends by the commits the plan read.
Planned(p) == InPeriod(p, run.mem.newHead)
SquashRefused ==
    /\ run.at = "squash"
    /\ ~(Planned(run.mem.left[Len(run.mem.left)]) \subseteq here)
    /\ run' = Idle
    /\ UNCHANGED <<local, records, journal, altered, remote, saved, plan, next, gens,
                   others, stops, history>>

\* The newest range left is squashed.
Squash(outcome) ==
    LET n == Len(run.mem.left)
        p == run.mem.left[n]
        m == Squashing(p[1], p[2])
        gone == Planned(p)
    IN  /\ run.at = "squash" /\ gone \subseteq here
        /\ SafegitRewrites(m, outcome = "clean")
        /\ run' = [at |-> "squashed", fails |-> outcome = "fails",
                   mem |-> [Folds(run.mem, m, outcome = "clean") EXCEPT
                              !.left = SubSeq(@, 1, n - 1), !.folded = @ \cup gone]]
        /\ folded' = folded \cup gone
        /\ UNCHANGED <<records, altered, remote, saved, plan, next, others, stops, fresh, sound>>

SaveSquash ==
    /\ run.at = "squashed"
    /\ saved' = [saved EXCEPT !["declassify"] = run.mem]
    /\ run' = IF run.fails THEN Idle
              ELSE [at |-> IF run.mem.left = <<>> THEN "cleanup" ELSE "squash", mem |-> run.mem]
    /\ UNCHANGED <<local, records, journal, altered, remote, plan, next, gens,
                   others, stops, history>>

\* The changelog, the release commits (one folded into a commit of another tree
\* becomes unrecoverable), the licenses and the rewrite's archive.
RepairRecords ==
    /\ AtStep("records")
    /\ LET m == run.mem.map
           lost == {v \in Moved(m) : disk.rec[v] \in run.mem.folded
                                     /\ TreeChanged(disk.rec[v], m[disk.rec[v]])}
           kept == [disk EXCEPT !.log = Mapped(m, @),
                                !.rec = [v \in Versions |-> IF v \in lost THEN None ELSE @[v]]]
           refused == \E v \in Moved(m) \ lost : \/ m[disk.rec[v]] \notin objects
                                                 \/ TreeChanged(disk.rec[v], m[disk.rec[v]])
       IN  IF refused \/ (run.mem.gen \in disk.archived /\ ~run.mem.archive)
           THEN disk' = kept /\ run' = Idle
           ELSE /\ disk' = [kept EXCEPT !.rec = Mapped(m, @), !.moves = Both(@, m),
                                        !.licensed = TRUE, !.archived = @ \cup {run.mem.gen}]
                /\ Did([run.mem EXCEPT !.archive = TRUE])
    /\ UNCHANGED <<local, head, journal, altered, remote, saved, plan, next, gens,
                   others, stops, history>>

\* Every record that changed is committed, whatever run changed it.
CommitDeclassification ==
    /\ AtStep("commit") /\ run.mem.op = "declassify"
    /\ Commit(disk)
    /\ Did([run.mem EXCEPT !.commit = here'])
    /\ UNCHANGED <<tags, disk, journal, altered, remote, saved, plan, gens, others, stops, history>>

MakePublic ==
    /\ AtStep("public")
    /\ public' = TRUE
    /\ Did(run.mem)
    /\ UNCHANGED <<local, records, journal, altered, origin, otags, mark, pub, saved, plan,
                   next, gens, others, stops, history>>

-----------------------------------------------------------------------------
(* release reconcile.                                                        *)

\* Everything that explains a moved commit: the archives and the events, then
\* the journal.
Explained == Both(disk.moves, journal)

\* heal: release commits that name no commit here are moved through what
\* explains them, and committed.  One nothing explains stops the run.
ReconcileHeals(mode) ==
    LET dangling == {v \in Versions : disk.rec[v] # None /\ disk.rec[v] \notin objects}
        files == MovedRecords(Explained, disk)
    IN  /\ Free
        /\ dangling \subseteq Moved(Explained)
        /\ dangling # {} => ~MoveRefused(Explained, "refuse")
        /\ IF dangling = {}
           THEN UNCHANGED <<here, objects, records, next>>
           ELSE disk' = files /\ Commit([head EXCEPT !.rec = files.rec, !.moves = files.moves])
        /\ run' = [at |-> "judge", mode |-> mode]
        /\ UNCHANGED <<tags, journal, altered, remote, saved, plan, gens, others, stops, history>>

\* The tags a verdict is owed: a version's whose release commit is recorded, and
\* one no record claims, an unrecoverable version's, that is here and on origin.
Recorded == {v \in Versions : disk.rec[v] # None}
Unclaimed == {v \in Versions \ Recorded : tags[v] # None /\ otags[v] # None}
Judged == Recorded \cup Unclaimed
Target(v) == IF v \in Recorded THEN disk.rec[v] ELSE tags[v]

RefVerdict(v) ==
    IF tags[v] # None /\ tags[v] # Target(v) THEN "refuse-foreign"
    ELSE IF otags[v] = None THEN "materialize"
    ELSE IF otags[v] = Target(v) THEN "already-correct"
    ELSE IF Resolve(Explained, otags[v]) = Target(v) THEN "re-point-with-lease"
    ELSE "refuse-foreign"

Refusals == {v \in Judged : RefVerdict(v) = "refuse-foreign"}
RefActions ==
    {[kind |-> IF v \in Recorded THEN "ref" ELSE "unclaimed", version |-> v,
      state |-> RefVerdict(v), target |-> Target(v),
      observed |-> IF RefVerdict(v) = "materialize" THEN None ELSE otags[v]] :
        v \in {u \in Judged : RefVerdict(u) \in {"materialize", "re-point-with-lease"}}}
ReleaseActions ==
    {[kind |-> "release", version |-> v, state |-> "materialize", target |-> disk.rec[v],
      observed |-> None] : v \in {u \in Recorded : mark[u] = None}}
Actions == RefActions \cup ReleaseActions

\* What the plan's digest covers: origin's refs and which Releases exist.
Digest == <<origin, otags, {v \in Versions : mark[v] # None}>>

\* The plan half: one refusal, and no plan is written.  A plan of nothing lets
\* nothing be done, as no plan does.
WritePlan ==
    /\ run.at = "judge" /\ run.mode = "plan"
    /\ plan' = IF Refusals # {} THEN plan
               ELSE IF Actions = {} THEN NoPlan
               ELSE [digest |-> Digest, items |-> Actions]
    /\ run' = Idle
    /\ UNCHANGED <<local, records, journal, altered, remote, saved, next, gens,
                   others, stops, history>>

\* checkPlanCovers: every change found now is in the plan, unchanged.
PlanCovers(items) == items \subseteq plan.items

StartApply ==
    /\ run.at = "judge" /\ run.mode = "apply"
    /\ run' = IF /\ plan # NoPlan /\ plan.digest = Digest
                 /\ Refusals = {} /\ PlanCovers(Actions)
              THEN [at |-> "applying", todo |-> Actions, marks |-> {}]
              ELSE Idle
    /\ UNCHANGED <<local, records, journal, altered, remote, saved, plan, next, gens,
                   others, stops, history>>

\* The items are applied in the preview's order: version by version, the tag
\* before its Release, and the unclaimed tags last.
Before(a, b) ==
    IF (a.kind = "unclaimed") # (b.kind = "unclaimed") THEN b.kind = "unclaimed"
    ELSE \/ a.version < b.version
         \/ a.version = b.version /\ (a.kind = "release" => b.kind = "release")
FirstOf(items) == CHOOSE a \in items : \A b \in items : Before(a, b)

ApplyRef ==
    /\ run.at = "applying" /\ run.marks = {} /\ run.todo # {}
    /\ LET a == FirstOf(run.todo)
           v == a.version
       IN  /\ a.kind # "release"
           /\ tags' = IF a.state = "materialize" /\ tags[v] = None
                     THEN [tags EXCEPT ![v] = a.target] ELSE tags
           /\ IF LeaseHolds(otags[v], a.observed, a.target)
              THEN /\ otags' = [otags EXCEPT ![v] = a.target]
                   /\ run' = [run EXCEPT !.todo = @ \ {a},
                                         !.marks = IF a.state = "re-point-with-lease" /\ a.kind = "ref"
                                                   THEN {v} ELSE {}]
              ELSE run' = Idle /\ UNCHANGED otags
    /\ UNCHANGED <<here, objects, records, journal, altered, origin, mark, pub, public, saved,
                   plan, next, gens, others, stops, history>>

\* The marker of a re-pointed version's Release.
ApplyMarker ==
    /\ run.at = "applying"
    /\ \E v \in run.marks :
         IF mark[v] = None
         THEN run' = Idle /\ UNCHANGED mark
         ELSE /\ mark' = [mark EXCEPT ![v] = disk.rec[v]]
              /\ run' = [run EXCEPT !.marks = {}]
    /\ UNCHANGED <<local, records, journal, altered, origin, otags, pub, public, saved, plan,
                   next, gens, others, stops, history>>

ApplyRelease ==
    /\ run.at = "applying" /\ run.marks = {} /\ run.todo # {}
    /\ LET a == FirstOf(run.todo)
       IN  /\ a.kind = "release"
           /\ mark' = [mark EXCEPT ![a.version] = disk.rec[a.version]]
           /\ run' = [run EXCEPT !.todo = @ \ {a}]
    /\ UNCHANGED <<local, records, journal, altered, origin, otags, pub, public, saved, plan,
                   next, gens, others, stops, history>>

EndApply ==
    /\ run.at = "applying" /\ run.marks = {} /\ run.todo = {}
    /\ plan' = NoPlan
    /\ run' = Idle
    /\ UNCHANGED <<local, records, journal, altered, remote, saved, next, gens,
                   others, stops, history>>

-----------------------------------------------------------------------------
(* Failures, people, and the other clones.                                   *)

\* A run fails or dies.  With Kills, also between a write and its save.
Stop ==
    /\ run # Idle /\ MayGoWrong(stops, MaxStops)
    /\ run.at \in {"ran", "did", "archived", "squashed"} => Kills
    /\ run' = Idle
    /\ stops' = stops + 1
    /\ UNCHANGED <<local, records, journal, altered, remote, saved, plan, next, gens,
                   others, history>>

\* A command that waits is given up.
GivesUp ==
    /\ waiting # Nobody /\ MayGoWrong(stops, MaxStops)
    /\ waiting' = Nobody
    /\ stops' = stops + 1
    /\ UNCHANGED <<local, records, journal, altered, remote, saved, plan, run, next, gens,
                   others, waits, overtaken, history>>

\* A person's commit on the branch while a rewrite is unfinished; one made
\* before is one more initial work.
CommitWork ==
    /\ next <= MaxWork
    /\ \E op \in DOMAIN saved : saved[op] # NoResult
    /\ Commit(head)
    /\ UNCHANGED <<tags, disk, journal, altered, remote, saved, plan, run, gens,
                   others, stops, history>>

\* A release's push of the branch, which only fast-forwards origin.
Publish ==
    /\ Free /\ origin \subseteq here /\ origin # here
    /\ origin' = here /\ pub' = head
    /\ UNCHANGED <<local, records, journal, altered, otags, mark, public, saved, plan, run,
                   next, gens, others, stops, history>>

Pull ==
    /\ Free /\ here \subseteq origin /\ origin # here
    /\ here' = origin /\ objects' = objects \cup origin
    /\ UNCHANGED <<tags, records, journal, altered, remote, saved, plan, run,
                   next, gens, others, stops, history>>

\* safegit run by hand: the records are left behind.
DirectRewrite(first, alters) ==
    /\ Free /\ Room
    /\ SafegitRewrites(Rewriting(first), TRUE)
    /\ altered' = IF alters THEN altered \cup {gens + 1} ELSE altered
    /\ UNCHANGED <<records, remote, saved, plan, run, next, others, stops, history>>

\* The prune the messages ask for.
Held == here \cup ({tags[v] : v \in Versions} \ {None})
Prune ==
    /\ objects # Held
    /\ Free
    /\ objects' = Held
    /\ UNCHANGED <<here, tags, records, journal, altered, remote, saved, plan, run, next, gens,
                   others, stops, history>>

Elsewhere(id) ==
    /\ MayGoWrong(others, MaxOthers)
    /\ others' = others + 1 /\ next' = next + 1
    /\ fresh' = [op \in DOMAIN fresh |-> fresh[op] \cup {id}]
    /\ UNCHANGED <<local, records, journal, altered, public, saved, plan, run, gens, stops,
                   folded, sound>>
OtherPushes ==
    /\ Elsewhere(<<next, 0>>)
    /\ origin' = origin \cup {<<next, 0>>}
    /\ UNCHANGED <<otags, mark, pub>>
OtherMovesTag(v) ==
    /\ Elsewhere(<<next, 0>>)
    /\ otags' = [otags EXCEPT ![v] = <<next, 0>>]
    /\ UNCHANGED <<origin, mark, pub>>
OtherDeletes(v) ==
    /\ MayGoWrong(others, MaxOthers) /\ others' = others + 1
    /\ \/ otags[v] # None /\ otags' = [otags EXCEPT ![v] = None] /\ UNCHANGED mark
       \/ mark[v] # None /\ mark' = [mark EXCEPT ![v] = None] /\ UNCHANGED otags
    /\ UNCHANGED <<local, records, journal, altered, origin, pub, public, saved, plan, run,
                   next, gens, stops, history>>

-----------------------------------------------------------------------------
Init ==
    LET first == {<<w, 0>> : w \in 1..Initial}
        at == [v \in Versions |-> <<Born[v], 0>>]
        files == [log |-> at, rec |-> at, moves |-> Empty, archived |-> {}, licensed |-> FALSE]
    IN  /\ here = first /\ objects = first /\ origin = first
        /\ otags = at /\ mark = at
        /\ tags \in {[v \in Versions |-> IF v \in lacks THEN None ELSE at[v]] :
                        lacks \in Clones}
        /\ disk = files /\ head = files /\ pub = files
        /\ journal = Empty /\ altered = {} /\ public = FALSE
        /\ saved = [op \in {"scrub", "declassify"} |-> NoResult]
        /\ plan = NoPlan /\ run = Idle /\ waiting = Nobody
        /\ next = Initial + 1 /\ gens = 0 /\ stops = 0 /\ waits = 0
        /\ others = Cardinality({v \in Versions : tags[v] = None})   \* another clone released it
        /\ folded = {} /\ fresh = [op \in DOMAIN saved |-> {}] /\ sound = {} /\ overtaken = FALSE

Outcomes == {"clean", "unclean", "fails"}

\* What a run does by itself once it holds the lock.
Proceeds ==
    \/ CompleteStep \/ FinishRun \/ RequireCleanup \/ SaveScrub \/ RepairWithoutRewrite
    \/ ValidateHashes \/ MoveReleaseCommits \/ VerifyAndClear
    \/ WriteRewriteArchive \/ SaveArchivePath \/ CommitScrub
    \/ PushBranch \/ (\E v \in Versions : PushTag(v)) \/ TagsPushed
    \/ SquashRefused \/ SaveSquash \/ RepairRecords \/ CommitDeclassification \/ MakePublic
    \/ WritePlan \/ StartApply \/ ApplyRef \/ ApplyMarker \/ ApplyRelease \/ EndApply

\* Everything that leaves who waits for the lock alone.
Acts ==
    \/ Proceeds
    \/ \E first \in Firsts, outcome \in {"clean", "unclean", "unverified"} : ScrubRewrites(first, outcome)
    \/ \E first \in {0} \cup Firsts, passes \in BOOLEAN : VerifySavedRewrite(first, passes)
    \/ \E written \in SUBSET Versions : UpdateReleases(written)
    \/ \E outcome \in Outcomes : Squash(outcome)
    \/ \E mode \in {"plan", "apply"} : ReconcileHeals(mode)
    \/ Stop \/ CommitWork \/ Publish \/ Pull \/ Prune
    \/ \E first \in Firsts, alters \in BOOLEAN : DirectRewrite(first, alters)
    \/ OtherPushes
    \/ \E v \in Versions : OtherMovesTag(v) \/ OtherDeletes(v)

Next ==
    \/ Acts /\ UNCHANGED queue
    \/ ScrubReads \/ BeginDeclassify
    \/ \E op \in DOMAIN saved : Resume(op)
    \/ Acquires \/ GivesUp

Spec == Init /\ [][Next]_vars

\* A run that holds the lock goes on, safegit and GitHub succeeding in the end; a
\* command that waits is given the lock; a stopped command is run again, after
\* the prune its message asks for.
GoesOn ==
    \/ /\ \/ Proceeds
          \/ VerifySavedRewrite(0, TRUE)
          \/ Squash("clean")
          \/ run.at = "steps" /\ UpdateReleases(run.mem.moved)
       /\ UNCHANGED queue
    \/ Acquires
Fairness ==
    /\ WF_vars(GoesOn)
    /\ SF_vars(Prune /\ UNCHANGED queue)
    /\ SF_vars(\E op \in DOMAIN saved : Resume(op))
FairSpec == Spec /\ Fairness

-----------------------------------------------------------------------------
(* Properties.                                                               *)

\* What another clone put on origin after a rewriting command first read it is
\* never forced away by that command, whatever waits, stops and reruns lie
\* between: the lease is the value read before the rewrite (pushWithLease).
FreshWorkStays ==
    run.at = "steps" /\ others' = others =>
      /\ fresh[run.mem.op] \cap origin \subseteq origin'
      /\ \A v \in Versions : otags[v] \in fresh[run.mem.op] => otags'[v] = otags[v]

\* A branch a scrub or a declassification pushes carries records that name its
\* own commits: every changelog id and release commit that named a commit of the
\* branch before the rewrite does after it, or is recorded unrecoverable; unless
\* a command that waited went on from a result that was no longer saved.
PublishedResolves ==
    pub' # pub /\ run.at = "steps" /\ ~overtaken =>
      \A s \in sound : pub'[s[1]][s[2]] \in origin' \cup {None}

\* What rewrites may make of the commit a tag of v named: the same work written
\* later or, when v is unrecoverable, the squash of its period.
RewrittenAs(v, old, new) ==
    /\ new[2] > old[2]
    /\ \/ new[1] = old[1]
       \/ disk.rec[v] = None
          /\ \E i \in DOMAIN Periods : InPeriod(Periods[i], {old}) # {} /\ new[1] = Periods[i][2]

\* A reconcile forces a tag only onto what rewrites made of the commit it named,
\* and writes to origin only what the plan that was read names.
ReconcileConsented ==
    run.at = "applying" /\ others' = others =>
      \A v \in Versions :
        /\ otags'[v] # otags[v] =>
             /\ otags[v] # None => RewrittenAs(v, otags[v], otags'[v])
             /\ \E p \in plan.items : p.kind # "release" /\ p.version = v /\ p.target = otags'[v]
        /\ mark'[v] # mark[v] => \E p \in plan.items : p.version = v /\ p.target = mark'[v]

\* What a rewriting command does to origin loses nobody's work, leaves records
\* that resolve, and is what the plan that was read names.
OriginIsRespected ==
    [][FreshWorkStays /\ PublishedResolves /\ ReconcileConsented]_vars

\* The repository is made public only once origin's branch and the tags this
\* clone held hold no commit of a proprietary period, and the record is open.
PublicIsSquashed ==
    public => /\ origin \cap folded = {}
              /\ pub.licensed
              /\ \A v \in Versions : tags[v] # None => otags[v] \notin folded

\* A stopped scrub or declassification can be finished by the same command, or
\* something happened since that it must not overwrite: HEAD moved, origin did,
\* a reconcile brought a replaced commit back under a tag, or another run of the
\* command went on from an older result.
Superseded(s) ==
    \/ ~SameHead(s)
    \/ \E v \in Versions : tags[v] \in DOMAIN s.map
    \/ ~Done(s, "branch") /\ origin \notin {s.branch, here, s.commit}
    \/ \E v \in s.moved : ~Done(s, "tags") /\ otags[v] \notin {s.otags[v], s.newTags[v]}
Unfinished == \E op \in DOMAIN saved : saved[op] # NoResult /\ ~Superseded(saved[op])
RewriteEnds == []<>(overtaken \/ ~Unfinished)

\* A saved rewrite is finished only by the scrub that made it (requireSameScrub):
\* it goes once all its steps are done, and what replaces it before continues it.
FinishedByItsScrub ==
    [][LET s == saved["scrub"] IN
       s # NoResult /\ saved'["scrub"] # s =>
         IF saved'["scrub"] = NoResult THEN s.done = Len(Steps("scrub"))
         ELSE DOMAIN s.map \subseteq DOMAIN saved'["scrub"].map /\ s.done <= saved'["scrub"].done]_vars

=============================================================================
