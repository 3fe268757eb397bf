---------------------------- MODULE PastReleases ----------------------------
(***************************************************************************)
(* The commands on past releases (internal/releaseops): undo, retract,     *)
(* deprecate, yank, edit and retry, over what they act on: the branch and  *)
(* its uncommitted files, the release record, the tags here and on origin, *)
(* the GitHub Releases, the publish runs and the registries.  A command is *)
(* its writes in order, and may stop after any of them; between commands   *)
(* the release itself moves on, publish runs publish, and a person cleans  *)
(* up what a stopped command left.                                         *)
(*                                                                         *)
(* Versions are numbered in the order they are released.  Version 0 is the *)
(* abandoned one the first release was bumped from.                        *)
(***************************************************************************)
EXTENDS Integers, FiniteSets, Sequences

CONSTANTS
    MaxVersion,    \* the highest version number (a bound)
    PackageSets,   \* the sets of packages a releasable may publish
    Workflows,     \* the dispatchable publish workflows
    MaxCommits,    \* commits on the branch (a bound)
    MaxStops,      \* calls that fail, crashes and unanswered questions (a bound)
    MaxTidying     \* clean-ups and commits by a person (a bound)

PastReleasesAssumption ==
    /\ MaxVersion \in Nat \ {0} /\ MaxCommits \in Nat \ {0}
    /\ MaxStops \in Nat /\ MaxTidying \in Nat
    /\ PackageSets \subseteq SUBSET {"npm", "pypi", "go"}

VARIABLES
    packages,              \* what the releasable publishes
    hist, pushed,          \* the branch's commits; how many origin has
    head, disk,            \* the tracked files at the tip, and as they stand
    ltag, otag,            \* the commit each version's tag names, 0 for none
    ghr,                   \* each version's GitHub Release
    runs,                  \* each version's publish run
    pub,                   \* the commit each registry holds a version from
    st,                    \* the in-progress release
    retry,                 \* the workflows the retry file holds, {} for no file
    pc, p,                 \* the running command and its plan
    stops, tidied,
    tagged,                \* history: versions whose tag was on origin
    revived                \* history: versions a resume went on with once undone

repoVars == <<hist, pushed, head, disk>>
refVars  == <<ltag, otag, ghr, tagged>>
netVars  == <<runs, pub>>
procVars == <<pc, p>>
vars == <<packages, repoVars, refVars, netVars, st, retry, procVars, stops, tidied,
          revived>>

Version == 1..MaxVersion
Registries == {"npm", "pypi"}

-----------------------------------------------------------------------------
(* The tracked files: the archives, the finalized changelog files, the      *)
(* release file, go.mod's retractions, the undo audits, the version file.   *)

NoArchive == [fate |-> "absent", commit |-> 0, by |-> 0, notices |-> {}]
Archived(c, by) == [fate |-> "recorded", commit |-> c, by |-> by, notices |-> {}]
Labels == {"deprecated", "yanked"}

Released(t, v) == t.arch[v].fate = "recorded"
Retracted(t, v) == t.arch[v].by # 0

\* LatestReleasedVersion: the highest released version nothing retracts, or 0.
LatestReleased(t) ==
    LET S == {v \in Version : Released(t, v) /\ ~Retracted(t, v)}
    IN IF S = {} THEN 0 ELSE CHOOSE v \in S : \A w \in S : w =< v

\* latestArchive: the highest version with a release recorded, or 0.
LatestArchive(t) ==
    LET S == {v \in Version : Released(t, v)}
    IN IF S = {} THEN 0 ELSE CHOOSE v \in S : \A w \in S : w =< v

\* A commit of the branch: its subject, the version it is about, the version
\* file before it.
CommitOf(kind, v) == [kind |-> kind, ver |-> v, was |-> head.vfile]

\* Commit tree t, which the files committed leave at the tip.
Committed(kind, v, t) ==
    /\ Len(hist) < MaxCommits
    /\ hist' = Append(hist, CommitOf(kind, v)) /\ head' = t

NoRelease == [exists |-> FALSE, notices |-> {}]
NoRun == [state |-> "none", at |-> 0]
NoState == [ver |-> 0, at |-> 0, stage |-> "none"]
NoPlan == [ver |-> 0, named |-> {}, at |-> 0, latest |-> FALSE, label |-> "none",
           rest |-> {}]

\* One released version, from the first commit; its record in the second.
Init ==
    /\ packages \in PackageSets
    /\ hist = <<[kind |-> "bump", ver |-> 1, was |-> 0],
                [kind |-> "record", ver |-> 1, was |-> 1]>>
    /\ pushed = 2
    /\ head = [arch |-> [v \in Version |-> IF v = 1 THEN Archived(1, 0) ELSE NoArchive],
               log |-> {1}, filled |-> FALSE, mod |-> {}, audits |-> {}, vfile |-> 1]
    /\ disk = head
    /\ ltag = [v \in Version |-> IF v = 1 THEN 1 ELSE 0] /\ otag = ltag
    /\ ghr = [v \in Version |-> [exists |-> v = 1, notices |-> {}]]
    /\ runs = [v \in Version |-> IF v = 1 /\ packages \cap Registries # {}
                                 THEN [state |-> "running", at |-> 1] ELSE NoRun]
    /\ pub = [k \in packages |-> [v \in Version |-> 0]]
    /\ st = NoState /\ retry = {} /\ pc = "idle" /\ p = NoPlan
    /\ stops = 0 /\ tidied = 0 /\ tagged = {1} /\ revived = {}

Idle == pc = "idle"
Go(q) == pc' = q /\ UNCHANGED p
Done == pc' = "idle" /\ p' = NoPlan

\* A call fails, or the process ends: what was done stays.
Stop ==
    /\ ~Idle /\ stops < MaxStops /\ stops' = stops + 1
    /\ Done
    /\ UNCHANGED <<packages, repoVars, refVars, netVars, st, retry, tidied, revived>>

-----------------------------------------------------------------------------
(* Whether a version is out in the world (evidence.go). *)

\* What package k's sources say of v; `answered' is FALSE for a question that
\* went unanswered.
RegistryEvidence(k, v, answered) ==
    {IF ~answered THEN "inconclusive"
     ELSE IF pub[k][v] # 0 THEN "published" ELSE "unpublished"}
GoEvidence(v, answered) ==
    {IF ~answered THEN "inconclusive"
     ELSE IF otag[v] # 0 THEN "published" ELSE "unpublished",
     IF pub["go"][v] # 0 THEN "published" ELSE "inconclusive"}
PackageEvidence(k, v, answered) ==
    IF k = "go" THEN GoEvidence(v, answered) ELSE RegistryEvidence(k, v, answered)

\* The publish workflow's runs for the tag, at the release commit.
PublishRunEvidence(v, c) ==
    {IF runs[v].at # c THEN "inconclusive"
     ELSE IF runs[v].state = "running" THEN "publishing"
     ELSE IF runs[v].state = "succeeded" THEN "published" ELSE "inconclusive"}

UndoEvidence(v, c, silent) ==
    UNION {PackageEvidence(k, v, k \notin silent) : k \in packages}
        \cup PublishRunEvidence(v, c)

\* judge.
Cleared(E) == E \cap {"published", "publishing"} = {} /\ "unpublished" \in E
\* Mutated: a publish run still going is no evidence.
ClearedWhilePublishing(v, c, silent) ==
    LET E == UndoEvidence(v, c, silent)
    IN "published" \notin E /\ "unpublished" \in E

UndoCleared(v, c, silent) == Cleared(UndoEvidence(v, c, silent))

\* packageFinding, for a yank: the whole yank is refused when one is unanswered.
PackageFinding(k, v) ==
    IF "published" \in PackageEvidence(k, v, TRUE) THEN "published" ELSE "unpublished"

-----------------------------------------------------------------------------
(* Undo. *)

\* The one version-bump commit of v between its predecessor's and its own.
Predecessor(v) ==
    LET S == {w \in Version : w < v /\ Released(disk, w)}
    IN IF S = {} THEN 0
       ELSE disk.arch[CHOOSE w \in S : \A u \in S : u =< w].commit
BumpsOf(v, c) ==
    {i \in Predecessor(v) + 1..c : hist[i].kind = "bump" /\ hist[i].ver = v}

\* planReleaseRevert: the bump is the only one, and reverting it conflicts with
\* nothing: the version file is what it left or what it found.
RevertPlanned(v, c) == Cardinality(BumpsOf(v, c)) = 1 /\ disk.vfile = v
\* Mutated: the version before the bump is taken to be one less.
BeforeBump(v, c) == hist[CHOOSE i \in BumpsOf(v, c) : TRUE].was

\* The paths the undo writes are clean, and the release file holds no one's
\* fields (planRestore).
RestorePlanned == [disk EXCEPT !.mod = head.mod] = head /\ ~disk.filled

\* refuseUnrecordedInProgress.
NothingUnrecorded == st.ver # 0 => Released(disk, st.ver)

PlanUndo(v) ==
    /\ Idle /\ v # 0 /\ Released(disk, v) /\ NothingUnrecorded
    /\ \/ v = LatestArchive(disk) /\ RevertPlanned(v, disk.arch[v].commit)
       \/ v # LatestReleased(disk) /\ ~Retracted(disk, v) /\ v # LatestArchive(disk)
    /\ \E silent \in SUBSET packages :
         /\ UndoCleared(v, disk.arch[v].commit, silent)
         /\ stops + Cardinality(silent) =< MaxStops
         /\ stops' = stops + Cardinality(silent)
    /\ RestorePlanned
    /\ pc' = "undo-audit"
    /\ p' = [NoPlan EXCEPT !.ver = v, !.at = disk.arch[v].commit,
                           !.latest = v = LatestArchive(disk)]
    /\ UNCHANGED <<packages, repoVars, refVars, netVars, st, retry, tidied, revived>>

\* What a step of the undo leaves alone.
UndoFrame == UNCHANGED <<packages, netVars, retry, stops, tidied, revived>>

AppendAudit ==
    /\ pc = "undo-audit" /\ Go("undo-audited")
    /\ disk' = [disk EXCEPT !.audits = @ \cup {p.ver}]
    /\ UNCHANGED <<hist, pushed, head, refVars, st>> /\ UndoFrame

\* A line for every undo, so there is something to commit also the second time.
CommitAudit ==
    /\ pc = "undo-audited" /\ Go("undo-release")
    /\ Committed("audit", p.ver, [head EXCEPT !.audits = disk.audits])
    /\ UNCHANGED <<pushed, disk, refVars, st>> /\ UndoFrame

DeleteRelease ==
    /\ pc = "undo-release" /\ Go("undo-origin")
    /\ ghr' = [ghr EXCEPT ![p.ver] = NoRelease]
    /\ UNCHANGED <<repoVars, ltag, otag, tagged, st>> /\ UndoFrame

DeleteOriginTag ==
    /\ pc = "undo-origin" /\ Go("undo-here")
    /\ otag' = [otag EXCEPT ![p.ver] = 0]
    /\ UNCHANGED <<repoVars, ltag, ghr, tagged, st>> /\ UndoFrame

DeleteTagHere ==
    /\ pc = "undo-here" /\ Go("undo-revert")
    /\ ltag' = [ltag EXCEPT ![p.ver] = 0]
    /\ UNCHANGED <<repoVars, otag, ghr, tagged, st>> /\ UndoFrame

\* revertPlan.write: an earlier release's commits stay.
WriteRevert ==
    /\ pc = "undo-revert" /\ Go("undo-changelog")
    /\ disk' = IF p.latest THEN [disk EXCEPT !.vfile = BeforeBump(p.ver, p.at)] ELSE disk
    /\ UNCHANGED <<hist, pushed, head, refVars, st>> /\ UndoFrame

UnfinalizeChangelog ==
    /\ pc = "undo-changelog" /\ Go("undo-archive")
    /\ disk' = [disk EXCEPT !.log = @ \ {p.ver}]
    /\ UNCHANGED <<hist, pushed, head, refVars, st>> /\ UndoFrame

UnfinalizeArchive ==
    /\ pc = "undo-archive" /\ Go("undo-commit")
    /\ disk' = [disk EXCEPT !.arch[p.ver] = NoArchive, !.filled = TRUE]
    /\ UNCHANGED <<hist, pushed, head, refVars, st>> /\ UndoFrame

CommitUndo ==
    /\ pc = "undo-commit" /\ Go("undo-push")
    /\ Committed("undo", p.ver, [disk EXCEPT !.mod = head.mod])
    /\ UNCHANGED <<pushed, disk, refVars, st>> /\ UndoFrame

PushUndo ==
    /\ pc = "undo-push" /\ Go("undo-clear")
    /\ pushed' = Len(hist)
    /\ UNCHANGED <<hist, head, disk, refVars, st>> /\ UndoFrame

\* ClearInProgress.
ClearState ==
    /\ pc = "undo-clear" /\ Done
    /\ st' = NoState
    /\ UNCHANGED <<repoVars, refVars>> /\ UndoFrame

Undo ==
    \/ \E v \in Version : PlanUndo(v)
    \/ AppendAudit \/ CommitAudit \/ DeleteRelease \/ DeleteOriginTag \/ DeleteTagHere
    \/ WriteRevert \/ UnfinalizeChangelog \/ UnfinalizeArchive \/ CommitUndo
    \/ PushUndo \/ ClearState


-----------------------------------------------------------------------------
(* Retract: a go.mod line through a version of its own. *)

Known == {v \in Version : Released(disk, v) \/ ltag[v] # 0 \/ otag[v] # 0}
Lowest(S) == CHOOSE v \in S : \A w \in S : v =< w
Highest(S) == CHOOSE v \in S : \A w \in S : w =< v

\* planFresh: the next number nothing holds, and a range that covers nothing
\* but what was named.
FreshRetraction(S) ==
    /\ \A v \in S : ~Retracted(disk, v)
    /\ Highest(Known) < MaxVersion
    /\ {v \in Known : v >= Lowest(S)} \subseteq S
    /\ disk.mod = head.mod
    /\ ~(Lowest(S)..Highest(Known) + 1 \subseteq disk.mod)

\* planResume: a recorded retraction of exactly these versions.
ResumedRetraction(S, b) ==
    /\ S = {v \in Version \ {b} : disk.arch[v].by = b}
    /\ Released(disk, b)

PlanRetract(S) ==
    /\ Idle /\ "go" \in packages /\ st.ver = 0 /\ S # {}
    /\ \A v \in S : Released(disk, v) /\ disk.arch[v].by # v
    /\ \/ /\ FreshRetraction(S)
          /\ pc' = "ret-gomod"
          /\ p' = [NoPlan EXCEPT !.ver = Highest(Known) + 1, !.named = S, !.rest = S]
       \/ \E b \in Version :
            /\ ResumedRetraction(S, b)
            /\ pc' = "ret-tag"
            /\ p' = [NoPlan EXCEPT !.ver = b, !.named = S, !.at = disk.arch[b].commit]
    /\ UNCHANGED <<packages, repoVars, refVars, netVars, st, retry, stops, tidied, revived>>

RetractFrame == UNCHANGED <<packages, runs, st, retry, stops, tidied, revived>>

WriteGoMod ==
    /\ pc = "ret-gomod" /\ Go("ret-commit")
    /\ disk' = [disk EXCEPT !.mod = @ \cup Lowest(p.named)..p.ver]
    /\ UNCHANGED <<hist, pushed, head, refVars, pub>> /\ RetractFrame

CommitGoMod ==
    /\ pc = "ret-commit"
    /\ Committed("retract", p.ver, [head EXCEPT !.mod = disk.mod])
    /\ pc' = "ret-mark" /\ p' = [p EXCEPT !.at = Len(hist) + 1]
    /\ UNCHANGED <<pushed, disk, refVars, pub>> /\ RetractFrame

MarkRetracted ==
    /\ pc = "ret-mark"
    /\ IF p.rest = {} THEN Go("ret-archive") /\ UNCHANGED disk
       ELSE /\ disk' = [disk EXCEPT !.arch[Lowest(p.rest)].by = p.ver]
            /\ p' = [p EXCEPT !.rest = @ \ {Lowest(p.rest)}] /\ UNCHANGED pc
    /\ UNCHANGED <<hist, pushed, head, refVars, pub>> /\ RetractFrame

ArchiveRetraction ==
    /\ pc = "ret-archive" /\ Go("ret-record")
    /\ disk' = [disk EXCEPT !.arch[p.ver] = Archived(p.at, p.ver)]
    /\ UNCHANGED <<hist, pushed, head, refVars, pub>> /\ RetractFrame

\* The archives are committed, of the named versions and the retraction's own.
RecordRetraction ==
    /\ pc = "ret-record" /\ Go("ret-tag")
    /\ Committed("record", p.ver,
                 [head EXCEPT !.arch = [v \in Version |->
                    IF v \in p.named \cup {p.ver} THEN disk.arch[v] ELSE @[v]]])
    /\ UNCHANGED <<pushed, disk, refVars, pub>> /\ RetractFrame

\* A tag somewhere else is refused, and never moved.
TagRetraction ==
    /\ pc = "ret-tag" /\ ltag[p.ver] \in {0, p.at} /\ Go("ret-push")
    /\ ltag' = [ltag EXCEPT ![p.ver] = p.at]
    /\ UNCHANGED <<repoVars, otag, ghr, tagged, pub>> /\ RetractFrame

PushRetraction ==
    /\ pc = "ret-push" /\ otag[p.ver] \in {0, p.at} /\ Go("ret-proxy")
    /\ otag' = [otag EXCEPT ![p.ver] = p.at] /\ tagged' = tagged \cup {p.ver}
    /\ UNCHANGED <<repoVars, ltag, ghr, pub>> /\ RetractFrame

RequestGoVersion ==
    /\ pc = "ret-proxy" /\ Go("ret-releases")
    /\ pub' = [pub EXCEPT !["go"][p.ver] = IF @ = 0 THEN p.at ELSE @]
    /\ UNCHANGED <<repoVars, refVars>> /\ RetractFrame

DeleteRetractedReleases ==
    /\ pc = "ret-releases"
    /\ LET left == {v \in p.named : ghr[v].exists} IN
         IF left = {} THEN Done /\ UNCHANGED ghr
         ELSE ghr' = [ghr EXCEPT ![Lowest(left)] = NoRelease] /\ UNCHANGED procVars
    /\ UNCHANGED <<repoVars, ltag, otag, tagged, pub>> /\ RetractFrame

Retract ==
    \/ \E S \in SUBSET Version : PlanRetract(S)
    \/ WriteGoMod \/ CommitGoMod \/ MarkRetracted \/ ArchiveRetraction
    \/ RecordRetraction \/ TagRetraction \/ PushRetraction
    \/ RequestGoVersion \/ DeleteRetractedReleases

-----------------------------------------------------------------------------
(* Deprecate, yank and edit. *)

\* releasedArchive and requireRelease.
Marked(v) == Released(disk, v) /\ ~Retracted(disk, v) /\ ghr[v].exists

\* A yank also retracts in go.mod what the Go proxy or origin serves.
OwesRetraction(v) ==
    "go" \in packages /\ PackageFinding("go", v) = "published" /\ v \notin disk.mod

PlanNotice(v, label) ==
    /\ Idle /\ Marked(v)
    /\ IF label = "yanked" /\ OwesRetraction(v) THEN disk.mod = head.mod /\ pc' = "note-gomod"
                                                ELSE pc' = "note-record"
    /\ p' = [NoPlan EXCEPT !.ver = v, !.label = label]
    /\ UNCHANGED <<packages, repoVars, refVars, netVars, st, retry, stops, tidied, revived>>

NoticeFrame == UNCHANGED <<packages, netVars, st, retry, stops, tidied, revived,
                           pushed, ltag, otag, tagged>>

RetractInGoMod ==
    /\ pc = "note-gomod" /\ Go("note-commit-gomod")
    /\ disk' = [disk EXCEPT !.mod = @ \cup {p.ver}]
    /\ UNCHANGED <<hist, head, ghr>> /\ NoticeFrame

CommitInGoMod ==
    /\ pc = "note-commit-gomod" /\ Go("note-record")
    /\ Committed("yank", p.ver, [head EXCEPT !.mod = disk.mod])
    /\ UNCHANGED <<disk, ghr>> /\ NoticeFrame

\* A notice the archive holds already is not recorded twice.
RecordReleaseNotice ==
    /\ pc = "note-record"
    /\ IF p.label \in disk.arch[p.ver].notices THEN Go("note-rewrite") /\ UNCHANGED disk
       ELSE Go("note-commit") /\ disk' = [disk EXCEPT !.arch[p.ver].notices = @ \cup {p.label}]
    /\ UNCHANGED <<hist, head, ghr>> /\ NoticeFrame

CommitNotice ==
    /\ pc = "note-commit" /\ Go("note-rewrite")
    /\ Committed("notice", p.ver, [head EXCEPT !.arch[p.ver] = disk.arch[p.ver]])
    /\ UNCHANGED <<disk, ghr>> /\ NoticeFrame

\* Rewrite of the document the record composes; a Release that is gone is an error.
Rewritten(v) == [ghr EXCEPT ![v].notices = disk.arch[v].notices]

RewriteRelease ==
    /\ pc = "note-rewrite" /\ Done
    /\ ghr' = Rewritten(p.ver)
    /\ UNCHANGED <<hist, head, disk>> /\ NoticeFrame

Edit(v) ==
    /\ Idle /\ Marked(v)
    /\ ghr' = Rewritten(v)
    /\ UNCHANGED <<hist, head, disk, procVars>> /\ NoticeFrame

Notice ==
    \/ \E v \in Version, label \in Labels : PlanNotice(v, label)
    \/ RetractInGoMod \/ CommitInGoMod \/ RecordReleaseNotice \/ CommitNotice
    \/ RewriteRelease \/ \E v \in Version : Edit(v)

-----------------------------------------------------------------------------
(* Retry: the latest release's workflows, dispatched again at its tag. *)

RetryFrame == UNCHANGED <<packages, repoVars, refVars, pub, st, tidied, revived>>

\* A missing retry file is written first, naming every dispatchable workflow.
PlanRetry ==
    /\ Idle /\ packages \cap Registries # {}
    /\ LET v == LatestReleased(disk) IN
         /\ v # 0 /\ ltag[v] # 0 /\ ghr[v].exists
         /\ retry' = IF retry = {} THEN Workflows ELSE retry
         /\ p' = [NoPlan EXCEPT !.ver = v, !.at = ltag[v], !.rest = retry']
    /\ pc' = "retry"
    /\ UNCHANGED <<runs, stops>> /\ RetryFrame

Dispatch ==
    /\ pc = "retry"
    /\ \E w \in p.rest : p' = [p EXCEPT !.rest = @ \ {w}]
    /\ runs' = [runs EXCEPT ![p.ver] = [state |-> "running", at |-> p.at]]
    /\ UNCHANGED <<pc, retry, stops>> /\ RetryFrame

\* What was not dispatched is left in the file.
DispatchFails ==
    /\ pc = "retry" /\ p.rest # {} /\ stops < MaxStops /\ stops' = stops + 1
    /\ retry' = p.rest /\ Done
    /\ UNCHANGED runs /\ RetryFrame

RemoveRetry ==
    /\ pc = "retry" /\ p.rest = {} /\ retry' = {} /\ Done
    /\ UNCHANGED <<runs, stops>> /\ RetryFrame

Retry == PlanRetry \/ Dispatch \/ DispatchFails \/ RemoveRetry

-----------------------------------------------------------------------------
(* The release, which stops and is resumed at any stage, and everybody else. *)

Mine == UNCHANGED <<packages, retry, procVars, stops>>

\* DecideVersion: a bump of the version the files name, unless the record or a
\* tag holds either number otherwise.
NextVersion == disk.vfile + 1
MayRelease ==
    /\ disk = head \/ [disk EXCEPT !.filled = FALSE] = [head EXCEPT !.filled = FALSE]
    /\ NextVersion \in Version /\ ~Released(disk, NextVersion)
    /\ ltag[NextVersion] = 0 /\ otag[NextVersion] = 0
    /\ disk.vfile # 0 => Released(disk, disk.vfile) /\ ltag[disk.vfile] # 0

ReleaseBumps ==
    /\ Idle /\ st.ver = 0 /\ MayRelease
    /\ Committed("bump", NextVersion, [head EXCEPT !.vfile = NextVersion])
    /\ disk' = [disk EXCEPT !.vfile = NextVersion]
    /\ st' = [ver |-> NextVersion, at |-> Len(hist) + 1, stage |-> "candidate"]
    /\ pushed' = Len(hist) + 1
    /\ UNCHANGED <<refVars, netVars, tidied, revived>> /\ Mine

\* The changelog finalized and the version archived at its candidate.
ReleaseArchives ==
    /\ Idle /\ st.stage = "candidate" /\ disk.arch[st.ver] = NoArchive
    /\ LET t == [disk EXCEPT !.arch[st.ver] = Archived(st.at, 0),
                             !.log = @ \cup {st.ver}, !.filled = FALSE]
       IN disk' = t /\ Committed("record", st.ver, [t EXCEPT !.mod = head.mod])
    /\ st' = [st EXCEPT !.stage = "archived"]
    /\ UNCHANGED <<pushed, refVars, netVars, tidied, revived>> /\ Mine

ReleaseTags ==
    /\ Idle /\ st.stage = "archived"
    /\ ltag[st.ver] \in {0, st.at} /\ otag[st.ver] \in {0, st.at}
    /\ ltag' = [ltag EXCEPT ![st.ver] = st.at] /\ otag' = [otag EXCEPT ![st.ver] = st.at]
    /\ tagged' = tagged \cup {st.ver} /\ pushed' = Len(hist)
    /\ st' = [st EXCEPT !.stage = "tagged"]
    /\ revived' = IF Released(head, st.ver) /\ Released(disk, st.ver) THEN revived
                 ELSE revived \cup {st.ver}
    /\ UNCHANGED <<hist, head, disk, ghr, netVars, tidied>> /\ Mine

\* gh creates no Release for a tag origin does not hold; a publish run starts.
ReleasePublished ==
    /\ Idle /\ st.stage = "tagged" /\ otag[st.ver] # 0
    /\ ghr' = [ghr EXCEPT ![st.ver].exists = TRUE]
    /\ runs' = IF packages \cap Registries = {} THEN runs
               ELSE [runs EXCEPT ![st.ver] = [state |-> "running", at |-> otag[st.ver]]]
    /\ st' = [st EXCEPT !.stage = "released"]
    /\ UNCHANGED <<repoVars, ltag, otag, tagged, pub, tidied, revived>> /\ Mine

ReleaseEnds ==
    /\ Idle /\ st.stage = "released"
    /\ st' = NoState
    /\ UNCHANGED <<repoVars, refVars, netVars, tidied, revived>> /\ Mine

Release == ReleaseBumps \/ ReleaseArchives \/ ReleaseTags \/ ReleasePublished \/ ReleaseEnds

\* A publish run puts a package on its registry, which keeps a version it has.
Publishes(v, k) ==
    /\ runs[v].state = "running" /\ pub[k][v] = 0
    /\ pub' = [pub EXCEPT ![k][v] = runs[v].at]
    /\ UNCHANGED <<repoVars, refVars, runs, st, tidied, revived>> /\ Mine

RunEnds(v) ==
    /\ runs[v].state = "running"
    /\ \E how \in {"failed", "succeeded"} :
         /\ how = "succeeded" => \A k \in packages \cap Registries : pub[k][v] = runs[v].at
         /\ runs' = [runs EXCEPT ![v].state = how]
    /\ UNCHANGED <<repoVars, refVars, pub, st, tidied, revived>> /\ Mine

\* Anyone who asks the proxy for a tagged version makes it keep that version.
GoFetched(v) ==
    /\ "go" \in packages /\ otag[v] # 0 /\ pub["go"][v] = 0
    /\ pub' = [pub EXCEPT !["go"][v] = otag[v]]
    /\ UNCHANGED <<repoVars, refVars, runs, st, tidied, revived>> /\ Mine

World ==
    \E v \in Version : RunEnds(v) \/ GoFetched(v)
                       \/ \E k \in packages \cap Registries : Publishes(v, k)

\* A person discards what a stopped command left uncommitted, or commits it.
Discard ==
    /\ Idle /\ disk # head /\ tidied < MaxTidying /\ tidied' = tidied + 1
    /\ disk' = head
    /\ UNCHANGED <<hist, pushed, head, refVars, netVars, st, revived>> /\ Mine

CommitLeft ==
    /\ Idle /\ disk # head /\ tidied < MaxTidying /\ tidied' = tidied + 1
    /\ Committed("other", 0, disk)
    /\ UNCHANGED <<pushed, disk, refVars, netVars, st, revived>> /\ Mine

Command == Undo \/ Retract \/ Notice \/ Retry
Next == Command \/ Stop \/ Release \/ World \/ Discard \/ CommitLeft

Spec == Init /\ [][Next]_vars

-----------------------------------------------------------------------------
(* Properties. *)

\* The tag of a version is a retraction's and nothing was released under it.
Retraction(v) == \E i \in 1..Len(hist) : hist[i].kind = "retract" /\ hist[i].ver = v

\* No tag and no Release without its record: a release archives before it tags,
\* and an undo takes the tags before the archive, whatever stops in between
\* (undo.go execute; execute.go archive, tag).
NoRecordlessTag ==
    \A v \in Version \ revived :
        ~Retraction(v) /\ (ltag[v] # 0 \/ otag[v] # 0 \/ ghr[v].exists) =>
            Released(head, v)

\* What was destroyed is on record: a version whose tag is no longer on origin
\* has an undo's audit line in the history (undo.go: "an audit line recording
\* the plan and its evidence is written and committed before the first deletion").
DestroyedIsAudited ==
    \A v \in Version : v \in tagged /\ otag[v] = 0 => v \in head.audits

\* What a registry holds stays on record, at the commit it was published from:
\* no undo, finished or stopped, takes the record of a published version
\* (judge).
PublishedIsRecorded ==
    \A k \in packages, v \in Version \ revived :
        pub[k][v] # 0 /\ ~Retraction(v) =>
            Released(head, v) /\ head.arch[v].commit = pub[k][v]

\* The history accounts for every tag that is, for every tag that was, and for
\* what the registries hold.
TagsAreRecorded == NoRecordlessTag /\ DestroyedIsAudited /\ PublishedIsRecorded
=============================================================================
