---------------------------- MODULE BatchRelease ----------------------------
(***************************************************************************)
(* A batch release (internal/batchrelease, internal/release/batch.go): the *)
(* releasables a batch release file names are each committed, in order;    *)
(* the branch tip is pushed as one candidate, which CI judges once; each   *)
(* is then finalized, tagged and published on that commit; and the file is *)
(* archived.  A run may fail or be killed anywhere, and what the next run  *)
(* finds is the plan, the in-progress states, the branch and the tags.     *)
(* Between runs people edit the file, commit, and run ordinary releases,   *)
(* resumes and abandons of the same releasables.  The run lock keeps two   *)
(* commands from running at once.                                          *)
(***************************************************************************)
EXTENDS Integers, FiniteSets, Sequences, SequencesExt

CONSTANTS
    Order,        \* every releasable, in the order ReleasableOrder gives
    Bumps,        \* how far a bump may move a version
    RootDocs,     \* TRUE when the workspace's root declares selfdoc.json
    MaxVersion,   \* the highest version number (a bound)
    MaxCommits,   \* commits on the branch (a bound)
    MaxStops,     \* failing calls and killed processes (a bound)
    MaxDeeds      \* what people do beside the batch (a bound)

Releasables == Range(Order)
Version == 1..MaxVersion
NoFile == [id |-> <<0, 0>>, bump |-> <<>>]
NoPlan == [blob |-> <<0, 0>>, base |-> <<>>, target |-> <<>>, bump |-> <<>>]
NoState == [ver |-> 0, committed |-> FALSE, stage |-> "none", rc |-> 0]

ASSUME BatchAssumption ==
    /\ Order \in Seq(Releasables) /\ Len(Order) = Cardinality(Releasables)
    /\ Bumps \subseteq Nat \ {0} /\ RootDocs \in BOOLEAN
    /\ {MaxVersion, MaxCommits, MaxStops, MaxDeeds} \subseteq Nat

VARIABLES
    hist, origin,   \* the branch's commits; how many of them origin has
    ltag, otag,     \* the commit a version's tag names here, on origin; 0 none
    st,             \* each releasable's in-progress state
    file, plan,     \* the batch release file; the plan of the batch
    pc, m,          \* the running command and what it holds
    stops, deeds,
    verdicts,       \* history: the commits CI passed
    since,          \* history: the versions when the file was first written
    touched,        \* history: released or abandoned by hand since planned
    cut             \* history: killed while its release commit was made

repoVars == <<hist, origin>>
tagVars == <<ltag, otag>>
fileVars == <<file, plan, since>>
vars == <<repoVars, tagVars, st, fileVars, pc, m, stops, deeds, verdicts, touched, cut>>

Commit(kind, r, v) == Append(hist, [kind |-> kind, of |-> r, ver |-> v])
Room == Len(hist) < MaxCommits

\* The version file of r at commit n: what the last bump below it wrote.
VersionAt(r, n) ==
    LET B == {i \in 1..n : hist[i].kind = "bump" /\ hist[i].of = r}
    IN IF B = {} THEN 0 ELSE hist[CHOOSE i \in B : \A j \in B : j =< i].ver
VersionOf(r) == VersionAt(r, Len(hist))
Never(r, v) == \E i \in DOMAIN hist : hist[i] = [kind |-> "never", of |-> r, ver |-> v]

Idle == pc = "idle"
Planned == plan # NoPlan
Items == DOMAIN plan.target
NoRun == [queue |-> {}, pending |-> {}, released |-> {}, pin |-> 0, tip |-> 0,
          cand |-> 0, fresh |-> FALSE]
Go(l) == pc' = l
End == pc' = "idle" /\ m' = NoRun
InProgress(r) == st[r] # NoState

\* Advance and the guards refuse a branch that is not where the run left it.
Unmoved == Len(hist) = m.tip
Left(run) == [run EXCEPT !.tip = Len(hist')]

Init ==
    /\ hist = <<[kind |-> "work", of |-> "", ver |-> 0]>> /\ origin = 1
    /\ ltag = [r \in Releasables |-> [v \in Version |-> 0]] /\ otag = ltag
    /\ st = [r \in Releasables |-> NoState]
    /\ file = NoFile /\ plan = NoPlan
    /\ pc = "idle" /\ m = NoRun
    /\ stops = 0 /\ deeds = 0 /\ verdicts = {} /\ touched = {} /\ cut = {}
    /\ since = [r \in Releasables |-> 0]

-----------------------------------------------------------------------------
(* What a run finds, and the plan it makes. *)

\* checkPlan: the file names the plan's releasables, with the plan's bumps.
Matches == file.bump = plan.bump

ThisFile == plan.blob = file.id

\* itemReleased: the version file names the planned version, whose tag is
\* here and on origin.
ReleasedHereOnly(r) == /\ VersionOf(r) = plan.target[r]
                       /\ ltag[r][plan.target[r]] # 0
                       /\ otag[r][plan.target[r]] = 0
ItemReleased(r) == /\ VersionOf(r) = plan.target[r]
                   /\ ltag[r][plan.target[r]] # 0
                   /\ otag[r][plan.target[r]] # 0
Released == {r \in Items : ItemReleased(r)}

NotPastVerdict(s) == FALSE
PastVerdict(s) == s.stage \notin {"none", "begun", "pushed"}
NoneStranded == {}
Stranded == {r \in Items : InProgress(r) /\ ~PastVerdict(st[r])}
Sealed == {r \in Items : InProgress(r) /\ PastVerdict(st[r])}

\* validate: no release of r in progress, the version it is at released or
\* never to be, and the next one free.
Next1(r) == VersionOf(r) + file.bump[r]
Validates(r) ==
    LET cur == VersionOf(r)  next == Next1(r)
    IN  /\ ~InProgress(r)
        /\ (cur # 0 /\ ~Never(r, cur)) => ltag[r][cur] # 0
        /\ next \in Version
        /\ ~Never(r, next)
        /\ ltag[r][next] = 0 /\ otag[r][next] = 0

\* The releasables the file names; a run takes them in the releasables' order.
Named == DOMAIN file.bump
Owed(released) == {r \in Named : r \notin released /\ r \notin Stranded}
Place(r) == CHOOSE i \in DOMAIN Order : Order[i] = r
First(r, S) == r \in S /\ \A q \in S : Place(r) =< Place(q)

\* A run over a plan whose releasables are all released: the archive of the
\* file it was made from is finished; a plan that has another file before it
\* is left over, and removed.
FinishPlan ==
    /\ Idle /\ file # NoFile /\ Planned /\ Matches
    /\ Released = Items
    /\ \A r \in Items : ~InProgress(r)
    /\ IF ThisFile
       THEN /\ Go("archive") /\ m' = [NoRun EXCEPT !.tip = Len(hist)]
            /\ UNCHANGED plan
       ELSE plan' = NoPlan /\ UNCHANGED <<pc, m>>
    /\ UNCHANGED <<repoVars, tagVars, st, file, since, stops, deeds, verdicts,
                   touched, cut>>

\* A run with something to release: the plan takes the file as its own, and
\* a release past the verdict stops the run there.
BeginRun ==
    /\ Idle /\ file # NoFile
    /\ Planned => (Matches /\ Released # Items)
    /\ plan' = IF Planned THEN [plan EXCEPT !.blob = file.id] ELSE plan
    /\ IF Sealed # {} THEN UNCHANGED <<pc, m>>
       ELSE /\ Go("plan")
            /\ m' = [NoRun EXCEPT !.queue = Named, !.released = Released, !.tip = Len(hist)]
    /\ UNCHANGED <<repoVars, tagVars, st, file, since, stops, deeds, verdicts,
                   touched, cut>>

\* validateAndPlan: what the run releases from the start is validated before
\* anything is written; a batch with no plan is planned.
ValidateAndPlan ==
    /\ pc = "plan"
    /\ IF \A r \in Owed(m.released) : Validates(r)
       THEN /\ Go("docs") /\ UNCHANGED m
            /\ IF Planned THEN UNCHANGED <<plan, touched>>
               ELSE /\ plan' = [blob   |-> file.id, bump |-> file.bump,
                                base   |-> [r \in Named |-> VersionOf(r)],
                                target |-> [r \in Named |-> Next1(r)]]
                    /\ touched' = {}
       ELSE End /\ UNCHANGED <<plan, touched>>
    /\ UNCHANGED <<repoVars, tagVars, st, file, since, stops, deeds, verdicts, cut>>

\* rootSelfdoc: what it writes is committed; the batch is pinned after it.
RootSelfdoc ==
    /\ pc = "docs"
    /\ \/ RootDocs /\ Room /\ hist' = Commit("docs", "", 0)
       \/ UNCHANGED hist
    /\ Unmoved
    /\ Go("commit") /\ m' = [Left(m) EXCEPT !.pin = Len(hist')]
    /\ UNCHANGED <<origin, tagVars, st, fileVars, stops, deeds, verdicts, touched, cut>>

-----------------------------------------------------------------------------
(* The first pass: every release commit, unpushed. *)

Committing(r) == pc = "commit" /\ First(r, m.queue)
Advanced(r) == [m EXCEPT !.queue = @ \ {r}]
Joined(r) == [m EXCEPT !.queue = @ \ {r}, !.pending = @ \cup {r}]

Skip(r) ==
    /\ Committing(r) /\ r \in m.released
    /\ m' = Advanced(r)
    /\ UNCHANGED <<repoVars, tagVars, st, fileVars, pc, stops, deeds, verdicts, touched, cut>>

\* A releasable an earlier run left in progress joins this run's candidate.
Join(r) ==
    /\ Committing(r) /\ r \notin m.released /\ InProgress(r)
    /\ m' = Joined(r)
    /\ UNCHANGED <<repoVars, tagVars, st, fileVars, pc, stops, deeds, verdicts, touched, cut>>

\* ReleaseBatchMember: the release commit, on the branch and recorded.
CommitMember(r) ==
    /\ Committing(r) /\ r \notin m.released /\ Validates(r) /\ Room
    /\ Unmoved
    /\ hist' = Commit("bump", r, Next1(r))
    /\ st' = [st EXCEPT ![r] = [NoState EXCEPT !.ver = Next1(r), !.committed = TRUE,
                                               !.stage = "begun"]]
    /\ m' = Left(Joined(r))
    /\ UNCHANGED <<origin, tagVars, fileVars, pc, stops, deeds, verdicts, touched, cut>>

\* The process is killed in it: the state is there, the commit perhaps.
KilledCommitting(r) ==
    /\ Committing(r) /\ r \notin m.released /\ Validates(r) /\ Room
    /\ stops < MaxStops /\ stops' = stops + 1
    /\ st' = [st EXCEPT ![r] = [NoState EXCEPT !.ver = Next1(r), !.stage = "begun"]]
    /\ \/ hist' = Commit("bump", r, Next1(r))
       \/ UNCHANGED hist
    /\ cut' = cut \cup {r} /\ End
    /\ UNCHANGED <<origin, tagVars, fileVars, deeds, verdicts, touched>>

\* The release of r stops after its commit reached the branch, and its own
\* advance is taken back: those of the releasables before it stay.
TakenBack == SubSeq(hist, 1, Len(hist) - 1)
DiscardMember(r) ==
    /\ pc = "commit" /\ r \in m.pending /\ \A q \in m.pending : Place(q) =< Place(r)
    /\ Unmoved /\ Len(hist) > m.pin /\ Last(hist).of = r
    /\ stops < MaxStops /\ stops' = stops + 1
    /\ hist' = TakenBack
    /\ st' = [st EXCEPT ![r] = NoState] /\ End
    /\ UNCHANGED <<origin, tagVars, fileVars, deeds, verdicts, touched, cut>>

-----------------------------------------------------------------------------
(* The candidate, and its verdict. *)

\* PublishBatchCandidate, to its push: the candidate is the branch tip, where
\* the run left it.
PushCandidate ==
    /\ pc = "commit" /\ m.queue = {} /\ m.pending # {}
    /\ Unmoved
    /\ origin' = m.tip
    /\ m' = [m EXCEPT !.cand = m.tip, !.queue = m.pending] /\ Go("record")
    /\ UNCHANGED <<hist, tagVars, st, fileVars, stops, deeds, verdicts, touched, cut>>

\* Each state records the candidate as its release commit.
RecordPushed(r) ==
    /\ pc = "record" /\ First(r, m.queue)
    /\ st' = [st EXCEPT ![r].rc = m.cand, ![r].stage = "pushed"]
    /\ m' = Advanced(r)
    /\ UNCHANGED <<repoVars, tagVars, fileVars, pc, stops, deeds, verdicts, touched, cut>>

\* GateBatchCandidate, passed: any other verdict is a stop.
Gate ==
    /\ pc = "record" /\ m.queue = {}
    /\ verdicts' = verdicts \cup {m.cand}
    /\ Go("complete") /\ m' = [m EXCEPT !.queue = m.pending]
    /\ UNCHANGED <<repoVars, tagVars, st, fileVars, stops, deeds, touched, cut>>

-----------------------------------------------------------------------------
(* The second pass, and the same steps of an ordinary release. *)

Completing(r) == pc = "complete" /\ First(r, m.queue)
Alone(r) == pc = "alone" /\ r \in m.queue
Working(r) == Completing(r) \/ Alone(r)
At(r, stage) == Working(r) /\ st[r].stage = stage

\* bumpAndCommit of a state that does not record its release commit.
CommitOwed(r) ==
    /\ Working(r) /\ ~st[r].committed
    /\ IF VersionOf(r) = st[r].ver THEN UNCHANGED <<hist, m>>
       ELSE /\ Unmoved /\ Room /\ hist' = Commit("bump", r, st[r].ver)
            /\ m' = Left(m)
    /\ st' = [st EXCEPT ![r].committed = TRUE]
    /\ UNCHANGED <<origin, tagVars, fileVars, pc, stops, deeds, verdicts, touched, cut>>

\* adoptBatchCandidate: the verdict on the batch's candidate is r's.
AdoptCandidate(r) ==
    /\ Completing(r) /\ st[r].committed
    /\ st[r].stage = "pushed" /\ st[r].rc = m.cand
    /\ st' = [st EXCEPT ![r].stage = "verified"]
    /\ UNCHANGED <<repoVars, tagVars, fileVars, pc, m, stops, deeds, verdicts, touched, cut>>

\* pushCandidate and verifyCI of an ordinary release.
PushAlone(r) ==
    /\ Alone(r) /\ st[r].committed /\ st[r].stage \in {"begun", "pushed"}
    /\ m.cand = 0 /\ Unmoved
    /\ origin' = m.tip
    /\ st' = [st EXCEPT ![r].rc = m.tip, ![r].stage = "pushed"]
    /\ m' = [m EXCEPT !.cand = m.tip]
    /\ UNCHANGED <<hist, tagVars, fileVars, pc, stops, deeds, verdicts, touched, cut>>

VerifyAlone(r) ==
    /\ Alone(r) /\ st[r].stage = "pushed" /\ m.cand # 0
    /\ verdicts' = verdicts \cup {m.cand}
    /\ st' = [st EXCEPT ![r].stage = "verified"]
    /\ UNCHANGED <<repoVars, tagVars, fileVars, pc, m, stops, deeds, touched, cut>>

Finalize(r) ==
    /\ At(r, "verified") /\ Unmoved /\ Room
    /\ hist' = Commit("final", r, st[r].ver)
    /\ st' = [st EXCEPT ![r].stage = "finalized"]
    /\ m' = Left(m)
    /\ UNCHANGED <<origin, tagVars, fileVars, pc, stops, deeds, verdicts, touched, cut>>

Tag(r) ==
    /\ At(r, "finalized")
    /\ ltag' = [ltag EXCEPT ![r][st[r].ver] = st[r].rc]
    /\ st' = [st EXCEPT ![r].stage = "tagged"]
    /\ UNCHANGED <<repoVars, otag, fileVars, pc, m, stops, deeds, verdicts, touched, cut>>

PushTag(r) ==
    /\ At(r, "tagged")
    /\ origin' = m.tip
    /\ otag' = [otag EXCEPT ![r][st[r].ver] = ltag[r][st[r].ver]]
    /\ st' = [st EXCEPT ![r].stage = "onorigin"]
    /\ UNCHANGED <<hist, ltag, fileVars, pc, m, stops, deeds, verdicts, touched, cut>>

\* The GitHub Release and what is left; the state is removed.
Publish(r) ==
    /\ At(r, "onorigin")
    /\ st' = [st EXCEPT ![r] = NoState]
    /\ IF Alone(r) THEN End ELSE m' = Advanced(r) /\ UNCHANGED pc
    /\ UNCHANGED <<repoVars, tagVars, fileVars, stops, deeds, verdicts, touched, cut>>

-----------------------------------------------------------------------------
(* The archive of the batch release file. *)

\* archiveIfComplete.
Finished == Released = Items /\ \A r \in Items : ~InProgress(r)
ArchiveIfComplete ==
    /\ pc = "complete" /\ m.queue = {}
    /\ IF Finished THEN Go("archive") /\ UNCHANGED m ELSE End
    /\ UNCHANGED <<repoVars, tagVars, st, fileVars, stops, deeds, verdicts, touched, cut>>

\* archive: its commit, the plan's removal, the push.
CommitArchive ==
    /\ pc = "archive" /\ Unmoved /\ Room
    /\ hist' = Commit("filed", "", 0) /\ file' = NoFile
    /\ Go("clear") /\ m' = Left(m)
    /\ UNCHANGED <<origin, tagVars, st, plan, since, stops, deeds, verdicts, touched, cut>>

ClearPlan ==
    /\ pc = "clear"
    /\ plan' = NoPlan /\ Go("pushfile")
    /\ UNCHANGED <<repoVars, tagVars, st, file, since, m, stops, deeds, verdicts, touched, cut>>

PushArchive ==
    /\ pc = "pushfile"
    /\ origin' = m.tip /\ End
    /\ UNCHANGED <<hist, tagVars, st, fileVars, stops, deeds, verdicts, touched, cut>>

\* A call fails, CI does not pass, or the process is killed between two
\* steps: what was done stays.  A fresh ordinary release that stops before
\* its candidate is pushed is taken back.
Stop ==
    /\ ~Idle /\ stops < MaxStops /\ stops' = stops + 1
    /\ End
    /\ IF m.fresh /\ m.cand = 0 /\ Unmoved
       THEN hist' = TakenBack /\ st' = [r \in Releasables |-> IF r \in m.queue THEN NoState ELSE st[r]]
       ELSE UNCHANGED <<hist, st>>
    /\ UNCHANGED <<origin, tagVars, fileVars, deeds, verdicts, touched, cut>>

\* The branch moved under the run: its next guard or advance stops it.
Refused ==
    /\ ~Idle /\ ~Unmoved
    /\ End
    /\ UNCHANGED <<repoVars, tagVars, st, fileVars, stops, deeds, verdicts, touched, cut>>

-----------------------------------------------------------------------------
(* What people do beside the batch. *)

Deed == Idle /\ deeds < MaxDeeds /\ deeds' = deeds + 1

Filed == {i \in DOMAIN hist : hist[i].kind = "filed"}

\* A batch release file is written: the next batch's.
WriteFile ==
    /\ Idle /\ file = NoFile
    /\ \E S \in (SUBSET Releasables) \ {{}}, b \in Bumps :
         file' = [id |-> <<1 + Cardinality(Filed), 0>>,
                  bump |-> [r \in S |-> b]]
    /\ since' = [r \in Releasables |-> VersionOf(r)]
    /\ UNCHANGED <<repoVars, tagVars, st, plan, pc, m, stops, deeds, verdicts, touched, cut>>

\* Its prose is edited, or its bumps.
EditFile ==
    /\ Deed /\ file # NoFile
    /\ \E b \in Bumps : file' = [id |-> [file.id EXCEPT ![2] = @ + 1], bump |-> [r \in Named |-> b]]
    /\ UNCHANGED <<repoVars, tagVars, st, plan, since, pc, m, stops, verdicts, touched, cut>>

\* `rlsbl release run' of r on its own, to its release commit.
ReleaseAlone(r) ==
    /\ Deed /\ Room
    /\ ~InProgress(r) /\ VersionOf(r) + 1 \in Version
    /\ (VersionOf(r) # 0 /\ ~Never(r, VersionOf(r))) => ltag[r][VersionOf(r)] # 0
    /\ ltag[r][VersionOf(r) + 1] = 0 /\ ~Never(r, VersionOf(r) + 1)
    /\ hist' = Commit("bump", r, VersionOf(r) + 1)
    /\ st' = [st EXCEPT ![r] = [NoState EXCEPT !.ver = VersionOf(r) + 1,
                                               !.committed = TRUE, !.stage = "begun"]]
    /\ touched' = touched \cup {r}
    /\ m' = [Left(NoRun) EXCEPT !.queue = {r}, !.fresh = TRUE] /\ Go("alone")
    /\ UNCHANGED <<origin, tagVars, fileVars, stops, verdicts, cut>>

\* `rlsbl release resume'.
ResumeAlone(r) ==
    /\ Idle /\ InProgress(r)
    /\ m' = [NoRun EXCEPT !.queue = {r}, !.tip = Len(hist),
                          !.cand = IF PastVerdict(st[r]) THEN st[r].rc ELSE 0]
    /\ Go("alone")
    /\ UNCHANGED <<repoVars, tagVars, st, fileVars, stops, deeds, verdicts, touched, cut>>

\* `rlsbl release abandon' of a version with no tag and no archive.
Abandon(r) ==
    /\ Deed /\ InProgress(r) /\ Room
    /\ st[r].stage \in {"begun", "pushed", "verified"}
    /\ hist' = Commit("never", r, st[r].ver)
    /\ st' = [st EXCEPT ![r] = NoState]
    /\ touched' = touched \cup {r}
    /\ UNCHANGED <<origin, tagVars, fileVars, pc, m, stops, verdicts, cut>>

\* Somebody commits on the branch, at any moment.
Work ==
    /\ deeds < MaxDeeds /\ deeds' = deeds + 1 /\ Room
    /\ hist' = Commit("work", "", 0)
    /\ UNCHANGED <<origin, tagVars, st, fileVars, pc, m, stops, verdicts, touched, cut>>

Batch ==
    \/ FinishPlan \/ BeginRun \/ ValidateAndPlan \/ RootSelfdoc
    \/ PushCandidate \/ Gate \/ ArchiveIfComplete
    \/ CommitArchive \/ ClearPlan \/ PushArchive \/ Refused
    \/ \E r \in Releasables : \/ Skip(r) \/ Join(r) \/ CommitMember(r)
                              \/ RecordPushed(r) \/ AdoptCandidate(r)
Member(r) == \/ CommitOwed(r) \/ PushAlone(r) \/ VerifyAlone(r) \/ Finalize(r)
             \/ Tag(r) \/ PushTag(r) \/ Publish(r)
People == \/ WriteFile \/ EditFile \/ Work
          \/ \E r \in Releasables : ReleaseAlone(r) \/ ResumeAlone(r) \/ Abandon(r)
Faults == Stop \/ \E r \in Releasables : KilledCommitting(r) \/ DiscardMember(r)

Next == Batch \/ (\E r \in Releasables : Member(r)) \/ People \/ Faults
Spec == Init /\ [][Next]_vars

\* Runs go on, the batch is run again until it is done, and a release it left
\* past the verdict is resumed, as its refusals say.
Fairness == /\ WF_vars(Batch \/ \E r \in Releasables : Member(r))
            /\ \A r \in Releasables : WF_vars(ResumeAlone(r))
FairSpec == Spec /\ Fairness

-----------------------------------------------------------------------------
(* Properties. *)

\* A version is tagged on a commit CI passed, which holds its release commit:
\* joining a candidate late, completing it after another run's and finishing
\* it by hand all keep to it (adoptBatchCandidate, stranded).
TagHasBump ==
    \A r \in Releasables, v \in Version : ltag[r][v] # 0 =>
        ltag[r][v] \in verdicts /\ VersionAt(r, ltag[r][v]) = v

\* The same of every releasable but one whose release commit a kill cut.
TagHasBumpUnlessCut ==
    \A r \in Releasables \ cut, v \in Version : ltag[r][v] # 0 =>
        ltag[r][v] \in verdicts /\ VersionAt(r, ltag[r][v]) = v

\* A state that records a release commit has it on the branch: no stop of one
\* releasable takes another's commit back (ReleaseBatchMember, discard).
CommittedStays ==
    \A r \in Releasables : st[r].committed =>
        \E i \in DOMAIN hist : hist[i] = [kind |-> "bump", of |-> r, ver |-> st[r].ver]

\* A releasable of the plan that nobody released or abandoned by hand is at
\* the version the batch found or the one it planned, however many runs stop:
\* none is released twice (releasedItems, stranded).
PlanKept ==
    Planned => \A r \in Items \ touched :
                   VersionOf(r) \in {plan.base[r], plan.target[r]}

\* A batch that is run again until it is done gets done, whatever stops and
\* kills its runs, unless one of its releasables is released or abandoned by
\* hand, or the file is made another batch's: the plan, the in-progress states
\* and the tags say enough to go on.  The bound on commits excepted.
BatchEnds ==
    Planned /\ file # NoFile ~>
        ~Planned \/ file = NoFile \/ ~Matches \/ touched # {} \/ ~Room

Verified(s) == s.stage \in {"verified", "finalized", "tagged", "onorigin"}

\* The commit CI verified is a release's for good: no later candidate moves it
\* (stranded refuses a release past the verdict).
VerdictKept ==
    \A r \in Releasables : Verified(st[r]) /\ st'[r] # NoState =>
        st'[r].rc = st[r].rc /\ Verified(st'[r])

\* A batch release file is archived once every releasable it names has been
\* released since the file was written, and none is left part-way
\* (archiveIfComplete, finishCompletedPlan and the plan's blob).
FiledIsDone ==
    file # NoFile /\ file' = NoFile =>
        \A r \in Named :
            /\ ~InProgress(r)
            /\ \E v \in since[r] + 1..MaxVersion : otag[r][v] # 0

\* What a run of the batch settles stays settled by the runs after it: the
\* commit verified for a release, and the file whose releases are done.
SettledStays == [][VerdictKept /\ FiledIsDone]_vars

\* What a batch leaves of each releasable, however its runs are cut, is a
\* release the batch can go on from: on the branch, tagged where CI passed, at
\* the version planned.
BatchIsSound == TagHasBumpUnlessCut /\ CommittedStays /\ PlanKept
=============================================================================
