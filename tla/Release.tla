------------------------------ MODULE Release ------------------------------
(***************************************************************************)
(* One releasable released from one release branch: `rlsbl release run',   *)
(* `rlsbl release resume' and `rlsbl release abandon', with the people and *)
(* processes that commit to the branch, push to origin and create tags     *)
(* while they run, and with a process that dies between any two effects.   *)
(*                                                                         *)
(* A commit is its position in `log'.  Its record holds the commits it     *)
(* contains (anc, itself included) and what it is; everything the code     *)
(* reads from a commit's tree (the version files, the changelog, the       *)
(* release archives) is derived from the commits it contains.              *)
(***************************************************************************)
EXTENDS Integers, Sequences, FiniteSets

CONSTANTS
    MaxVersion,      \* versions 1..MaxVersion can be released; 0 is released already
    Tags,            \* the tags a version owns
    Primary,         \* the tag-format spelling among them; the rest are companions
    Workspace,       \* TRUE: the generated CI router filters jobs by path
    PushCI,          \* FALSE: no workflow triggers on push
    ForeignKinds,    \* the commits other people make during a release
    MaxForeign,      \* how many of them (a bound)
    MaxCommits,      \* no release commit is made on a log longer than this (a bound)
    Faults,          \* the faults that occur
    MaxFaults        \* how many of them, crashes included (a bound)

ASSUME ReleaseAssumption ==
    /\ MaxVersion \in Nat \ {0}
    /\ Primary \in Tags
    /\ Workspace \in BOOLEAN /\ PushCI \in BOOLEAN
    /\ ForeignKinds \subseteq {"work", "aside"}
    /\ MaxForeign \in Nat /\ MaxCommits \in Nat /\ MaxFaults \in Nat

Version == 1..MaxVersion
NoCommit == 0

(* The step table, by position. *)
VersionBumped == 1       Committed == 2          CandidatePushed == 3
CIVerified == 4          ChangelogFinalized == 5 ReleaseArchived == 6
Tagged == 7              Pushed == 8             GitHubReleaseCreated == 9
PipelinesPublished == 10 Deployed == 11          PostReleaseHooksRun == 12
Steps == 1..12
FatalSteps == Steps \ {PostReleaseHooksRun}

VARIABLES
    log,        \* every commit made so far
    branch,     \* the release branch in the working repository
    origin,     \* the release branch on origin
    ltag, otag, \* [version -> [tag -> commit]]: the tags here and on origin
    grel,       \* [version -> commit]: the GitHub Release's rlsbl-ci-sha marker
    pub, dep,   \* [version -> commit]: the tree published and deployed from here
    ran,        \* commits whose members' CI jobs ran
    green,      \* commits a release saw CI pass on
    st,         \* the durable in-progress state
    loose,      \* version whose never-released archive is written, uncommitted
    faults,     \* faults so far
    \* the memory of the command that holds the release lock
    pc, mode, step, tip, head, last, pushed, attempted, cand, entry

repoVars  == <<log, branch, origin>>
tagVars   == <<ltag, otag>>
outVars   == <<grel, pub, dep>>
ciVars    == <<ran, green>>
procVars  == <<pc, mode, step, tip, head, last, pushed, attempted, cand, entry>>
vars == <<log, branch, origin, ltag, otag, grel, pub, dep, ran, green,
          st, loose, faults, procVars>>

-----------------------------------------------------------------------------
(* Commits and what their trees hold. *)

Kinds == {"base", "work", "aside", "entry", "merge", "bump", "finalize",
          "archive", "never"}
Commits == 1..Len(log)
Anc(c) == log[c].anc
IsAncestor(a, b) == a \in Anc(b)

\* The commits of kind k in c's history that are about version v.
Of(c, k, v) == {d \in Anc(c) : log[d].kind = k /\ log[d].ver = v}
Has(c, k, v) == \E d \in Anc(c) : log[d].kind = k /\ log[d].ver = v

\* The version the version files name at c: the last bump's.
VersionOf(c) ==
    CHOOSE v \in 0..MaxVersion :
        /\ v = 0 \/ Has(c, "bump", v)
        /\ \A w \in v+1..MaxVersion : ~Has(c, "bump", w)

\* The release commit the archive of v at c records.
ArchivedAt(c, v) ==
    IF Has(c, "archive", v) THEN log[CHOOSE d \in Of(c, "archive", v) : TRUE].of
                            ELSE NoCommit

\* The user-facing commits of c's history that no changelog entry describes.
Uncovered(c) ==
    {w \in Anc(c) : /\ log[w].kind = "work"
                    /\ ~\E e \in Anc(c) : log[e].kind = "entry" /\ IsAncestor(w, e)}

\* The entries at c no released changelog file has taken.
Unreleased(c) ==
    {e \in Anc(c) : /\ log[e].kind = "entry"
                    /\ ~\E f \in Anc(c) : log[f].kind = "finalize" /\ IsAncestor(e, f)}

\* The commits from..to holds a path the members' CI filters match.
Triggers(from, to) ==
    \E d \in Anc(to) \ Anc(from) :
        log[d].kind \in {"work", "bump", "finalize", "archive"}

\* One more commit on parents, about version v.
Extend(parents, k, v, c) ==
    Append(log, [anc |-> (UNION {Anc(p) : p \in parents}) \cup {Len(log) + 1},
                 kind |-> k, ver |-> v, of |-> c])
Next1 == Len(log) + 1

-----------------------------------------------------------------------------
(* The in-progress state (runstate.InProgress). *)

NoState == [ver |-> 0, done |-> {}, failed |-> {}, pin |-> NoCommit,
            rc |-> NoCommit, created |-> {}, runall |-> NoCommit]

Complete(s, n) == [s EXCEPT !.done = @ \cup {n}, !.failed = @ \ {n}]

FailUnrecorded(s, n) == [s EXCEPT !.done = @ \ {n}]
Fail(s, n) == [s EXCEPT !.failed = @ \cup {n}, !.done = @ \ {n}]

MissingSteps(s) == Steps \ (s.done \cup s.failed)
IsComplete(s)  == MissingSteps(s) = {} /\ s.failed \cap FatalSteps = {}
InProgress     == st.ver # 0

\* The commits on the branch since the pin that the release did not make.
Foreign == {c \in Anc(branch) \ Anc(st.pin) : c \notin st.created}

-----------------------------------------------------------------------------
(* Control. *)

\* The command ends and gives the lock back.
Stopped ==
    /\ pc' = "idle" /\ mode' = "none" /\ step' = VersionBumped
    /\ tip' = NoCommit /\ head' = NoCommit /\ last' = NoCommit
    /\ pushed' = FALSE /\ attempted' = FALSE /\ cand' = NoCommit
    /\ entry' = NoState

Goto(l) == /\ pc' = l
           /\ UNCHANGED <<mode, step, tip, head, last, pushed, attempted, cand, entry>>

\* A fault occurs, once more.
Fault(f) == f \in Faults /\ faults < MaxFaults /\ faults' = faults + 1
NoFault == UNCHANGED faults

\* Whether a failure of kind k (a CI refusal, a timed-out push, or any other)
\* stopped the release before its candidate can have reached origin.  tried
\* says whether the candidate's push started.
UnreachedButForTimeouts(k, tried) == ~pushed /\ k # "ci"
Unreached(k, tried) == ~pushed /\ ~(tried /\ k = "timeout") /\ k # "ci"

\* execution.stop: such a failure discards the attempt; any other is recorded
\* against step n and the state is kept.
Stop(n, k, tried) ==
    IF Unreached(k, tried)
    THEN Goto("discard") /\ UNCHANGED st
    ELSE Stopped /\ st' = Fail(st, n)

Init ==
    /\ log = <<[anc |-> {1}, kind |-> "base", ver |-> 0, of |-> NoCommit]>>
    /\ branch = 1 /\ origin = 1
    /\ ltag = [v \in Version |-> [t \in Tags |-> NoCommit]]
    /\ otag = ltag
    /\ grel = [v \in Version |-> NoCommit]
    /\ pub = grel /\ dep = grel
    /\ ran = {1} /\ green = {1}
    /\ st = NoState /\ loose = 0 /\ faults = 0
    /\ pc = "idle" /\ mode = "none" /\ step = VersionBumped
    /\ tip = NoCommit /\ head = NoCommit /\ last = NoCommit
    /\ pushed = FALSE /\ attempted = FALSE /\ cand = NoCommit
    /\ entry = NoState

-----------------------------------------------------------------------------
(* rlsbl release run: entering the session, validating, recording the state. *)

\* session.Enter: the lock, no uncommitted change where the release writes,
\* and the release checkout at the branch's tip.
Enter(m) ==
    /\ pc = "idle" /\ loose = 0
    /\ pc' = "entered" /\ mode' = m /\ tip' = branch /\ head' = branch
    /\ UNCHANGED <<repoVars, tagVars, outVars, ciVars, st, loose, faults,
                   step, last, pushed, attempted, cand, entry>>

EnterFresh ==
    /\ ~InProgress \/ IsComplete(st)
    /\ VersionOf(branch) < MaxVersion /\ Len(log) <= MaxCommits
    /\ Enter("fresh")

\* A resume whose release commit is not on the branch makes it again; while
\* the branch is behind origin's it can only be discarded again, so past the
\* bound it waits for a pull.
EnterResume ==
    /\ InProgress
    /\ \/ Committed \in st.done \/ IsAncestor(origin, branch)
       \/ Len(log) <= MaxCommits
    /\ Enter("resume")

\* DecideVersion on the checkout: the version files' version was released and
\* still has its tag, or was abandoned, or is tagged; the next one is free.
Releasable(h) ==
    LET cur == VersionOf(h)
        tagged == cur = 0 \/ ltag[cur][Primary] # NoCommit
        recorded == cur = 0 \/ ArchivedAt(h, cur) # NoCommit
        never == cur # 0 /\ Has(h, "never", cur)
    IN  /\ (recorded \/ ~never) => tagged
        /\ cur + 1 \in Version
        /\ ~Has(h, "never", cur + 1)
        /\ ltag[cur + 1][Primary] = NoCommit

\* validate: the version decision, the branch not behind origin's, the tag
\* free on origin; a complete state left behind is cleared.
Validate ==
    /\ pc = "entered" /\ mode = "fresh"
    /\ IF /\ Releasable(head)
          /\ IsAncestor(origin, branch)
          /\ otag[VersionOf(head) + 1][Primary] = NoCommit
       THEN Goto("prepared") /\ st' = NoState
       ELSE Stopped /\ UNCHANGED st
    /\ NoFault /\ UNCHANGED <<repoVars, tagVars, outVars, ciVars, loose>>

\* The rest of release up to the walk: the changelog preflight (every commit
\* needing an entry has one), the pipeline, the preflight and the hooks,
\* which may refuse; then the state is recorded, pinned at the checkout.
Begin ==
    /\ pc = "prepared"
    /\ \/ /\ Uncovered(head) = {}
          /\ st' = [NoState EXCEPT !.ver = VersionOf(head) + 1, !.pin = head]
          /\ Goto("guard") /\ NoFault
       \/ /\ Uncovered(head) # {}
          /\ Stopped /\ NoFault /\ UNCHANGED st
       \/ /\ Fault("step-error")
          /\ Stopped /\ UNCHANGED st
    /\ UNCHANGED <<repoVars, tagVars, outVars, ciVars, loose>>

-----------------------------------------------------------------------------
(* rlsbl release resume: adopting or deferring what was committed since. *)

\* The commits a resume adopts: none once the changelog is finalized, when
\* those made since wait for the next release.
Adopted == IF ChangelogFinalized \in st.done THEN {} ELSE Foreign

\* Of the commits adopted, those the unreleased changelog must describe and
\* does not.
NoneUncovered(adopted) == {}
AdoptedUncovered(adopted) ==
    {w \in adopted : /\ log[w].kind = "work"
                     /\ ~\E e \in Unreleased(head) : IsAncestor(w, e)}

Adopt ==
    /\ pc = "entered" /\ mode = "resume"
    /\ LET reverify == Adopted # {} /\ CIVerified \in st.done
       IN  IF AdoptedUncovered(Adopted) # {}
           THEN Stopped /\ UNCHANGED st
           ELSE /\ st' = [st EXCEPT !.pin = tip,
                                    !.done = IF reverify THEN @ \ {CIVerified} ELSE @,
                                    !.rc = IF reverify THEN NoCommit ELSE @]
                /\ entry' = st
                /\ pc' = "guard"
                /\ UNCHANGED <<mode, step, tip, head, last, pushed, attempted, cand>>
    /\ NoFault /\ UNCHANGED <<repoVars, tagVars, outVars, ciVars, loose>>

-----------------------------------------------------------------------------
(* The walk: guards, commits and advances. *)

\* A commit in the release checkout, recorded among the release's own.
CommitAs(k, c) ==
    /\ log' = Extend({head}, k, st.ver, c)
    /\ head' = Next1
    /\ st' = [st EXCEPT !.created = @ \cup {Next1}]
    /\ pc' = "advance"
    /\ UNCHANGED <<mode, tip, last, pushed, attempted, cand, entry>>

\* The guard at entry.
EntryGuard ==
    /\ pc = "guard"
    /\ IF Foreign # {} THEN Stop(VersionBumped, "other", attempted)
                       ELSE Goto("bump") /\ UNCHANGED st
    /\ NoFault /\ UNCHANGED <<repoVars, tagVars, outVars, ciVars, loose>>

BumpUnwritten == VersionBumped \notin st.done
BumpOwed == Committed \notin st.done

\* bumpAndCommit: the version writes (with version-bumped recorded) and the
\* release commit; version files that name the version already leave nothing
\* to commit.
Bump ==
    /\ pc = "bump"
    /\ step' = Committed
    /\ IF ~BumpOwed
       THEN /\ pc' = "candidate"
            /\ UNCHANGED <<repoVars, st, mode, tip, head, last, pushed, attempted, cand, entry>>
       ELSE IF VersionOf(head) = st.ver
       THEN /\ pc' = "advance"
            /\ st' = Complete(st, VersionBumped)
            /\ UNCHANGED <<repoVars, mode, tip, head, last, pushed, attempted, cand, entry>>
       ELSE /\ log' = Extend({head}, "bump", st.ver, NoCommit)
            /\ head' = Next1 /\ pc' = "advance"
            /\ st' = [Complete(st, VersionBumped) EXCEPT !.created = @ \cup {Next1}]
            /\ UNCHANGED <<branch, origin, mode, tip, last, pushed, attempted, cand, entry>>
    /\ NoFault /\ UNCHANGED <<tagVars, outVars, ciVars, loose>>

\* Checkout.Advance: the branch moves to the checkout's commit by
\* compare-and-swap from where this release left it, and its files are
\* written into a working tree with no edits there.
Advance ==
    /\ pc = "advance"
    /\ \/ /\ head = tip
          /\ Goto("record") /\ NoFault /\ UNCHANGED <<branch, st>>
       \/ /\ head # tip /\ branch = tip
          /\ branch' = head /\ tip' = head /\ last' = tip /\ pc' = "record"
          /\ NoFault /\ UNCHANGED <<st, mode, step, head, pushed, attempted, cand, entry>>
       \/ /\ head # tip /\ branch # tip
          /\ Stop(step, "other", attempted) /\ NoFault /\ UNCHANGED branch
       \/ /\ head # tip /\ Fault("edited")
          /\ Stop(step, "other", attempted) /\ UNCHANGED branch
    /\ UNCHANGED <<log, origin, tagVars, outVars, ciVars, loose>>

\* complete(step), and on to what follows it.
Record ==
    /\ pc = "record"
    /\ st' = Complete(st, step)
    /\ IF step \in {Committed, CandidatePushed, CIVerified}
       THEN /\ pc' = CASE step = Committed -> "candidate"
                       [] step = CandidatePushed -> "verify"
                       [] step = CIVerified -> "gate"
            /\ UNCHANGED step
       ELSE IF step = PostReleaseHooksRun
       THEN pc' = "epilogue" /\ UNCHANGED step
       ELSE pc' = "walk" /\ step' = step + 1
    /\ NoFault
    /\ UNCHANGED <<repoVars, tagVars, outVars, ciVars, loose,
                   mode, tip, head, last, pushed, attempted, cand, entry>>

\* TakeBack's compare: the branch is where this release left it.
TakesBack == last # NoCommit /\ branch = tip

\* discard, first half: UnwindLastAdvance takes the branch back while it is
\* where this release left it and nothing it wrote was edited since;
\* otherwise the attempt stays, recorded as a failed candidate push.
Discard ==
    /\ pc = "discard"
    /\ \/ /\ last = NoCommit
          /\ Goto("clear") /\ NoFault /\ UNCHANGED <<branch, st>>
       \/ /\ TakesBack
          /\ branch' = last /\ tip' = last /\ last' = NoCommit /\ pc' = "clear"
          /\ NoFault /\ UNCHANGED <<st, mode, step, head, pushed, attempted, cand, entry>>
       \/ /\ last # NoCommit /\ branch # tip
          /\ Stopped /\ st' = Fail(st, CandidatePushed) /\ NoFault /\ UNCHANGED branch
       \/ /\ last # NoCommit /\ Fault("edited")
          /\ Stopped /\ st' = Fail(st, CandidatePushed) /\ UNCHANGED branch
    /\ UNCHANGED <<log, origin, tagVars, outVars, ciVars, loose>>

\* discard, second half: the state goes, or is put back as a resume found it.
StateBefore == IF mode = "resume" THEN entry ELSE NoState

Clear ==
    /\ pc = "clear"
    /\ st' = StateBefore
    /\ Stopped
    /\ NoFault /\ UNCHANGED <<repoVars, tagVars, outVars, ciVars, loose>>

-----------------------------------------------------------------------------
(* The candidate: its push, CI's verdict, and the gate. *)

\* The commit a resume past the verdict tags.
BranchTip == branch
RecordedCandidate == st.rc

\* pushCandidate, first half: a release past the CI verdict tags the
\* candidate its state records, which must be on the branch; any other makes
\* the checkout's tip its candidate and records it.
Candidate ==
    /\ pc = "candidate"
    /\ step' = CandidatePushed
    /\ IF CIVerified \in st.done
       THEN IF RecordedCandidate # NoCommit /\ IsAncestor(RecordedCandidate, branch)
            THEN /\ cand' = RecordedCandidate /\ pushed' = TRUE /\ pc' = "gate"
                 /\ UNCHANGED <<st, mode, tip, head, last, attempted, entry>>
            ELSE /\ pc' = "discard"
                 /\ UNCHANGED <<st, mode, tip, head, last, pushed, attempted, cand, entry>>
       ELSE /\ cand' = tip /\ st' = [st EXCEPT !.rc = tip] /\ pc' = "judge"
            /\ UNCHANGED <<mode, tip, head, last, pushed, attempted, entry>>
    /\ NoFault /\ UNCHANGED <<repoVars, tagVars, outVars, ciVars, loose>>

\* The commit the window of the candidate's push starts at: origin's, or,
\* where origin holds the candidate already, the parent of the release's
\* first commit.
ReleaseStart ==
    IF st.created = {} THEN origin
    ELSE LET first == CHOOSE c \in st.created : \A d \in st.created : c <= d
             before == Anc(first) \ {first}
         IN  CHOOSE p \in before : \A d \in before : d <= p
WindowBase == IF origin # cand THEN origin ELSE ReleaseStart

\* The guard at the candidate push, then judgeCandidateWindow: a window that
\* triggers no member's CI is refused, unless the candidate was published
\* once and the router can be dispatched.
Judge ==
    /\ pc = "judge"
    /\ LET triggers == ~Workspace \/ Triggers(WindowBase, cand)
       IN  IF Foreign # {}
           THEN Stop(CandidatePushed, "other", attempted)
           ELSE IF triggers /\ origin # cand
           THEN Goto("push") /\ UNCHANGED st
           ELSE IF triggers
           THEN /\ pushed' = TRUE /\ pc' = "record"
                /\ UNCHANGED <<st, mode, step, tip, head, last, attempted, cand, entry>>
           ELSE IF origin # cand /\ CandidatePushed \in st.done
           THEN Goto("push") /\ st' = [st EXCEPT !.runall = cand]
           ELSE Stop(CandidatePushed, "ci", attempted)
    /\ NoFault /\ UNCHANGED <<repoVars, tagVars, outVars, ciVars, loose>>

\* Origin takes c as its branch, only as a fast-forward; a push whose window
\* matches the members' filters starts their CI on it.
OriginTakes(c) ==
    /\ IsAncestor(origin, c)
    /\ origin' = c
    /\ ran' = IF ~Workspace \/ Triggers(origin, c) THEN ran \cup {c} ELSE ran
    /\ UNCHANGED <<log, branch, green>>

OriginUnmoved == UNCHANGED <<repoVars, ciVars>>

\* The candidate's push: done; refused as no fast-forward; failed; timed out,
\* having reached origin or not; or done with its report lost.
Push ==
    /\ pc = "push"
    /\ \/ /\ OriginTakes(cand)
          /\ attempted' = TRUE /\ pushed' = TRUE /\ pc' = "record"
          /\ NoFault /\ UNCHANGED <<st, mode, step, tip, head, last, cand, entry>>
       \/ /\ ~IsAncestor(origin, cand) /\ OriginUnmoved
          /\ Stop(CandidatePushed, "other", TRUE) /\ NoFault
       \/ /\ Fault("push-fail") /\ OriginUnmoved
          /\ Stop(CandidatePushed, "other", TRUE)
       \/ /\ Fault("push-timeout") /\ (OriginTakes(cand) \/ OriginUnmoved)
          /\ Stop(CandidatePushed, "timeout", TRUE)
       \/ /\ Fault("lost-report") /\ OriginTakes(cand)
          /\ Stop(CandidatePushed, "other", TRUE)
    /\ UNCHANGED <<tagVars, outVars, loose>>

\* verifyCI, first half: the dispatch a candidate owes.  GitHub runs the
\* router at whatever origin's branch holds then; a run of another commit is
\* an error.
Dispatch ==
    /\ pc = "verify" /\ st.runall = cand
    /\ ran' = ran \cup {origin}
    /\ IF origin = cand
       THEN Goto("verify") /\ st' = [st EXCEPT !.runall = NoCommit]
       ELSE Stop(CIVerified, "other", attempted)
    /\ NoFault /\ UNCHANGED <<repoVars, tagVars, outVars, green, loose>>

\* verifyCI, second half: CI's verdict on the candidate.  Jobs that never ran
\* on it, a failure and an undecided run are CI refusals.
Verify ==
    /\ pc = "verify" /\ st.runall # cand
    /\ \/ /\ cand \in ran \/ ~PushCI
          /\ green' = IF PushCI THEN green \cup {cand} ELSE green
          /\ st' = [st EXCEPT !.rc = cand]
          /\ step' = CIVerified /\ pc' = "record"
          /\ NoFault /\ UNCHANGED <<mode, tip, head, last, pushed, attempted, cand, entry>>
       \/ /\ PushCI /\ cand \notin ran
          /\ Stop(CIVerified, "ci", attempted) /\ NoFault /\ UNCHANGED green
       \/ /\ PushCI /\ cand \in ran /\ Fault("ci-refusal")
          /\ Stop(CIVerified, "ci", attempted) /\ UNCHANGED green
    /\ UNCHANGED <<repoVars, tagVars, outVars, ran, loose>>

\* The guard at the CI gate; a refusal fails the changelog-finalized step.
Gate ==
    /\ pc = "gate"
    /\ IF Foreign # {}
       THEN Stop(ChangelogFinalized, "other", attempted)
       ELSE /\ pc' = "walk" /\ step' = ChangelogFinalized
            /\ UNCHANGED <<st, mode, tip, head, last, pushed, attempted, cand, entry>>
    /\ NoFault /\ UNCHANGED <<repoVars, tagVars, outVars, ciVars, loose>>

-----------------------------------------------------------------------------
(* The steps after the gate. *)

At(n) == pc = "walk" /\ step = n /\ n \notin st.done

Skip ==
    /\ pc = "walk" /\ step \in st.done
    /\ IF step = PostReleaseHooksRun THEN Goto("epilogue")
       ELSE /\ step' = step + 1
            /\ UNCHANGED <<pc, mode, tip, head, last, pushed, attempted, cand, entry>>
    /\ NoFault /\ UNCHANGED <<repoVars, tagVars, outVars, ciVars, st, loose>>

\* A released file beside an empty unreleased one is finalized already; one
\* beside new entries is never overwritten.
FinalizeChangelog ==
    /\ At(ChangelogFinalized)
    /\ LET released == Has(head, "finalize", st.ver)
       IN  \/ /\ released /\ Unreleased(head) = {}
              /\ Goto("record") /\ UNCHANGED <<log, st>>
           \/ /\ released /\ Unreleased(head) # {}
              /\ Stop(step, "other", attempted) /\ UNCHANGED log
           \/ /\ ~released
              /\ CommitAs("finalize", NoCommit) /\ UNCHANGED step
    /\ NoFault /\ UNCHANGED <<branch, origin, tagVars, outVars, ciVars, loose>>

\* An archive of the version recording anything but the candidate is refused
\* and left as it is, one recording it as never released above all.
RefusesOtherCommits == ArchivedAt(head, st.ver) \notin {NoCommit, cand}
RefusesAnyArchive == Has(head, "never", st.ver) \/ ArchivedAt(head, st.ver) # NoCommit
ArchiveRefuses ==
    Has(head, "never", st.ver) \/ ArchivedAt(head, st.ver) \notin {NoCommit, cand}

\* The commit the archive records: the candidate.
CheckoutHead == head
ReleaseCommit == cand

Archive ==
    /\ At(ReleaseArchived)
    /\ \/ /\ ArchiveRefuses
          /\ Stop(step, "other", attempted) /\ UNCHANGED log
       \/ /\ ~ArchiveRefuses /\ ArchivedAt(head, st.ver) = cand
          /\ Goto("record") /\ UNCHANGED <<log, st>>
       \/ /\ ~ArchiveRefuses /\ ArchivedAt(head, st.ver) = NoCommit
          /\ CommitAs("archive", ReleaseCommit) /\ UNCHANGED step
    /\ NoFault /\ UNCHANGED <<branch, origin, tagVars, outVars, ciVars, loose>>

\* One tag of the version: created at the candidate where there is none; one
\* at another commit is never moved.
Tag(t) ==
    /\ At(Tagged)
    /\ \/ /\ ltag[st.ver][t] = NoCommit
          /\ ltag' = [ltag EXCEPT ![st.ver][t] = cand]
          /\ UNCHANGED procVars /\ UNCHANGED st
       \/ /\ ltag[st.ver][t] \notin {NoCommit, cand}
          /\ Stop(step, "other", attempted) /\ UNCHANGED ltag
    /\ NoFault /\ UNCHANGED <<repoVars, otag, outVars, ciVars, loose>>

AllTagged ==
    /\ At(Tagged)
    /\ \A t \in Tags : ltag[st.ver][t] = cand
    /\ Goto("record")
    /\ NoFault /\ UNCHANGED <<repoVars, tagVars, outVars, ciVars, st, loose>>

\* push: the guard, then the branch with the finalization commits.
PushBranch ==
    /\ At(Pushed)
    /\ \/ /\ Foreign # {} /\ Stop(step, "other", attempted)
          /\ NoFault /\ OriginUnmoved
       \/ /\ Foreign = {} /\ OriginTakes(branch)
          /\ pc' = "pushtags" /\ attempted' = TRUE
          /\ NoFault /\ UNCHANGED <<st, mode, step, tip, head, last, pushed, cand, entry>>
       \/ /\ Foreign = {} /\ ~IsAncestor(origin, branch)
          /\ Stop(step, "other", TRUE) /\ NoFault /\ OriginUnmoved
       \/ /\ Foreign = {} /\ Fault("push-timeout") /\ (OriginTakes(branch) \/ OriginUnmoved)
          /\ Stop(step, "timeout", TRUE)
    /\ UNCHANGED <<tagVars, outVars, loose>>

\* push: one tag, leased on origin holding none; one at another commit is
\* refused.
Leased(t) == otag[st.ver][t] = NoCommit

PushTag(t) ==
    /\ pc = "pushtags"
    /\ \/ /\ Leased(t)
          /\ otag' = [otag EXCEPT ![st.ver][t] = cand]
          /\ UNCHANGED procVars /\ UNCHANGED st
       \/ /\ otag[st.ver][t] \notin {NoCommit, cand}
          /\ Stop(step, "other", attempted) /\ UNCHANGED otag
    /\ NoFault /\ UNCHANGED <<repoVars, ltag, outVars, ciVars, loose>>

AllTagsPushed ==
    /\ pc = "pushtags"
    /\ \A t \in Tags : otag[st.ver][t] = cand
    /\ Goto("record")
    /\ NoFault /\ UNCHANGED <<repoVars, tagVars, outVars, ciVars, st, loose>>

\* The GitHub Release, composed from the record: created, or given the
\* marker, which names the commit the archive records.
GitHubRelease ==
    /\ At(GitHubReleaseCreated)
    /\ IF ArchivedAt(head, st.ver) = NoCommit
       THEN Stop(step, "other", attempted) /\ UNCHANGED grel
       ELSE /\ grel' = [grel EXCEPT ![st.ver] = ArchivedAt(head, st.ver)]
            /\ Goto("record") /\ UNCHANGED st
    /\ NoFault /\ UNCHANGED <<repoVars, tagVars, pub, dep, ciVars, loose>>

\* The local pipelines publish the release checkout's tree; a version its
\* registry lists already is skipped.
PublishPipelines ==
    /\ At(PipelinesPublished)
    /\ pub' = IF pub[st.ver] = NoCommit THEN [pub EXCEPT ![st.ver] = head] ELSE pub
    /\ Goto("record")
    /\ NoFault /\ UNCHANGED <<repoVars, tagVars, grel, dep, ciVars, st, loose>>

\* The deploy command runs in the release checkout, each time it is reached.
Deploy ==
    /\ At(Deployed)
    /\ dep' = [dep EXCEPT ![st.ver] = head]
    /\ Goto("record")
    /\ NoFault /\ UNCHANGED <<repoVars, tagVars, grel, pub, ciVars, st, loose>>

\* The one step whose failure does not stop the release.
PostReleaseHooks ==
    /\ At(PostReleaseHooksRun)
    /\ \/ Goto("record") /\ NoFault /\ UNCHANGED st
       \/ /\ Fault("hook")
          /\ Goto("epilogue") /\ st' = Fail(st, PostReleaseHooksRun)
    /\ UNCHANGED <<repoVars, tagVars, outVars, ciVars, loose>>

\* A failed step, or a step never recorded, keeps the state; a complete
\* release removes it.
Epilogue ==
    /\ pc = "epilogue"
    /\ st' = IF st.failed = {} /\ MissingSteps(st) = {} THEN NoState ELSE st
    /\ Stopped
    /\ NoFault /\ UNCHANGED <<repoVars, tagVars, outVars, ciVars, loose>>

\* A call a step makes fails before it has any effect.
StepError ==
    /\ Fault("step-error")
    /\ pc \in {"bump", "judge", "verify", "pushtags"} \/ (pc = "walk" /\ step \notin st.done)
    /\ step # PostReleaseHooksRun
    /\ Stop(step, "other", attempted)
    /\ UNCHANGED <<repoVars, tagVars, outVars, ciVars, loose>>

\* The process dies; the in-progress state is what it last saved.
Crash ==
    /\ pc # "idle"
    /\ Fault(IF pc = "clear" THEN "crash-in-discard" ELSE "crash")
    /\ Stopped
    /\ UNCHANGED <<repoVars, tagVars, outVars, ciVars, st, loose>>

-----------------------------------------------------------------------------
(* rlsbl release abandon. *)

Latest(c) == CHOOSE v \in 0..MaxVersion :
                 /\ v = 0 \/ ArchivedAt(c, v) # NoCommit
                 /\ \A w \in v+1..MaxVersion : ArchivedAt(c, w) = NoCommit

\* The version the attempt claimed, and the record of it in the working tree.
Claimed == IF InProgress THEN st.ver ELSE VersionOf(branch)
NeverHere(v) == Has(branch, "never", v) \/ loose = v

\* Abandon, to the point where its first write is done: the archive of a
\* version with no fate, no tag and no GitHub Release; or, finishing an
\* earlier abandon, nothing.
Abandon ==
    /\ pc = "idle" /\ Claimed \in Version
    /\ IF InProgress /\ NeverHere(Claimed)
       THEN /\ UNCHANGED loose
            /\ pc' = IF loose = Claimed THEN "archived" ELSE "drop"
       ELSE /\ ~NeverHere(Claimed) /\ ArchivedAt(branch, Claimed) = NoCommit
            /\ Claimed >= Latest(branch)
            /\ ltag[Claimed][Primary] = NoCommit /\ otag[Claimed][Primary] = NoCommit
            /\ grel[Claimed] = NoCommit
            /\ loose' = Claimed /\ pc' = "archived"
    /\ mode' = "abandon"
    /\ NoFault
    /\ UNCHANGED <<repoVars, tagVars, outVars, ciVars, st,
                   step, tip, head, last, pushed, attempted, cand, entry>>

CommitAbandoned ==
    /\ pc = "archived"
    /\ log' = Extend({branch}, "never", loose, NoCommit)
    /\ branch' = Next1 /\ loose' = 0
    /\ Goto("drop")
    /\ NoFault /\ UNCHANGED <<origin, tagVars, outVars, ciVars, st>>

DropState ==
    /\ pc = "drop"
    /\ st' = NoState /\ Stopped
    /\ NoFault /\ UNCHANGED <<repoVars, tagVars, outVars, ciVars, loose>>

-----------------------------------------------------------------------------
(* Everybody else: the people and agents working in the repository and on    *)
(* origin, who hold no lock.                                                 *)

ForeignMade == Cardinality({c \in Commits : log[c].kind \in {"work", "aside"}})
EnvOnly == UNCHANGED <<tagVars, outVars, ciVars, st, loose, faults, procVars>>

CommitOnBranch(k) ==
    /\ k \in ForeignKinds /\ ForeignMade < MaxForeign
    /\ log' = Extend({branch}, k, 0, NoCommit)
    /\ branch' = Next1
    /\ EnvOnly /\ UNCHANGED origin

\* changelog add, for every commit that needs an entry.
ChangelogAdd ==
    /\ Uncovered(branch) # {}
    /\ log' = Extend({branch}, "entry", 0, NoCommit)
    /\ branch' = Next1
    /\ EnvOnly /\ UNCHANGED origin

\* A pull request merged on origin, whose CI runs there.
CommitOnOrigin(k) ==
    /\ "origin" \in Faults
    /\ k \in ForeignKinds /\ ForeignMade < MaxForeign
    /\ log' = Extend({origin}, k, 0, NoCommit)
    /\ origin' = Next1
    /\ ran' = IF Workspace /\ k = "aside" THEN ran ELSE ran \cup {Next1}
    /\ UNCHANGED <<branch, green, tagVars, outVars, st, loose, faults, procVars>>

\* git pull: a fast-forward, or a merge.
Pull ==
    /\ ~IsAncestor(origin, branch)
    /\ IF IsAncestor(branch, origin)
       THEN branch' = origin /\ UNCHANGED log
       ELSE /\ log' = Extend({branch, origin}, "merge", 0, NoCommit)
            /\ branch' = Next1
    /\ EnvOnly /\ UNCHANGED origin

\* Somebody creates one of a version's tags on origin, at the base commit.
StrayTag(v, t) ==
    /\ Fault("stray-tag") /\ otag[v][t] = NoCommit
    /\ otag' = [otag EXCEPT ![v][t] = 1]
    /\ UNCHANGED <<repoVars, ltag, outVars, ciVars, st, loose, procVars>>

-----------------------------------------------------------------------------
Operator == EnterFresh \/ EnterResume \/ Abandon

Walk ==
    \/ Validate \/ Begin \/ Adopt
    \/ EntryGuard \/ Bump \/ Advance \/ Record \/ Discard \/ Clear
    \/ Candidate \/ Judge \/ Push \/ Dispatch \/ Verify \/ Gate
    \/ Skip \/ FinalizeChangelog \/ Archive
    \/ \E t \in Tags : Tag(t)
    \/ AllTagged \/ PushBranch
    \/ \E t \in Tags : PushTag(t)
    \/ AllTagsPushed \/ GitHubRelease \/ PublishPipelines \/ Deploy
    \/ PostReleaseHooks \/ Epilogue \/ CommitAbandoned \/ DropState

Env ==
    \/ \E k \in ForeignKinds : CommitOnBranch(k) \/ CommitOnOrigin(k)
    \/ ChangelogAdd \/ Pull
    \/ \E v \in Version, t \in Tags : StrayTag(v, t)

Next == Operator \/ Walk \/ Env \/ StepError \/ Crash

Spec == Init /\ [][Next]_vars

\* A release's own steps keep running, and an operator resumes a release in
\* progress, finishes an abandon that stopped part-way (however often a
\* resume holds the lock in between), describes the commits that need it and
\* pulls.
Fairness ==
    /\ WF_vars(Walk) /\ WF_vars(EnterResume)
    /\ SF_vars(InProgress /\ NeverHere(Claimed) /\ Abandon)
    /\ WF_vars(ChangelogAdd) /\ WF_vars(Pull)
FairSpec == Spec /\ Fairness

-----------------------------------------------------------------------------
(* Type correctness. *)

CommitRecord == [anc : SUBSET Nat, kind : Kinds, ver : 0..MaxVersion, of : Nat]
State == [ver : 0..MaxVersion, done : SUBSET Steps, failed : SUBSET Steps,
          pin : Nat, rc : Nat, created : SUBSET Nat, runall : Nat]
Places == {"idle", "entered", "prepared", "guard", "bump", "advance", "record",
           "discard", "clear", "candidate", "judge", "push", "verify", "gate",
           "walk", "pushtags", "epilogue", "archived", "drop"}

Repository ==
    /\ log \in Seq(CommitRecord)
    /\ branch \in Nat /\ origin \in Nat
Outside ==
    /\ ltag \in [Version -> [Tags -> Nat]] /\ otag \in [Version -> [Tags -> Nat]]
    /\ grel \in [Version -> Nat] /\ pub \in [Version -> Nat] /\ dep \in [Version -> Nat]
    /\ ran \subseteq Nat /\ green \subseteq Nat
    /\ loose \in 0..MaxVersion /\ faults \in Nat
Memory ==
    /\ st \in State /\ entry \in State
    /\ pc \in Places /\ mode \in {"none", "fresh", "resume", "abandon"}
    /\ step \in Steps
    /\ tip \in Nat /\ head \in Nat /\ last \in Nat /\ cand \in Nat
Flags == pushed \in BOOLEAN /\ attempted \in BOOLEAN

\* Every variable keeps its type: the durable state is one its reader would
\* accept, and every ref names a commit or none.
TypeOK == Repository /\ Outside /\ Memory /\ Flags

-----------------------------------------------------------------------------
(* Safety. *)

\* Every tag of a version, here and on origin, is on a commit a release saw
\* CI pass on: the tag step, the resume past the verdict and the adoption of
\* new commits never put one anywhere else.
TagVerified ==
    PushCI => \A v \in Version, t \in Tags :
                  {ltag[v][t], otag[v][t]} \subseteq green \cup {NoCommit}

\* A CI wait can end in a pass: when it starts, the members' jobs ran on the
\* candidate, by its push or by the dispatch it owed.  Excepted is a commit
\* outside the members' paths that somebody else's push put on origin and a
\* resume adopted: the window judged there is not the one that push had.
NoHopelessWait ==
    pc = "verify" /\ PushCI /\ st.runall # cand =>
        cand \in ran \/ (log[cand].kind = "aside" /\ ~attempted)

\* What a tag on origin ships, the changelog describes: no commit somebody
\* else made slips under a version past the three guards and the adoption
\* rule without an entry.  Excepted is a tag whose commit holds the version's
\* own finalized changelog: its candidate was made anew after the changelog
\* was settled, with what was left for the next release in it.
NothingUndescribed ==
    \A v \in Version, t \in Tags :
        otag[v][t] # NoCommit =>
            Has(otag[v][t], "finalize", v) \/ Uncovered(otag[v][t]) = {}

StoryOf(v) ==
    ({ltag[v][t] : t \in Tags} \cup {otag[v][t] : t \in Tags}
     \cup {grel[v], ArchivedAt(branch, v)}) \ {NoCommit}

\* The archive, every tag here and on origin, and the Release's marker name
\* one commit per version.
OneStory == \A v \in Version : Cardinality(StoryOf(v)) <= 1

\* They name one commit for every version none of whose tags is on a commit
\* made anew: one that holds another commit on top of the version's finalized
\* changelog.  What is archived is otherwise what is tagged, shipped and marked.
Reopened(c, v) ==
    c # NoCommit /\ \E w \in Anc(c) : /\ log[w].kind \notin {"finalize", "archive"}
                                      /\ Has(w, "finalize", v)
OneStoryUnlessReopened ==
    \A v \in Version :
        \/ Cardinality(StoryOf(v)) <= 1
        \/ \E t \in Tags : Reopened(ltag[v][t], v) \/ Reopened(otag[v][t], v)

\* A version the record holds as never released, written or committed, has
\* no tag, no Release and no archive of a release, whatever resumes after an
\* abandon that died half-way.
NeverReleasedStays ==
    \A v \in Version : NeverHere(v) =>
        /\ \A t \in Tags : ltag[v][t] = NoCommit /\ otag[v][t] = NoCommit
        /\ grel[v] = NoCommit /\ ArchivedAt(branch, v) = NoCommit

\* With no release in progress, every version bump origin holds is one the
\* record accounts for, as released or never released: an attempt that was
\* discarded left nothing on origin.
DiscardLeavesNothing ==
    pc = "idle" /\ ~InProgress =>
        \A v \in Version : Has(origin, "bump", v) =>
            ArchivedAt(branch, v) # NoCommit \/ Has(branch, "never", v)

\* The commit a version is tagged at contains that version's bump.
TagHasBump ==
    \A v \in Version, t \in Tags :
        ltag[v][t] # NoCommit => Has(ltag[v][t], "bump", v)

\* A step the durable state records as completed has had its effect, through
\* crashes, failed re-runs, discards and adoptions: a resume that skips it
\* skips nothing that is owed.
RecordedIsDone ==
    InProgress /\ pc = "idle" =>
        /\ Committed \in st.done => Has(branch, "bump", st.ver)
        /\ CandidatePushed \in st.done => Has(origin, "bump", st.ver)
        /\ CIVerified \in st.done /\ PushCI => st.rc \in green
        /\ ChangelogFinalized \in st.done => Has(branch, "finalize", st.ver)
        /\ ReleaseArchived \in st.done => ArchivedAt(branch, st.ver) # NoCommit
        /\ Tagged \in st.done => \A t \in Tags : ltag[st.ver][t] # NoCommit
        /\ Pushed \in st.done => \A t \in Tags : otag[st.ver][t] # NoCommit
        /\ GitHubReleaseCreated \in st.done => grel[st.ver] # NoCommit
        /\ PipelinesPublished \in st.done => pub[st.ver] # NoCommit
        /\ Deployed \in st.done => dep[st.ver] # NoCommit

\* A walk that reaches its end with no failed step has recorded every step:
\* the epilogue's internal error is unreachable.
NoStepForgotten ==
    pc = "epilogue" /\ st.failed = {} => MissingSteps(st) = {}

\* The record of a release's steps is true: what it says is done was done, and
\* a walk that ends has left nothing out.
StepsAreTrue == RecordedIsDone /\ NoStepForgotten

-----------------------------------------------------------------------------
(* What a step never does. *)

\* No release takes a commit of somebody else's off the branch, whether it
\* advances the branch or takes an advance back.
ForeignNeverLost ==
    [][\A c \in Anc(branch) :
           log[c].kind \in {"work", "aside", "entry", "merge", "never"}
               => c \in Anc(branch)']_vars

\* Origin's branch only fast-forwards, however the release and other pushes
\* interleave.
OriginFastForwards == [][(origin \in Anc(origin)')]_vars

\* A tag, once created here or on origin, is never moved or deleted.
TagsNeverMove ==
    [][\A v \in Version, t \in Tags :
           /\ ltag[v][t] # NoCommit => ltag'[v][t] = ltag[v][t]
           /\ otag[v][t] # NoCommit => otag'[v][t] = otag[v][t]]_vars

\* Somebody else's tag of a version is on origin.
TagTaken ==
    \E v \in Version, t \in Tags :
        otag[v][t] # NoCommit /\ ~Has(otag[v][t], "bump", v)

\* A release in progress, resumed as often as it stops, ends, unless somebody
\* took one of its tags.
Settles == InProgress ~> ~InProgress \/ TagTaken
=============================================================================
