--------------------------- MODULE ReleaseProofs ---------------------------
(* Proofs about Release, for every value of its constants. *)
EXTENDS ReleaseInvariants, TLAPS, WellFoundedInduction, FiniteSetTheorems

-----------------------------------------------------------------------------
(* The log only grows, and a commit's history with it never changes. *)

\* A commit names the same version however the log grows.
LEMMA VersionStays ==
    ASSUME LogOK, LogGrows, Len(log) \in Nat, Len(log') \in Nat,
           head \in Commits, head' = head
    PROVE  VersionOf(head)' = VersionOf(head)
<1>1. Anc(head)' = Anc(head) /\ \A d \in Anc(head) : log'[d] = log[d]
  BY DEF LogOK, LogGrows, Commits, Anc
<1>2. \A v : Has(head, "bump", v)' = Has(head, "bump", v)  BY <1>1 DEF Has, Of
<1> QED  BY <1>2 DEF VersionOf

\* A step that commits appends one well-formed commit, which contains its
\* parents' histories.
LEMMA Extending ==
    ASSUME TypeOK, LogOK,
           NEW P \in SUBSET Commits, NEW k \in Kinds,
           NEW v \in 0..MaxVersion, NEW c \in Nat,
           log' = Extend(P, k, v, c)
    PROVE  /\ log' \in Seq(CommitRecord) /\ LogOK' /\ LogGrows
           /\ Commits \subseteq Commits' /\ Next1 \in Commits' /\ Commits' \subseteq Nat
           /\ \A p \in P : Anc(p) \subseteq log'[Next1].anc
<1> DEFINE anc == (UNION {Anc(p) : p \in P}) \cup {Next1}
<1>1. log \in Seq(CommitRecord) /\ Len(log) \in Nat /\ Next1 \in Nat \ {0}
  BY DEF Next1, TypeOK, Repository
<1>2. \A p \in P : Anc(p) \subseteq 1..Len(log)  BY <1>1 DEF LogOK, Commits
<1>3. anc \subseteq 1..Next1  BY <1>1, <1>2 DEF Next1
<1>4. Next1 \in anc /\ \A p \in P : Anc(p) \subseteq anc  OBVIOUS
<1>5. log' = Append(log, [anc |-> anc, kind |-> k, ver |-> v, of |-> c])
  BY DEF Extend, Next1
<1> HIDE DEF anc
<1> DEFINE rec == [anc |-> anc, kind |-> k, ver |-> v, of |-> c]
<1>6. anc \in SUBSET Nat  BY <1>1, <1>3
<1>7. rec \in CommitRecord /\ rec.anc = anc  BY <1>6 DEF CommitRecord
<1> HIDE DEF rec
<1>8. /\ log' \in Seq(CommitRecord)
      /\ Len(log') = Next1
      /\ log'[Next1] = rec
      /\ \A d \in Commits : log'[d] = log[d]
  BY <1>1, <1>5, <1>7 DEF Next1, Commits, rec
<1>9. Commits' = Commits \cup {Next1} /\ Next1 = Len(log) + 1
  BY <1>1, <1>8 DEF Commits, Next1
<1>10. LogOK'  BY <1>1, <1>3, <1>4, <1>7, <1>8, <1>9 DEF LogOK, Anc, Commits
<1>11. LogGrows  BY <1>1, <1>8 DEF LogGrows, Next1
<1> QED  BY <1>1, <1>4, <1>7, <1>8, <1>9, <1>10, <1>11 DEF Commits

\* What a step that commits nothing does.
LEMMA Keeping ==
    ASSUME TypeOK, LogOK, UNCHANGED log
    PROVE  /\ log' \in Seq(CommitRecord) /\ LogOK' /\ LogGrows
           /\ Commits' = Commits /\ Commits \subseteq Nat
<1>1. log \in Seq(CommitRecord) /\ Len(log) \in Nat  BY DEF TypeOK, Repository
<1> QED  BY <1>1 DEF LogOK, Anc, Commits, LogGrows

-----------------------------------------------------------------------------
(* The in-progress state and the command's memory. *)

\* Recording a step keeps the state's type and touches nothing but the step.
LEMMA Recording ==
    ASSUME NEW s \in State, NEW n \in Steps
    PROVE  /\ Complete(s, n) \in State /\ Fail(s, n) \in State
           /\ Complete(s, n).done = s.done \cup {n} /\ Complete(s, n).rc = s.rc
           /\ Fail(s, n).done \subseteq s.done /\ Fail(s, n).rc = s.rc
BY DEF State, Complete, Fail

\* A cleared in-progress state has the state's type.
LEMMA NoStateIsState == NoState \in State
BY ReleaseAssumption DEF NoState, State, NoCommit, Steps

\* A command that ends leaves a well-typed memory and no place in the walk.
LEMMA StoppedKeeps ==
    ASSUME Stopped, st' \in State
    PROVE  Memory' /\ pc' = "idle" /\ last' = NoCommit /\ entry' = NoState
<1>1. entry' \in State  BY NoStateIsState DEF Stopped
<1>2. /\ pc' \in Places /\ mode' \in {"none", "fresh", "resume", "abandon"}
      /\ step' \in Steps
      /\ tip' \in Nat /\ head' \in Nat /\ last' \in Nat /\ cand' \in Nat
  BY DEF Stopped, Places, Steps, NoCommit, VersionBumped
<1> QED  BY <1>1, <1>2 DEF Stopped, Memory

\* A failure that stops the release leaves its command in the discard or ends it.
LEMMA StopKeeps ==
    ASSUME Memory,
           NEW n \in Steps, NEW k, NEW tried, Stop(n, k, tried)
    PROVE  /\ Memory'
           /\ \/ pc' = "discard" /\ UNCHANGED <<st, mode, step, head, tip, last, cand, entry>>
              \/ /\ pc' = "idle" /\ last' = NoCommit /\ st' = Fail(st, n)
                 /\ mode' = "none" /\ entry' = NoState
<1>1. CASE Unreached(k, tried)  BY <1>1 DEF Stop, Goto, Memory, Places
<1>2. CASE ~Unreached(k, tried)
  <2>1. Stopped /\ st' = Fail(st, n)  BY <1>2 DEF Stop
  <2>2. st' \in State  BY <2>1, Recording DEF Memory
  <2> QED  BY <2>1, <2>2, StoppedKeeps DEF Stopped
<1> QED  BY <1>1, <1>2

-----------------------------------------------------------------------------
(* Type correctness and structure. *)

\* Every step keeps the type of the durable state and of the command's memory.
LEMMA MemoryKept ==
    ASSUME Structure, Next
    PROVE  Memory'
<1> USE DEF Places, Steps
<1>t. /\ Memory /\ st \in State /\ entry \in State /\ step \in Steps
      /\ branch \in Nat /\ tip \in Nat /\ cand \in Nat /\ head \in Nat /\ Next1 \in Nat
  BY DEF Structure, TypeOK, Memory, Repository, Next1
<1>1. CASE EnterFresh  BY <1>t, <1>1 DEF EnterFresh, Enter, Repository, Memory
<1>2. CASE EnterResume  BY <1>t, <1>2 DEF EnterResume, Enter, Repository, Memory
<1>3. CASE Abandon  BY <1>t, <1>3 DEF Abandon, Memory
<1>4. CASE Validate  BY <1>t, <1>4, StoppedKeeps, NoStateIsState DEF Validate, Goto, Memory
<1>5. CASE Begin
  <2>1. CASE Stopped /\ UNCHANGED st  BY <1>t, <2>1, StoppedKeeps
  <2>2. CASE /\ pc = "prepared" /\ Goto("guard")
             /\ st' = [NoState EXCEPT !.ver = VersionOf(head) + 1, !.pin = head]
    <3>1. VersionOf(head) + 1 \in Version /\ head \in Nat
      BY <1>t, <2>2 DEF Structure, RefsOK, Memory
    <3>2. PICK v \in Version : v = VersionOf(head) + 1  BY <3>1
    <3>3. st' = [NoState EXCEPT !.ver = v, !.pin = head] /\ v \in 0..MaxVersion
      BY <2>2, <3>2, ReleaseAssumption DEF Version
    <3>4. st' \in State  BY <3>1, <3>3, NoStateIsState DEF State
    <3> QED  BY <1>t, <2>2, <3>4 DEF Memory, Goto
  <2> QED  BY <1>5, <2>1, <2>2 DEF Begin
<1>6. CASE Adopt
  <2>1. CASE Stopped /\ UNCHANGED st  BY <1>t, <2>1, StoppedKeeps
  <2>2. CASE ~(Stopped /\ UNCHANGED st)
    <3>1. PICK reverify \in BOOLEAN :
             st' = [st EXCEPT !.pin = tip,
                              !.done = IF reverify THEN @ \ {CIVerified} ELSE @,
                              !.rc = IF reverify THEN NoCommit ELSE @]
      BY <1>6, <2>2, Zenon DEF Adopt
    <3>2. st' \in State  BY <1>t, <3>1 DEF State, Memory, NoCommit
    <3> QED  BY <1>t, <1>6, <2>2, <3>2 DEF Adopt, Memory
  <2> QED  BY <2>1, <2>2
<1>7. CASE EntryGuard  BY <1>t, <1>7, StopKeeps DEF EntryGuard, Goto, VersionBumped, Memory
<1>8. CASE Bump
  <2> DEFINE s == Complete(st, VersionBumped)
  <2>1. s \in State  BY <1>t, Recording DEF VersionBumped
  <2> HIDE DEF s
  <2>2. [s EXCEPT !.created = @ \cup {Next1}] \in State  BY <1>t, <2>1 DEF State
  <2> QED  BY <1>t, <1>8, <2>1, <2>2 DEF s, Bump, Memory, Committed
<1>9. CASE Advance  BY <1>t, <1>9, StopKeeps DEF Advance, Goto, Memory
<1>10. CASE Record
  BY <1>t, <1>10, Recording DEF Record, Committed, CandidatePushed, CIVerified,
     PostReleaseHooksRun, Memory
<1>11. CASE Discard
  BY <1>t, <1>11, StoppedKeeps, Recording DEF Discard, Goto, CandidatePushed, NoCommit, Memory
<1>12. CASE Clear
  BY <1>t, <1>12, StoppedKeeps, NoStateIsState DEF Clear, StateBefore, Memory
<1>13. CASE Candidate
  <2>1. [st EXCEPT !.rc = tip] \in State  BY <1>t DEF State
  <2>2. st.rc \in Nat  BY <1>t DEF State
  <2>3. /\ UNCHANGED <<mode, tip, head, last, entry>>
        /\ step' = CandidatePushed
        /\ st' \in {st, [st EXCEPT !.rc = tip]}
        /\ pc' \in {"gate", "discard", "judge"}
        /\ cand' \in {st.rc, tip, cand}
    BY <1>13, Zenon DEF Candidate, RecordedCandidate
  <2> QED  BY <1>t, <2>1, <2>2, <2>3 DEF CandidatePushed, Memory
<1>14. CASE Judge
  <2>1. [st EXCEPT !.runall = cand] \in State  BY <1>t DEF State
  <2> QED  BY <1>t, <1>14, <2>1, StopKeeps DEF Judge, Goto, CandidatePushed, Memory
<1>15. CASE Push
  <2>1. \/ pc' = "record" /\ UNCHANGED <<st, mode, step, tip, head, last, cand, entry>>
        \/ \E k, tried : Stop(CandidatePushed, k, tried)
    BY <1>15, Zenon DEF Push
  <2> QED  BY <1>t, <2>1, StopKeeps DEF CandidatePushed, Memory
<1>16. CASE Dispatch
  <2>1. [st EXCEPT !.runall = NoCommit] \in State  BY <1>t DEF State, NoCommit
  <2> QED  BY <1>t, <1>16, <2>1, StopKeeps DEF Dispatch, Goto, CIVerified, NoCommit, Memory
<1>17. CASE Verify
  <2>1. [st EXCEPT !.rc = cand] \in State  BY <1>t DEF State
  <2> QED  BY <1>t, <1>17, <2>1, StopKeeps DEF Verify, CIVerified, Memory
<1>18. CASE Gate  BY <1>t, <1>18, StopKeeps DEF Gate, ChangelogFinalized, Memory
<1>19. CASE Skip  BY <1>t, <1>19 DEF Skip, Goto, PostReleaseHooksRun, Memory
<1>20. CASE FinalizeChangelog
  <2>1. [st EXCEPT !.created = @ \cup {Next1}] \in State  BY <1>t DEF State
  <2> QED  BY <1>t, <1>20, <2>1, StopKeeps DEF FinalizeChangelog, At, Goto, CommitAs, Memory
<1>21. CASE Archive
  <2>1. [st EXCEPT !.created = @ \cup {Next1}] \in State  BY <1>t DEF State
  <2> QED  BY <1>t, <1>21, <2>1, StopKeeps DEF Archive, At, Goto, CommitAs, Memory
<1>22. CASE \E t \in Tags : Tag(t)  BY <1>t, <1>22, StopKeeps DEF Tag, procVars, Memory
<1>23. CASE AllTagged  BY <1>t, <1>23 DEF AllTagged, Goto, Memory
<1>24. CASE PushBranch  BY <1>t, <1>24, StopKeeps DEF PushBranch, At, Pushed, Memory
<1>25. CASE \E t \in Tags : PushTag(t)
  BY <1>t, <1>25, StopKeeps DEF PushTag, procVars, Memory
<1>26. CASE AllTagsPushed  BY <1>t, <1>26 DEF AllTagsPushed, Goto, Memory
<1>27. CASE GitHubRelease  BY <1>t, <1>27, StopKeeps DEF GitHubRelease, Goto, Memory
<1>28. CASE PublishPipelines  BY <1>t, <1>28 DEF PublishPipelines, Goto, Memory
<1>29. CASE Deploy  BY <1>t, <1>29 DEF Deploy, Goto, Memory
<1>30. CASE PostReleaseHooks
  BY <1>t, <1>30, Recording DEF PostReleaseHooks, Goto, PostReleaseHooksRun, Memory
<1>31. CASE Epilogue  BY <1>t, <1>31, StoppedKeeps, NoStateIsState DEF Epilogue, Memory
<1>32. CASE CommitAbandoned  BY <1>t, <1>32 DEF CommitAbandoned, Goto, Memory
<1>33. CASE DropState  BY <1>t, <1>33, StoppedKeeps, NoStateIsState DEF DropState, Memory
<1>34. CASE Env
  BY <1>t, <1>34 DEF Env, CommitOnBranch, CommitOnOrigin, ChangelogAdd, Pull, StrayTag, EnvOnly,
     procVars, Memory
<1>35. CASE StepError  BY <1>t, <1>35, StopKeeps DEF StepError, Memory
<1>36. CASE Crash  BY <1>t, <1>36, StoppedKeeps DEF Crash, Memory
<1> QED
  BY <1>1, <1>2, <1>3, <1>4, <1>5, <1>6, <1>7, <1>8, <1>9, <1>10, <1>11, <1>12, <1>13, <1>14,
     <1>15, <1>16, <1>17, <1>18, <1>19, <1>20, <1>21, <1>22, <1>23, <1>24, <1>25, <1>26, <1>27,
     <1>28, <1>29, <1>30, <1>31, <1>32, <1>33, <1>34, <1>35, <1>36 DEF Next, Operator, Walk

\* A step either leaves the log as it is or appends one commit to it;
\* an archive is appended by the archive step only, and names the candidate.
LEMMA LogStep ==
    Structure /\ Next =>
        \/ UNCHANGED log
        \/ \E P \in SUBSET Commits, k \in Kinds, v \in 0..MaxVersion, c \in Nat :
               log' = Extend(P, k, v, c) /\ (k = "archive" => At(ReleaseArchived) /\ c = cand)
<1> SUFFICES ASSUME Structure, Next
             PROVE  \/ UNCHANGED log
                    \/ \E P \in SUBSET Commits, k \in Kinds, v \in 0..MaxVersion, c \in Nat :
                           /\ log' = Extend(P, k, v, c)
                           /\ k = "archive" => At(ReleaseArchived) /\ c = cand
  OBVIOUS
<1>t. /\ st.ver \in 0..MaxVersion /\ 0 \in 0..MaxVersion /\ loose \in 0..MaxVersion
      /\ cand \in Nat /\ NoCommit \in Nat
      /\ branch \in Commits /\ origin \in Commits
  BY ReleaseAssumption DEF Structure, TypeOK, Memory, Outside, State, RefsOK, NoCommit
<1>h. pc \in {"bump", "walk"} => head \in Commits  BY DEF Structure, RefsOK, Walking, Places
<1>k. {"bump", "finalize", "archive", "never", "work", "aside", "entry", "merge"} \subseteq Kinds
  BY DEF Kinds
<1>1. CASE Bump  BY <1>t, <1>h, <1>k, <1>1 DEF Bump, repoVars
<1>2. CASE FinalizeChangelog  BY <1>t, <1>h, <1>k, <1>2 DEF FinalizeChangelog, At, CommitAs
<1>3. CASE Archive  BY <1>t, <1>h, <1>k, <1>3 DEF Archive, ReleaseCommit, At, CommitAs
<1>4. CASE CommitAbandoned  BY <1>t, <1>k, <1>4 DEF CommitAbandoned
<1>5. CASE Env
  <2>1. ASSUME NEW k \in ForeignKinds, CommitOnBranch(k) \/ CommitOnOrigin(k)
        PROVE  \E P \in SUBSET Commits, kk \in Kinds, v \in 0..MaxVersion, c \in Nat :
                   /\ log' = Extend(P, kk, v, c)
                   /\ kk = "archive" => At(ReleaseArchived) /\ c = cand
    <3>1. k \in Kinds /\ k # "archive"  BY ReleaseAssumption, <1>k
    <3> QED  BY <1>t, <2>1, <3>1 DEF CommitOnBranch, CommitOnOrigin
  <2>2. CASE ChangelogAdd  BY <1>t, <1>k, <2>2 DEF ChangelogAdd
  <2>3. CASE Pull  BY <1>t, <1>k, <2>3 DEF Pull
  <2>4. ASSUME NEW v \in Version, NEW t \in Tags, StrayTag(v, t) PROVE UNCHANGED log
    BY <2>4 DEF StrayTag, repoVars
  <2> QED  BY <1>5, <2>1, <2>2, <2>3, <2>4 DEF Env
<1>6. CASE EnterFresh \/ EnterResume \/ Abandon \/ StepError \/ Crash
  BY <1>6 DEF EnterFresh, EnterResume, Enter, Abandon, StepError, Crash, repoVars
<1>7. CASE \/ Validate \/ Begin \/ Adopt \/ EntryGuard \/ Advance \/ Record \/ Discard
           \/ Clear \/ Candidate \/ Judge \/ Dispatch \/ Verify \/ Gate \/ Skip
  BY <1>7 DEF Validate, Begin, Adopt, EntryGuard, Advance, Record, Discard, Clear,
              Candidate, Judge, Dispatch, Verify, Gate, Skip, repoVars
<1>8. CASE \/ Push \/ \E t \in Tags : Tag(t)
           \/ AllTagged \/ PushBranch
           \/ \E t \in Tags : PushTag(t)
  BY <1>8 DEF Push, Tag, AllTagged, PushBranch, PushTag, OriginTakes, OriginUnmoved, repoVars
<1>9. CASE \/ AllTagsPushed \/ GitHubRelease \/ PublishPipelines \/ Deploy
           \/ PostReleaseHooks \/ Epilogue \/ DropState
  BY <1>9 DEF AllTagsPushed, GitHubRelease, PublishPipelines, Deploy, PostReleaseHooks,
              Epilogue, DropState, repoVars
<1> QED  BY <1>1, <1>2, <1>3, <1>4, <1>5, <1>6, <1>7, <1>8, <1>9 DEF Next, Operator, Walk

\* Every step keeps the log well-formed and every commit's history.
LEMMA LogKept ==
    ASSUME Structure, Next
    PROVE  /\ log' \in Seq(CommitRecord) /\ LogOK' /\ LogGrows
           /\ Commits \subseteq Commits' /\ Commits' \subseteq Nat
<1>1. CASE UNCHANGED log  BY <1>1, Keeping DEF Structure
<1>2. ASSUME NEW P \in SUBSET Commits, NEW k \in Kinds,
             NEW v \in 0..MaxVersion, NEW c \in Nat, log' = Extend(P, k, v, c)
      PROVE  /\ log' \in Seq(CommitRecord) /\ LogOK' /\ LogGrows
             /\ Commits \subseteq Commits' /\ Commits' \subseteq Nat
  BY <1>2, Extending DEF Structure
<1> QED  BY <1>1, <1>2, LogStep

\* The commits and pushes of other people leave both refs on commits.
LEMMA EnvRefs ==
    ASSUME Structure, Env
    PROVE  branch' \in Commits' /\ origin' \in Commits'
<1>1. branch \in Commits /\ origin \in Commits  BY DEF Structure, RefsOK
<1>2. ASSUME NEW P \in SUBSET Commits, NEW k \in Kinds,
             log' = Extend(P, k, 0, NoCommit)
      PROVE  Commits \subseteq Commits' /\ Next1 \in Commits'
  <2>1. 0 \in 0..MaxVersion /\ NoCommit \in Nat  BY ReleaseAssumption DEF NoCommit
  <2> QED  BY <1>2, <2>1, Extending DEF Structure
<1>3. ASSUME NEW k \in ForeignKinds, CommitOnBranch(k) \/ CommitOnOrigin(k)
      PROVE  branch' \in Commits' /\ origin' \in Commits'
  <2>1. k \in Kinds  BY ReleaseAssumption DEF Kinds
  <2>2. CASE CommitOnBranch(k)  BY <1>1, <1>2, <2>1, <2>2 DEF CommitOnBranch
  <2>3. CASE CommitOnOrigin(k)  BY <1>1, <1>2, <2>1, <2>3 DEF CommitOnOrigin
  <2> QED  BY <1>3, <2>2, <2>3
<1>4. CASE ChangelogAdd  BY <1>1, <1>2, <1>4 DEF ChangelogAdd, Kinds
<1>5. CASE Pull  BY <1>1, <1>2, <1>5 DEF Pull, Kinds, Commits
<1>6. ASSUME NEW v \in Version, NEW t \in Tags, StrayTag(v, t)
      PROVE  branch' \in Commits' /\ origin' \in Commits'
  BY <1>1, <1>6 DEF StrayTag, repoVars, Commits
<1> QED  BY <1>3, <1>4, <1>5, <1>6 DEF Env

\* Every ref the code moves names a commit again after a step.
LEMMA RefsKept ==
    ASSUME Structure, Next
    PROVE  RefsOK'
<1> USE DEF Walking, Places
<1>l. /\ LogGrows /\ Commits \subseteq Commits'
      /\ Len(log) \in Nat /\ Len(log') \in Nat
  BY LogKept DEF Structure, TypeOK, Repository
<1>r. /\ branch \in Commits /\ origin \in Commits
      /\ pc \in Walking => head \in Commits /\ tip \in Commits
      /\ pc \in {"judge", "push"} => cand \in Commits
      /\ last \in Commits \cup {NoCommit}
      /\ pc = "prepared" => VersionOf(head) + 1 \in Version
      /\ Memory /\ step \in Steps /\ LogOK
  BY DEF Structure, RefsOK, TypeOK, Memory
<1>c. /\ VersionBumped \in Steps /\ CandidatePushed \in Steps /\ CIVerified \in Steps
      /\ ChangelogFinalized \in Steps
  BY DEF Steps, VersionBumped, CandidatePushed, CIVerified, ChangelogFinalized
\* A step that ends the command, or leaves it to discard its attempt.
<1>s. ASSUME NEW n \in Steps, NEW k, NEW tried, Stop(n, k, tried), pc \in Walking,
             branch' \in Commits', origin' \in Commits'
      PROVE  RefsOK'
  <2>1. \/ pc' = "discard" /\ UNCHANGED <<head, tip, last>>
        \/ pc' = "idle" /\ last' = NoCommit
    BY <1>r, <1>s, StopKeeps
  <2> QED  BY <1>l, <1>r, <1>s, <2>1 DEF RefsOK
<1>e. ASSUME Stopped, branch' \in Commits', origin' \in Commits'
      PROVE  RefsOK'
  BY <1>e DEF RefsOK, Stopped
\* A step that moves no ref.
<1>g. ASSUME UNCHANGED <<branch, origin, tip, head, last, cand>>, pc \in Walking,
             pc' \in Walking \ {"prepared"}, pc' = "push" => pc = "judge"
      PROVE  pc' # "judge" => RefsOK'
  BY <1>l, <1>r, <1>g DEF RefsOK
<1>p. ASSUME UNCHANGED <<branch, origin>> PROVE branch' \in Commits' /\ origin' \in Commits'
  BY <1>l, <1>r, <1>p
<1>1. CASE EnterFresh \/ EnterResume
  BY <1>l, <1>r, <1>1 DEF EnterFresh, EnterResume, Enter, repoVars, RefsOK
<1>2. CASE Abandon  BY <1>l, <1>r, <1>2 DEF Abandon, repoVars, RefsOK
<1>3. CASE Validate
  <2>1. UNCHANGED <<branch, origin>>  BY <1>3 DEF Validate, repoVars
  <2>2. CASE Goto("prepared") /\ Releasable(head)
    <3>1. head \in Commits /\ head' = head  BY <1>r, <1>3, <2>2 DEF Validate, Goto
    <3>2. VersionOf(head)' + 1 \in Version
      BY <1>l, <1>r, <2>2, <3>1, VersionStays DEF Releasable
    <3> QED  BY <1>l, <1>r, <1>3, <2>1, <2>2, <3>2 DEF Validate, Goto, RefsOK, Version
  <2>3. CASE Stopped  BY <1>e, <1>p, <2>1, <2>3
  <2> QED  BY <1>3, <2>2, <2>3 DEF Validate
<1>4. CASE Begin  BY <1>e, <1>g, <1>p, <1>4 DEF Begin, Goto, repoVars
<1>5. CASE Adopt  BY <1>e, <1>g, <1>p, <1>5 DEF Adopt, repoVars
<1>6. CASE EntryGuard  BY <1>r, <1>c, <1>s, <1>p, <1>g, <1>6 DEF EntryGuard, Goto, repoVars
<1>7. CASE Bump
  <2>1. CASE log' = Extend({head}, "bump", st.ver, NoCommit) /\ head' = Next1
    <3>1. head \in Commits /\ st.ver \in 0..MaxVersion /\ NoCommit \in Nat /\ "bump" \in Kinds
      BY <1>r, <1>7 DEF Bump, Memory, State, Kinds, NoCommit
    <3>2. Next1 \in Commits'  BY <2>1, <3>1, Extending DEF Structure
    <3> QED  BY <1>l, <1>r, <1>7, <2>1, <3>2 DEF Bump, RefsOK, repoVars
  <2>2. CASE UNCHANGED repoVars /\ head' = head  BY <1>g, <1>7, <2>2 DEF Bump, repoVars
  <2> QED  BY <1>7, <2>1, <2>2 DEF Bump
<1>8. CASE Advance
  BY <1>l, <1>r, <1>r, <1>c, <1>s, <1>p, <1>g, <1>8 DEF Advance, Goto, RefsOK
<1>9. CASE Record  BY <1>g, <1>9 DEF Record, repoVars
<1>10. CASE Discard  BY <1>l, <1>r, <1>e, <1>g, <1>10 DEF Discard, Goto, RefsOK, TakesBack
<1>11. CASE Clear  BY <1>e, <1>p, <1>11 DEF Clear, repoVars
<1>12. CASE Candidate  BY <1>l, <1>r, <1>12 DEF Candidate, RefsOK, repoVars
<1>13. CASE Judge
  <2>1. \/ \E n \in Steps : \E k, tried : Stop(n, k, tried)
        \/ pc' \in {"push", "record"} /\ UNCHANGED <<tip, head, last, cand>>
    BY <1>13, <1>c, Zenon DEF Judge, Goto
  <2>2. pc = "judge" /\ UNCHANGED <<branch, origin>>  BY <1>13 DEF Judge, repoVars
  <2> QED  BY <1>s, <1>g, <1>p, <2>1, <2>2
<1>14. CASE Push
  <2>1. \/ \E n \in Steps : \E k, tried : Stop(n, k, tried)
        \/ pc' = "record" /\ UNCHANGED <<tip, head, last, cand>>
    BY <1>14, <1>c, Zenon DEF Push
  <2>2. pc = "push" /\ branch' = branch /\ origin' \in {origin, cand}
    BY <1>14 DEF Push, OriginTakes, OriginUnmoved, repoVars
  <2> QED  BY <1>l, <1>r, <1>s, <2>1, <2>2 DEF RefsOK
<1>15. CASE Dispatch  BY <1>r, <1>c, <1>s, <1>p, <1>g, <1>15 DEF Dispatch, Goto, repoVars
<1>16. CASE Verify  BY <1>r, <1>c, <1>s, <1>p, <1>g, <1>16 DEF Verify, repoVars
<1>17. CASE Gate  BY <1>r, <1>c, <1>s, <1>p, <1>g, <1>17 DEF Gate, repoVars
<1>18. CASE Skip  BY <1>g, <1>18 DEF Skip, Goto, repoVars
<1>19. CASE FinalizeChangelog
  <2>1. CASE \E n \in Steps : \E k, tried : Stop(n, k, tried)
    BY <1>r, <1>s, <1>p, <1>19, <2>1 DEF FinalizeChangelog, At
  <2>2. CASE Goto("record") /\ UNCHANGED log
    BY <1>g, <1>19, <2>2 DEF FinalizeChangelog, At, Goto
  <2>3. CASE CommitAs("finalize", NoCommit)
    <3>1. /\ head \in Commits /\ st.ver \in 0..MaxVersion /\ NoCommit \in Nat /\ "finalize" \in Kinds
      BY <1>r, <1>19 DEF FinalizeChangelog, At, Memory, State, Kinds, NoCommit
    <3>2. Next1 \in Commits'  BY <2>3, <3>1, Extending DEF Structure, CommitAs
    <3> QED  BY <1>l, <1>r, <1>19, <2>3, <3>2 DEF FinalizeChangelog, At, CommitAs, RefsOK
  <2> QED  BY <1>r, <1>19, <2>1, <2>2, <2>3 DEF FinalizeChangelog, At
<1>20. CASE Archive
  <2>1. CASE \E n \in Steps : \E k, tried : Stop(n, k, tried)
    BY <1>r, <1>s, <1>p, <1>20, <2>1 DEF Archive, At
  <2>2. CASE Goto("record") /\ UNCHANGED log  BY <1>g, <1>20, <2>2 DEF Archive, At, Goto
  <2>3. CASE CommitAs("archive", cand)
    <3>1. /\ head \in Commits /\ st.ver \in 0..MaxVersion /\ cand \in Nat /\ "archive" \in Kinds
      BY <1>r, <1>20 DEF Archive, At, Memory, State, Kinds, NoCommit
    <3>2. Next1 \in Commits'  BY <2>3, <3>1, Extending DEF Structure, CommitAs
    <3> QED  BY <1>l, <1>r, <1>20, <2>3, <3>2 DEF Archive, At, CommitAs, RefsOK
  <2> QED  BY <1>r, <1>20, <2>1, <2>2, <2>3 DEF Archive, ReleaseCommit, At
<1>21. CASE \E t \in Tags : Tag(t)
  BY <1>r, <1>c, <1>s, <1>p, <1>g, <1>21 DEF Tag, At, procVars, repoVars
<1>22. CASE AllTagged  BY <1>g, <1>22 DEF AllTagged, At, Goto, repoVars
<1>23. CASE PushBranch
  <2>1. \/ \E n \in Steps : \E k, tried : Stop(n, k, tried)
        \/ pc' = "pushtags" /\ UNCHANGED <<tip, head, last, cand>>
    BY <1>r, <1>23, Zenon DEF PushBranch
  <2>2. pc = "walk" /\ branch' = branch /\ origin' \in {origin, branch}
    BY <1>23 DEF PushBranch, At, OriginTakes, OriginUnmoved, repoVars
  <2> QED  BY <1>l, <1>r, <1>s, <2>1, <2>2 DEF RefsOK
<1>24. CASE \E t \in Tags : PushTag(t)
  BY <1>r, <1>c, <1>s, <1>p, <1>g, <1>24 DEF PushTag, procVars, repoVars
<1>25. CASE AllTagsPushed  BY <1>g, <1>25 DEF AllTagsPushed, Goto, repoVars
<1>26. CASE GitHubRelease
  BY <1>r, <1>c, <1>s, <1>p, <1>g, <1>26 DEF GitHubRelease, At, Goto, repoVars
<1>27. CASE PublishPipelines \/ Deploy
  BY <1>g, <1>27 DEF PublishPipelines, Deploy, At, Goto, repoVars
<1>28. CASE PostReleaseHooks  BY <1>g, <1>28 DEF PostReleaseHooks, At, Goto, repoVars
<1>29. CASE Epilogue  BY <1>e, <1>p, <1>29 DEF Epilogue, repoVars
<1>30. CASE CommitAbandoned
  <2>1. branch \in Commits /\ loose \in 0..MaxVersion /\ "never" \in Kinds /\ NoCommit \in Nat
    BY <1>r DEF Structure, TypeOK, Outside, Kinds, NoCommit
  <2>2. Next1 \in Commits'  BY <1>30, <2>1, Extending DEF CommitAbandoned, Structure
  <2> QED  BY <1>l, <1>r, <1>30, <2>2 DEF CommitAbandoned, Goto, RefsOK
<1>31. CASE DropState  BY <1>e, <1>p, <1>31 DEF DropState, repoVars
<1>32. CASE Env
  <2>1. branch' \in Commits' /\ origin' \in Commits'  BY <1>l, <1>r, <1>32, EnvRefs
  <2>2. UNCHANGED <<pc, tip, head, last, cand>>
    BY <1>32 DEF Env, CommitOnBranch, CommitOnOrigin, ChangelogAdd, Pull, StrayTag, EnvOnly,
       procVars
  <2>3. pc = "prepared" => VersionOf(head)' = VersionOf(head)
    BY <1>l, <1>r, <2>2, VersionStays
  <2> QED  BY <1>l, <1>r, <2>1, <2>2, <2>3 DEF RefsOK, Version
<1>33. CASE StepError  BY <1>r, <1>c, <1>s, <1>p, <1>33 DEF StepError, repoVars
<1>34. CASE Crash  BY <1>e, <1>p, <1>34 DEF Crash, repoVars
<1> QED
  BY <1>1, <1>2, <1>3, <1>4, <1>5, <1>6, <1>7, <1>8, <1>9, <1>10, <1>11, <1>12, <1>13, <1>14,
     <1>15, <1>16, <1>17, <1>18, <1>19, <1>20, <1>21, <1>22, <1>23, <1>24, <1>25, <1>26, <1>27,
     <1>28, <1>29, <1>30, <1>31, <1>32, <1>33, <1>34 DEF Next, Operator, Walk

\* An archive names a commit number.
LEMMA ArchivedIsNat ==
    ASSUME TypeOK, LogOK, head \in Commits, NEW v PROVE ArchivedAt(head, v) \in Nat
<1>1. CASE Has(head, "archive", v)
  <2>1. PICK d \in Of(head, "archive", v) : d = CHOOSE x \in Of(head, "archive", v) : TRUE
    BY <1>1 DEF Has, Of
  <2>2. d \in Commits /\ log[d] \in CommitRecord
    BY <2>1 DEF Of, LogOK, Commits, TypeOK, Repository
  <2> QED  BY <1>1, <2>1, <2>2 DEF ArchivedAt, CommitRecord
<1>2. CASE ~Has(head, "archive", v)  BY <1>2 DEF ArchivedAt, NoCommit
<1> QED  BY <1>1, <1>2

\* Every step keeps the type of tags, Releases, publications and CI's results.
LEMMA OutsideKept ==
    ASSUME Structure, Next
    PROVE  Outside'
<1> USE DEF Outside, repoVars, tagVars, outVars, ciVars
<1>t. /\ Outside /\ cand \in Nat /\ head \in Nat
      /\ branch \in Nat /\ origin \in Nat /\ Next1 \in Nat
  BY DEF Structure, TypeOK, Memory, Repository, Next1
<1>f. ASSUME NoFault \/ \E f : Fault(f) PROVE faults' \in Nat
  BY <1>t, <1>f DEF NoFault, Fault
\* A step that changes nothing outside but may count a fault.
<1>u. ASSUME UNCHANGED <<tagVars, outVars, ciVars, loose>>, NoFault \/ \E f : Fault(f)
      PROVE  Outside'
  BY <1>t, <1>f, <1>u
<1>1. CASE \/ EnterFresh \/ EnterResume \/ Validate \/ Begin \/ Adopt \/ EntryGuard
           \/ Bump \/ Advance \/ Record
  <2>1. UNCHANGED <<tagVars, outVars, ciVars, loose, faults>>
        \/ (UNCHANGED <<tagVars, outVars, ciVars, loose>> /\ (NoFault \/ \E f : Fault(f)))
    BY <1>1, Zenon DEF EnterFresh, EnterResume, Enter, Validate, Begin, Adopt, EntryGuard, Bump,
       Advance, Record
  <2> QED  BY <1>t, <1>u, <2>1
<1>2. CASE \/ Discard \/ Clear \/ Candidate \/ Judge \/ Gate \/ Skip \/ FinalizeChangelog
           \/ Archive \/ AllTagged \/ AllTagsPushed \/ PostReleaseHooks
           \/ Epilogue \/ StepError \/ Crash \/ DropState
  <2>1. UNCHANGED <<tagVars, outVars, ciVars, loose>> /\ (NoFault \/ \E f : Fault(f))
    BY <1>2, Zenon DEF Discard, Clear, Candidate, Judge, Gate, Skip, FinalizeChangelog,
       Archive, AllTagged, AllTagsPushed, PostReleaseHooks, Epilogue, StepError, Crash, DropState
  <2> QED  BY <1>u, <2>1
<1>3. CASE Push \/ PushBranch
  <2>1. UNCHANGED <<tagVars, outVars, loose, green>> /\ ran' \subseteq ran \cup {cand, branch}
    BY <1>3 DEF Push, PushBranch, OriginTakes, OriginUnmoved
  <2>2. NoFault \/ \E f : Fault(f)  BY <1>3 DEF Push, PushBranch
  <2> QED  BY <1>t, <1>f, <2>1, <2>2
<1>4. CASE Dispatch \/ Verify
  <2>1. /\ UNCHANGED <<tagVars, outVars, loose>>
        /\ ran' \subseteq ran \cup {origin} /\ green' \subseteq green \cup {cand}
    BY <1>4 DEF Dispatch, Verify
  <2>2. NoFault \/ \E f : Fault(f)  BY <1>4 DEF Dispatch, Verify
  <2> QED  BY <1>t, <1>f, <2>1, <2>2
<1>5. ASSUME NEW t \in Tags, Tag(t) \/ PushTag(t)
      PROVE  Outside'
  <2>1. PICK v : v = st.ver  OBVIOUS
  <2>2. /\ ltag' \in {ltag, [ltag EXCEPT ![v][t] = cand]}
        /\ otag' \in {otag, [otag EXCEPT ![v][t] = cand]}
        /\ UNCHANGED <<outVars, ciVars, loose>> /\ NoFault
    BY <1>5, <2>1 DEF Tag, PushTag
  <2>3. ASSUME NEW tag \in [Version -> [Tags -> Nat]]
        PROVE  [tag EXCEPT ![v][t] = cand] \in [Version -> [Tags -> Nat]]
    BY <1>t
  <2> QED  BY <1>t, <1>f, <2>2, <2>3
<1>6. CASE GitHubRelease
  <2>1. ArchivedAt(head, st.ver) \in Nat
    BY <1>6, ArchivedIsNat DEF Structure, RefsOK, GitHubRelease, At, Walking, Places
  <2> QED  BY <1>t, <1>f, <1>6, <2>1 DEF GitHubRelease
<1>7. CASE PublishPipelines \/ Deploy  BY <1>t, <1>f, <1>7 DEF PublishPipelines, Deploy
<1>8. CASE Abandon \/ CommitAbandoned
  <2>1. /\ UNCHANGED <<tagVars, outVars, ciVars>> /\ NoFault
        /\ loose' \in {loose, 0} \cup Version
    BY <1>8 DEF Abandon, CommitAbandoned
  <2>2. loose' \in 0..MaxVersion
    <3>1. loose \in 0..MaxVersion /\ 0 \in 0..MaxVersion /\ Version \subseteq 0..MaxVersion
      BY <1>t, ReleaseAssumption DEF Version
    <3> QED  BY <2>1, <3>1
  <2> QED  BY <1>t, <1>f, <2>1, <2>2
<1>9. CASE Env
  <2>1. ASSUME NEW k \in ForeignKinds, CommitOnBranch(k) \/ CommitOnOrigin(k)
        PROVE  Outside'
    BY <1>t, <2>1 DEF CommitOnBranch, CommitOnOrigin, EnvOnly
  <2>2. CASE ChangelogAdd \/ Pull  BY <1>t, <2>2 DEF ChangelogAdd, Pull, EnvOnly
  <2>3. ASSUME NEW v \in Version, NEW t \in Tags, StrayTag(v, t) PROVE Outside'
    BY <1>t, <1>f, <2>3 DEF StrayTag
  <2> QED  BY <1>9, <2>1, <2>2, <2>3 DEF Env
<1> QED  BY <1>1, <1>2, <1>3, <1>4, <1>5, <1>6, <1>7, <1>8, <1>9 DEF Next, Operator, Walk

\* Every step keeps the type of the two push flags.
LEMMA FlagsKept ==
    ASSUME Structure, Next
    PROVE  Flags'
<1>1. Flags  BY DEF Structure, TypeOK
\* Nothing, a stop, or one or both of the flags set.
<1> DEFINE Set == /\ pushed' = TRUE \/ UNCHANGED pushed
                  /\ attempted' = TRUE \/ UNCHANGED attempted
<1>2. Set \/ Stopped => Flags'  BY <1>1, Zenon DEF Flags, Stopped
<1>3. ASSUME NEW n, NEW k, NEW tried, Stop(n, k, tried) PROVE Set \/ Stopped
  BY <1>3, Zenon DEF Stop, Goto
<1>4. CASE EnterFresh \/ EnterResume \/ Abandon \/ Env
  BY <1>2, <1>4, Zenon DEF EnterFresh, EnterResume, Enter, Abandon, Env, CommitOnBranch,
     CommitOnOrigin, ChangelogAdd, Pull, StrayTag, EnvOnly, procVars
<1>5. CASE \/ Validate \/ Begin \/ Adopt \/ EntryGuard \/ Bump \/ Advance \/ Record
           \/ Discard \/ Clear
  BY <1>2, <1>3, <1>5, Zenon DEF Validate, Begin, Adopt, EntryGuard, Bump, Advance, Record,
     Discard, Clear, Goto
<1>6. CASE Candidate \/ Judge \/ Push \/ Dispatch \/ Verify \/ Gate \/ Skip
  BY <1>2, <1>3, <1>6, Zenon DEF Candidate, Judge, Push, Dispatch, Verify, Gate, Skip, Goto
<1>7. CASE FinalizeChangelog \/ Archive \/ AllTagged \/ PushBranch \/ AllTagsPushed
  BY <1>2, <1>3, <1>7, Zenon DEF FinalizeChangelog, Archive, AllTagged, PushBranch,
     AllTagsPushed, CommitAs, Goto
<1>8. CASE (\E t \in Tags : Tag(t)) \/ (\E t \in Tags : PushTag(t))
  BY <1>2, <1>3, <1>8, Zenon DEF Tag, PushTag, procVars
<1>9. CASE \/ GitHubRelease \/ PublishPipelines \/ Deploy \/ PostReleaseHooks \/ Epilogue
           \/ CommitAbandoned \/ DropState \/ StepError \/ Crash
  BY <1>2, <1>3, <1>9, Zenon DEF GitHubRelease, PublishPipelines, Deploy, PostReleaseHooks,
     Epilogue, CommitAbandoned, DropState, StepError, Crash, Goto
<1> QED  BY <1>2, <1>4, <1>5, <1>6, <1>7, <1>8, <1>9 DEF Next, Operator, Walk

\* The first state satisfies the inductive invariant.
LEMMA InitStructure ==
    ASSUME Init
    PROVE  Structure
<1>1. Outside  BY ReleaseAssumption DEF Init, Outside, NoCommit
<1>2. Memory  BY NoStateIsState DEF Init, Memory, Places, Steps, NoCommit, VersionBumped
<1>3. Flags  BY Zenon DEF Init, Flags
<1>4. Repository /\ LogOK /\ Commits = {1}
  <2> DEFINE base == [anc |-> {1}, kind |-> "base", ver |-> 0, of |-> NoCommit]
  <2>1. base \in CommitRecord /\ base.anc = {1}
    BY ReleaseAssumption DEF CommitRecord, Kinds, NoCommit
  <2>2. log = <<base>> /\ branch = 1 /\ origin = 1  BY DEF Init
  <2> HIDE DEF base
  <2> QED  BY <2>1, <2>2 DEF Repository, LogOK, Commits, Anc
<1>5. RefsOK  BY <1>4 DEF Init, RefsOK, Walking
<1> QED  BY <1>1, <1>2, <1>3, <1>4, <1>5 DEF Structure, TypeOK

\* Structure is inductive.
THEOREM StructureHolds == Spec => []Structure
<1>1. Structure /\ [Next]_vars => Structure'
  <2> SUFFICES ASSUME Structure, [Next]_vars PROVE Structure'  OBVIOUS
  <2>1. CASE Next
    <3>1. Repository'  BY <2>1, LogKept, RefsKept DEF Repository, RefsOK
    <3> QED
      BY <2>1, <3>1, LogKept, RefsKept, OutsideKept, MemoryKept, FlagsKept DEF Structure, TypeOK
  <2>2. CASE UNCHANGED vars
    <3>1. UNCHANGED log /\ Commits' = Commits /\ VersionOf(head)' = VersionOf(head)
      BY <2>2 DEF vars, procVars, Commits, VersionOf, Has, Of, Anc
    <3> QED
      BY <2>2, <3>1 DEF vars, procVars, Structure, TypeOK, Repository, Outside, Memory, Flags,
         LogOK, RefsOK, Anc, Commits
  <2> QED  BY <2>1, <2>2
<1> QED  BY <1>1, InitStructure, PTL DEF Spec

\* Every variable keeps its type, in every release of any number of versions
\* with any tags, faults and foreign commits.
THEOREM TypeCorrect == Spec => []TypeOK
BY StructureHolds, PTL DEF Structure

-----------------------------------------------------------------------------
(* Tags are only ever put on commits CI passed on. *)

\* The shape of a step that ends the command or leaves it to discard.
LEMMA Leaving ==
    ASSUME Structure, NEW n \in Steps, NEW k, NEW tried, Stop(n, k, tried)
    PROVE  /\ pc' \in {"idle", "discard"}
           /\ st'.done \subseteq st.done /\ st'.rc = st.rc
           /\ entry' \in {entry, NoState}
<1>1. Memory /\ st \in State  BY DEF Structure, TypeOK, Memory
<1>2. \/ pc' = "discard" /\ UNCHANGED <<st, entry>>
      \/ pc' = "idle" /\ st' = Fail(st, n) /\ entry' = NoState
  BY <1>1, StopKeeps
<1> QED  BY <1>1, <1>2, Recording

\* The positions of the step table, for the arithmetic of the walk.
LEMMA StepsAre ==
    /\ Steps = 1..12
    /\ VersionBumped = 1 /\ Committed = 2 /\ CandidatePushed = 3 /\ CIVerified = 4
    /\ ChangelogFinalized = 5 /\ ReleaseArchived = 6 /\ Tagged = 7 /\ Pushed = 8
    /\ GitHubReleaseCreated = 9 /\ PipelinesPublished = 10 /\ Deployed = 11
    /\ PostReleaseHooksRun = 12
BY DEF Steps, VersionBumped, Committed, CandidatePushed, CIVerified, ChangelogFinalized,
       ReleaseArchived, Tagged, Pushed, GitHubReleaseCreated, PipelinesPublished, Deployed,
       PostReleaseHooksRun

\* Every step of the walk keeps the step it is at in its place.
LEMMA PlacedKept ==
    ASSUME Structure, Placed, Next
    PROVE  Placed'
<1>t. step \in Steps  BY DEF Structure, TypeOK, Memory
<1>s. ASSUME NEW n \in Steps, NEW k, NEW tried, Stop(n, k, tried) PROVE Placed'
  BY <1>s, Leaving DEF Placed
<1>e. ASSUME pc' \notin {"advance", "judge", "push", "record", "walk", "pushtags"}
      PROVE  Placed'
  BY <1>e DEF Placed
<1>u. ASSUME UNCHANGED <<pc, step>> PROVE Placed'  BY <1>u DEF Placed
<1>1. CASE EnterFresh  BY <1>e, <1>1 DEF EnterFresh, Enter, Goto, Stopped
<1>2. CASE EnterResume  BY <1>e, <1>2 DEF EnterResume, Enter, Goto, Stopped
<1>3. CASE Abandon  BY <1>e, <1>3 DEF Abandon, Goto, Stopped
<1>4. CASE Validate  BY <1>e, <1>4 DEF Validate, Goto, Stopped
<1>5. CASE Begin  BY <1>e, <1>5 DEF Begin, Goto, Stopped
<1>6. CASE Adopt  BY <1>e, <1>6 DEF Adopt, Goto, Stopped
<1>7. CASE EntryGuard
  BY <1>t, <1>s, <1>7, StepsAre DEF EntryGuard, Placed, At, Goto, CommitAs, procVars
<1>8. CASE Bump
  BY <1>t, <1>s, <1>8, StepsAre DEF Bump, Placed, At, Goto, CommitAs, procVars
<1>9. CASE Advance
  BY <1>t, <1>s, <1>9, StepsAre DEF Advance, Placed, At, Goto, CommitAs, procVars
<1>10. CASE Record
  BY <1>t, <1>s, <1>10, StepsAre DEF Record, Placed, At, Goto, CommitAs, procVars
<1>11. CASE Discard  BY <1>e, <1>11 DEF Discard, Goto, Stopped
<1>12. CASE Clear  BY <1>e, <1>12 DEF Clear, Goto, Stopped
<1>13. CASE Candidate
  <2>1. pc' \in {"gate", "discard"} \/ (pc' = "judge" /\ step' = CandidatePushed)
    BY <1>13, Zenon DEF Candidate
  <2> QED  BY <2>1 DEF Placed
<1>14. CASE Judge
  <2>1. \/ \E n \in Steps : \E k, tried : Stop(n, k, tried)
        \/ pc' \in {"push", "record"} /\ UNCHANGED step
    <3>1. CandidatePushed \in Steps  BY StepsAre
    <3> QED  BY <1>14, <3>1, Zenon DEF Judge, Goto
  <2>2. pc = "judge"  BY <1>14 DEF Judge
  <2> QED  BY <1>s, <2>1, <2>2, StepsAre DEF Placed
<1>15. CASE Push
  <2>1. \/ \E n \in Steps : \E k, tried : Stop(n, k, tried)
        \/ pc' = "record" /\ UNCHANGED step
    <3>1. CandidatePushed \in Steps  BY StepsAre
    <3> QED  BY <1>15, <3>1, Zenon DEF Push
  <2>2. pc = "push"  BY <1>15 DEF Push
  <2> QED  BY <1>s, <2>1, <2>2, StepsAre DEF Placed
<1>16. CASE Dispatch
  BY <1>t, <1>s, <1>16, StepsAre DEF Dispatch, Placed, At, Goto, CommitAs, procVars
<1>17. CASE Verify
  BY <1>t, <1>s, <1>17, StepsAre DEF Verify, Placed, At, Goto, CommitAs, procVars
<1>18. CASE Gate
  BY <1>t, <1>s, <1>18, StepsAre DEF Gate, Placed, At, Goto, CommitAs, procVars
<1>19. CASE Skip
  BY <1>t, <1>s, <1>19, StepsAre DEF Skip, Placed, At, Goto, CommitAs, procVars
<1>20. CASE FinalizeChangelog
  BY <1>t, <1>s, <1>20, StepsAre DEF FinalizeChangelog, Placed, At, Goto, CommitAs, procVars
<1>21. CASE Archive
  BY <1>t, <1>s, <1>21, StepsAre DEF Archive, Placed, At, Goto, CommitAs, procVars
<1>22. CASE \E t \in Tags : Tag(t)
  BY <1>t, <1>s, <1>22, StepsAre DEF Tag, Placed, At, Goto, CommitAs, procVars
<1>23. CASE AllTagged
  BY <1>t, <1>s, <1>23, StepsAre DEF AllTagged, Placed, At, Goto, CommitAs, procVars
<1>24. CASE PushBranch
  <2>1. \/ \E n \in Steps : \E k, tried : Stop(n, k, tried)
        \/ pc' = "pushtags" /\ UNCHANGED step
    BY <1>t, <1>24, Zenon DEF PushBranch
  <2>2. step = Pushed  BY <1>24 DEF PushBranch, At
  <2> QED  BY <1>s, <2>1, <2>2 DEF Placed
<1>25. CASE \E t \in Tags : PushTag(t)
  BY <1>t, <1>s, <1>25, StepsAre DEF PushTag, Placed, At, Goto, CommitAs, procVars
<1>26. CASE AllTagsPushed
  BY <1>t, <1>s, <1>26, StepsAre DEF AllTagsPushed, Placed, At, Goto, CommitAs, procVars
<1>27. CASE GitHubRelease
  BY <1>t, <1>s, <1>27, StepsAre DEF GitHubRelease, Placed, At, Goto, CommitAs, procVars
<1>28. CASE PublishPipelines
  BY <1>t, <1>s, <1>28, StepsAre DEF PublishPipelines, Placed, At, Goto, CommitAs, procVars
<1>29. CASE Deploy
  BY <1>t, <1>s, <1>29, StepsAre DEF Deploy, Placed, At, Goto, CommitAs, procVars
<1>30. CASE PostReleaseHooks
  BY <1>t, <1>s, <1>30, StepsAre DEF PostReleaseHooks, Placed, At, Goto, CommitAs, procVars
<1>31. CASE Epilogue  BY <1>e, <1>31 DEF Epilogue, Goto, Stopped
<1>32. CASE CommitAbandoned  BY <1>e, <1>32 DEF CommitAbandoned, Goto, Stopped
<1>33. CASE DropState  BY <1>e, <1>33 DEF DropState, Goto, Stopped
<1>34. CASE Env
  BY <1>u, <1>34 DEF Env, CommitOnBranch, CommitOnOrigin, ChangelogAdd, Pull, StrayTag, EnvOnly,
     procVars
<1>35. CASE StepError
  BY <1>t, <1>s, <1>35, StepsAre DEF StepError, Placed, At, Goto, CommitAs, procVars
<1>36. CASE Crash  BY <1>e, <1>36 DEF Crash, Goto, Stopped
<1> QED
  BY <1>1, <1>2, <1>3, <1>4, <1>5, <1>6, <1>7, <1>8, <1>9, <1>10, <1>11, <1>12, <1>13, <1>14,
     <1>15, <1>16, <1>17, <1>18, <1>19, <1>20, <1>21, <1>22, <1>23, <1>24, <1>25, <1>26, <1>27,
     <1>28, <1>29, <1>30, <1>31, <1>32, <1>33, <1>34, <1>35, <1>36 DEF Next, Operator, Walk

\* Every step keeps the candidate that is to be tagged verified by CI.
LEMMA GreenKept ==
    ASSUME Structure, Placed, PushCI, Green, Next
    PROVE  Green'
<1>t. st \in State /\ entry \in State /\ step \in Steps  BY DEF Structure, TypeOK, Memory
<1>n. NoState.done = {}  BY DEF NoState
<1>s. ASSUME NEW n \in Steps, NEW k, NEW tried, Stop(n, k, tried), UNCHANGED green
      PROVE  Green'
  BY <1>n, <1>s, Leaving DEF Green
<1>e. ASSUME Stopped, UNCHANGED green, st' \in {st, entry, NoState} PROVE Green'
  BY <1>e, <1>n DEF Green, Stopped
<1>1. CASE EnterFresh  BY <1>e, <1>1 DEF EnterFresh, Enter, Goto, StateBefore, Green, ciVars
<1>2. CASE EnterResume
  BY <1>e, <1>2 DEF EnterResume, Enter, Goto, StateBefore, Green, ciVars
<1>3. CASE Abandon  BY <1>e, <1>3 DEF Abandon, Goto, StateBefore, Green, ciVars
<1>4. CASE Validate
  <2>1. CASE Stopped /\ st' \in {st, NoState}  BY <1>e, <1>4, <2>1 DEF Validate, ciVars
  <2>2. CASE pc' = "prepared" /\ st' = NoState /\ UNCHANGED <<green, entry>>
    BY <1>n, <2>2 DEF Green
  <2> QED  BY <1>4, <2>1, <2>2 DEF Validate, Goto, ciVars
<1>5. CASE Begin
  <2>1. CASE Stopped  BY <1>e, <1>5, <2>1 DEF Begin, Goto, Stopped, ciVars
  <2>2. CASE ~Stopped
    <3>1. /\ st' = [NoState EXCEPT !.ver = VersionOf(head) + 1, !.pin = head]
          /\ pc' = "guard" /\ UNCHANGED <<green, entry>>
      BY <1>5, <2>2 DEF Begin, Goto, ciVars
    <3>2. st'.done = {}  BY <3>1 DEF NoState
    <3> QED  BY <3>1, <3>2 DEF Green
  <2> QED  BY <2>1, <2>2
<1>6. CASE Adopt
  <2>1. CASE Stopped  BY <1>e, <1>6, <2>1 DEF Adopt, Stopped, ciVars
  <2>2. CASE ~Stopped
    <3>1. PICK reverify \in BOOLEAN :
             st' = [st EXCEPT !.pin = tip,
                              !.done = IF reverify THEN @ \ {CIVerified} ELSE @,
                              !.rc = IF reverify THEN NoCommit ELSE @]
      BY <1>6, <2>2, Zenon DEF Adopt
    <3>2. CIVerified \in st'.done => CIVerified \in st.done /\ st'.rc = st.rc
      BY <1>t, <3>1 DEF State
    <3>3. entry' = st /\ pc' = "guard" /\ UNCHANGED green  BY <1>6, <2>2 DEF Adopt, ciVars
    <3> QED  BY <3>2, <3>3 DEF Green
  <2> QED  BY <2>1, <2>2
<1>7. CASE EntryGuard
  BY <1>t, <1>s, <1>7, StepsAre DEF EntryGuard, At, Goto, Placed, Green, ciVars, procVars
<1>8. CASE Bump
  <2> DEFINE s == Complete(st, VersionBumped)
  <2>1. s \in State /\ s.done = st.done \cup {VersionBumped} /\ s.rc = st.rc
    BY <1>t, Recording, StepsAre
  <2> HIDE DEF s
  <2>2. /\ [s EXCEPT !.created = @ \cup {Next1}].done = s.done
        /\ [s EXCEPT !.created = @ \cup {Next1}].rc = s.rc
    BY <2>1 DEF State
  <2>3. /\ st' \in {st, s, [s EXCEPT !.created = @ \cup {Next1}]}
        /\ UNCHANGED <<green, entry>>
        /\ pc' \in {"candidate", "advance"} /\ step' = Committed
    BY <1>8 DEF s, Bump, ciVars
  <2>4. st'.done \subseteq st.done \cup {VersionBumped} /\ st'.rc = st.rc
    BY <2>1, <2>2, <2>3
  <2> QED  BY <2>3, <2>4, StepsAre DEF Green
<1>9. CASE Advance
  BY <1>t, <1>s, <1>9, StepsAre DEF Advance, At, Goto, Placed, Green, ciVars, procVars
<1>10. CASE Record
  <2>1. Complete(st, step) \in State /\ st' = Complete(st, step)
        /\ st'.done = st.done \cup {step} /\ st'.rc = st.rc
    BY <1>t, <1>10, Recording DEF Record
  <2>2. pc = "record" /\ UNCHANGED <<green, cand, entry>>  BY <1>10 DEF Record, ciVars
  <2>3. CASE step \in {Committed, CandidatePushed, CIVerified}
    <3>1. pc' \in {"candidate", "verify", "gate"} /\ (pc' = "gate" => step = CIVerified)
      BY <1>10, <2>3, StepsAre DEF Record
    <3> QED  BY <2>1, <2>2, <2>3, <3>1, StepsAre DEF Green
  <2>4. CASE step \notin {Committed, CandidatePushed, CIVerified}
    <3>1. pc' \in {"walk", "epilogue"}  BY <1>10, <2>4 DEF Record
    <3> QED  BY <2>1, <2>2, <2>4, <3>1, StepsAre DEF Green
  <2> QED  BY <2>3, <2>4
<1>11. CASE Discard
  <2>1. CASE pc' = "clear" /\ UNCHANGED <<st, entry>>
    BY <1>11, <2>1 DEF Discard, Green, ciVars
  <2>2. CASE Stopped /\ st' = Fail(st, CandidatePushed)
    <3>1. st'.done \subseteq st.done /\ st'.rc = st.rc  BY <1>t, <2>2, Recording, StepsAre
    <3> QED  BY <1>n, <1>11, <2>2, <3>1 DEF Discard, Green, Stopped, ciVars
  <2> QED  BY <1>11, <2>1, <2>2, Zenon DEF Discard, Goto
<1>12. CASE Clear  BY <1>e, <1>12 DEF Clear, Goto, StateBefore, Green, ciVars
<1>13. CASE Candidate
  <2>1. \/ pc' = "gate" /\ cand' = st.rc /\ CIVerified \in st.done /\ UNCHANGED <<st, entry>>
        \/ pc' = "discard" /\ UNCHANGED <<st, entry>>
        \/ pc' = "judge" /\ st' = [st EXCEPT !.rc = tip] /\ CIVerified \notin st.done /\ UNCHANGED entry
    BY <1>13, Zenon DEF Candidate, RecordedCandidate
  <2>2. UNCHANGED green  BY <1>13 DEF Candidate, ciVars
  <2>3. [st EXCEPT !.rc = tip].done = st.done  BY <1>t DEF State
  <2> QED  BY <2>1, <2>2, <2>3 DEF Green
<1>14. CASE Judge
  <2>1. \/ \E n \in Steps : \E k, tried : Stop(n, k, tried)
        \/ pc' \in {"push", "record"} /\ st' \in {st, [st EXCEPT !.runall = cand]}
           /\ UNCHANGED <<step, cand, entry>>
    <3>1. CandidatePushed \in Steps  BY StepsAre
    <3> QED  BY <1>14, <3>1, Zenon DEF Judge, Goto
  <2>2. pc = "judge" /\ UNCHANGED green  BY <1>14 DEF Judge, ciVars
  <2>3. [st EXCEPT !.runall = cand].done = st.done /\ [st EXCEPT !.runall = cand].rc = st.rc
    BY <1>t DEF State
  <2>4. CASE \E n \in Steps : \E k, tried : Stop(n, k, tried)  BY <1>s, <2>2, <2>4
  <2>5. CASE /\ pc' \in {"push", "record"} /\ st' \in {st, [st EXCEPT !.runall = cand]}
             /\ UNCHANGED <<step, cand, entry>>
    <3>1. st'.done = st.done /\ st'.rc = st.rc  BY <2>3, <2>5
    <3> QED  BY <2>2, <2>5, <3>1, StepsAre DEF Placed, Green
  <2> QED  BY <2>1, <2>4, <2>5
<1>15. CASE Push
  <2>1. \/ \E n \in Steps : \E k, tried : Stop(n, k, tried)
        \/ pc' = "record" /\ UNCHANGED <<st, step, cand, entry>>
    <3>1. CandidatePushed \in Steps  BY StepsAre
    <3> QED  BY <1>15, <3>1, Zenon DEF Push
  <2>2. pc = "push" /\ UNCHANGED green
    BY <1>15 DEF Push, OriginTakes, OriginUnmoved, ciVars
  <2> QED  BY <1>s, <2>1, <2>2, StepsAre DEF Placed, Green
<1>16. CASE Dispatch
  <2>1. [st EXCEPT !.runall = NoCommit].done = st.done /\ [st EXCEPT !.runall = NoCommit].rc = st.rc
    BY <1>t DEF State
  <2>2. CASE pc' = "verify" /\ st' = [st EXCEPT !.runall = NoCommit] /\ UNCHANGED entry
    BY <1>16, <2>1, <2>2 DEF Dispatch, Green
  <2>3. CASE \E n \in Steps : \E k, tried : Stop(n, k, tried)
    BY <1>s, <1>16, <2>3 DEF Dispatch
  <2> QED  BY <1>16, <2>2, <2>3, StepsAre DEF Dispatch, Goto
<1>17. CASE Verify
  <2>1. [st EXCEPT !.rc = cand].done = st.done /\ [st EXCEPT !.rc = cand].rc = cand
    BY <1>t DEF State
  <2>2. CASE /\ pc' = "record" /\ step' = CIVerified /\ green' = green \cup {cand}
             /\ st' = [st EXCEPT !.rc = cand] /\ UNCHANGED <<cand, entry>>
    BY <2>1, <2>2 DEF Green
  <2>3. CASE UNCHANGED green /\ \E n \in Steps : \E k, tried : Stop(n, k, tried)
    BY <1>s, <2>3
  <2> QED  BY <1>17, <2>2, <2>3, StepsAre DEF Verify
<1>18. CASE Gate
  BY <1>t, <1>s, <1>18, StepsAre DEF Gate, At, Goto, Placed, Green, ciVars, procVars
<1>19. CASE Skip
  BY <1>t, <1>s, <1>19, StepsAre DEF Skip, At, Goto, Placed, Green, ciVars, procVars
<1>20. CASE FinalizeChangelog
  <2>1. /\ [st EXCEPT !.created = @ \cup {Next1}].done = st.done
        /\ [st EXCEPT !.created = @ \cup {Next1}].rc = st.rc
    BY <1>t DEF State
  <2>2. pc = "walk" /\ UNCHANGED green  BY <1>20 DEF FinalizeChangelog, At, ciVars
  <2>3. CASE \E n \in Steps : \E k, tried : Stop(n, k, tried)  BY <1>s, <2>2, <2>3
  <2>4. CASE /\ pc' \in {"record", "advance"} /\ UNCHANGED <<step, cand, entry>>
             /\ st' \in {st, [st EXCEPT !.created = @ \cup {Next1}]}
    <3>1. st'.done = st.done /\ st'.rc = st.rc  BY <2>1, <2>4
    <3> QED  BY <2>2, <2>4, <3>1, StepsAre DEF Placed, Green
  <2> QED  BY <1>t, <1>20, <2>3, <2>4 DEF FinalizeChangelog, At, Goto, CommitAs
<1>21. CASE Archive
  <2>1. /\ [st EXCEPT !.created = @ \cup {Next1}].done = st.done
        /\ [st EXCEPT !.created = @ \cup {Next1}].rc = st.rc
    BY <1>t DEF State
  <2>2. pc = "walk" /\ UNCHANGED green  BY <1>21 DEF Archive, At, ciVars
  <2>3. CASE \E n \in Steps : \E k, tried : Stop(n, k, tried)  BY <1>s, <2>2, <2>3
  <2>4. CASE /\ pc' \in {"record", "advance"} /\ UNCHANGED <<step, cand, entry>>
             /\ st' \in {st, [st EXCEPT !.created = @ \cup {Next1}]}
    <3>1. st'.done = st.done /\ st'.rc = st.rc  BY <2>1, <2>4
    <3> QED  BY <2>2, <2>4, <3>1, StepsAre DEF Placed, Green
  <2> QED  BY <1>t, <1>21, <2>3, <2>4 DEF Archive, At, Goto, CommitAs
<1>22. CASE \E t \in Tags : Tag(t)
  BY <1>t, <1>s, <1>22, StepsAre DEF Tag, At, Goto, Placed, Green, ciVars, procVars
<1>23. CASE AllTagged
  BY <1>t, <1>s, <1>23, StepsAre DEF AllTagged, At, Goto, Placed, Green, ciVars, procVars
<1>24. CASE PushBranch
  <2>1. \/ \E n \in Steps : \E k, tried : Stop(n, k, tried)
        \/ pc' = "pushtags" /\ UNCHANGED <<st, cand, entry>>
    BY <1>t, <1>24, Zenon DEF PushBranch
  <2>2. pc = "walk" /\ UNCHANGED green
    BY <1>24 DEF PushBranch, At, OriginTakes, OriginUnmoved, ciVars
  <2> QED  BY <1>s, <2>1, <2>2 DEF Green
<1>25. CASE \E t \in Tags : PushTag(t)
  BY <1>t, <1>s, <1>25, StepsAre DEF PushTag, At, Goto, Placed, Green, ciVars, procVars
<1>26. CASE AllTagsPushed
  BY <1>t, <1>s, <1>26, StepsAre DEF AllTagsPushed, At, Goto, Placed, Green, ciVars, procVars
<1>27. CASE GitHubRelease
  BY <1>t, <1>s, <1>27, StepsAre DEF GitHubRelease, At, Goto, Placed, Green, ciVars, procVars
<1>28. CASE PublishPipelines
  BY <1>t, <1>s, <1>28, StepsAre DEF PublishPipelines, At, Goto, Placed, Green, ciVars, procVars
<1>29. CASE Deploy
  BY <1>t, <1>s, <1>29, StepsAre DEF Deploy, At, Goto, Placed, Green, ciVars, procVars
<1>30. CASE PostReleaseHooks
  <2>1. /\ Fail(st, PostReleaseHooksRun).done \subseteq st.done
        /\ Fail(st, PostReleaseHooksRun).rc = st.rc
    BY <1>t, Recording, StepsAre
  <2> QED  BY <1>30, <2>1, StepsAre DEF PostReleaseHooks, At, Goto, Green, ciVars
<1>31. CASE Epilogue  BY <1>e, <1>31 DEF Epilogue, Goto, StateBefore, Green, ciVars
<1>32. CASE CommitAbandoned
  BY <1>e, <1>32 DEF CommitAbandoned, Goto, StateBefore, Green, ciVars
<1>33. CASE DropState  BY <1>e, <1>33 DEF DropState, Goto, StateBefore, Green, ciVars
<1>34. CASE Env
  BY <1>34 DEF Env, CommitOnBranch, CommitOnOrigin, ChangelogAdd, Pull, StrayTag, EnvOnly, Green,
     ciVars, procVars
<1>35. CASE StepError
  BY <1>t, <1>s, <1>35, StepsAre DEF StepError, At, Goto, Placed, Green, ciVars, procVars
<1>36. CASE Crash  BY <1>e, <1>36 DEF Crash, Goto, StateBefore, Green, ciVars
<1> QED
  BY <1>1, <1>2, <1>3, <1>4, <1>5, <1>6, <1>7, <1>8, <1>9, <1>10, <1>11, <1>12, <1>13, <1>14,
     <1>15, <1>16, <1>17, <1>18, <1>19, <1>20, <1>21, <1>22, <1>23, <1>24, <1>25, <1>26, <1>27,
     <1>28, <1>29, <1>30, <1>31, <1>32, <1>33, <1>34, <1>35, <1>36 DEF Next, Operator, Walk

\* The only steps that create a tag.
LEMMA TagStep ==
    Next => \/ UNCHANGED tagVars /\ (UNCHANGED green \/ Verify)
            \/ \E t \in Tags : Tag(t) \/ PushTag(t)
            \/ \E v \in Version, t \in Tags : StrayTag(v, t)
<1> SUFFICES ASSUME Next,
                    ~\E t \in Tags : Tag(t) \/ PushTag(t),
                    ~\E v \in Version, t \in Tags : StrayTag(v, t)
             PROVE  UNCHANGED tagVars /\ (UNCHANGED green \/ Verify)
  OBVIOUS
<1> USE DEF ciVars
<1>1. CASE EnterFresh \/ EnterResume \/ Abandon \/ StepError \/ Crash
  BY <1>1 DEF EnterFresh, EnterResume, Enter, Abandon, StepError, Crash
<1>2. CASE \/ Validate \/ Begin \/ Adopt \/ EntryGuard \/ Bump \/ Advance \/ Record
           \/ Discard \/ Clear \/ Candidate \/ Judge \/ Push \/ Dispatch
  BY <1>2 DEF Validate, Begin, Adopt, EntryGuard, Bump, Advance, Record, Discard,
     Clear, Candidate, Judge, Push, Dispatch, OriginTakes, OriginUnmoved
<1>3. CASE \/ Verify \/ Gate \/ Skip \/ FinalizeChangelog \/ Archive \/ AllTagged
           \/ PushBranch \/ AllTagsPushed
  BY <1>3 DEF Verify, Gate, Skip, FinalizeChangelog, Archive, AllTagged, PushBranch,
     AllTagsPushed, OriginTakes, OriginUnmoved, tagVars
<1>4. CASE \/ GitHubRelease \/ PublishPipelines \/ Deploy \/ PostReleaseHooks \/ Epilogue
           \/ CommitAbandoned \/ DropState
  BY <1>4 DEF GitHubRelease, PublishPipelines, Deploy, PostReleaseHooks, Epilogue,
     CommitAbandoned, DropState, tagVars
<1>5. CASE \/ \E k \in ForeignKinds : CommitOnBranch(k) \/ CommitOnOrigin(k)
           \/ ChangelogAdd \/ Pull
  BY <1>5 DEF CommitOnBranch, CommitOnOrigin, ChangelogAdd, Pull, EnvOnly, tagVars
<1> QED  BY <1>1, <1>2, <1>3, <1>4, <1>5 DEF Next, Operator, Walk, Env

\* A step tags nothing but a verified candidate.
LEMMA TagVerifiedKept ==
    ASSUME Structure, PushCI, Green, TagVerified, Next
    PROVE  TagVerified'
<1>t. ltag \in [Version -> [Tags -> Nat]] /\ otag \in [Version -> [Tags -> Nat]]
  BY DEF Structure, TypeOK, Outside
<1>u. ASSUME UNCHANGED tagVars, green \subseteq green' PROVE TagVerified'
  BY <1>u DEF TagVerified, tagVars
\* A tag put on a commit CI passed on.
<1>g. ASSUME NEW w, NEW u \in Tags, NEW c \in green, UNCHANGED green,
             ltag' \in {ltag, [ltag EXCEPT ![w][u] = c]},
             otag' \in {otag, [otag EXCEPT ![w][u] = c]}
      PROVE  TagVerified'
  <2> SUFFICES ASSUME NEW v \in Version, NEW t \in Tags
               PROVE  {ltag'[v][t], otag'[v][t]} \subseteq green' \cup {NoCommit}
    BY DEF TagVerified
  <2>1. {ltag[v][t], otag[v][t]} \subseteq green \cup {NoCommit}  BY DEF TagVerified
  <2>2. ltag'[v][t] \in {ltag[v][t], c} /\ otag'[v][t] \in {otag[v][t], c}  BY <1>t, <1>g
  <2> QED  BY <1>g, <2>1, <2>2
<1>1. ASSUME NEW t \in Tags, Tag(t) PROVE TagVerified'
  <2>1. cand \in green  BY <1>1 DEF Tag, At, Green
  <2>2. ltag' \in {ltag, [ltag EXCEPT ![st.ver][t] = cand]} /\ UNCHANGED <<otag, green>>
    BY <1>1 DEF Tag, ciVars
  <2> QED  BY <1>g, <2>1, <2>2
<1>2. ASSUME NEW t \in Tags, PushTag(t) PROVE TagVerified'
  <2>1. cand \in green  BY <1>2 DEF PushTag, Green
  <2>2. otag' \in {otag, [otag EXCEPT ![st.ver][t] = cand]} /\ UNCHANGED <<ltag, green>>
    BY <1>2 DEF PushTag, ciVars
  <2> QED  BY <1>g, <2>1, <2>2
<1>3. ASSUME NEW v \in Version, NEW t \in Tags, StrayTag(v, t) PROVE TagVerified'
  <2>1. 1 \in green /\ otag' = [otag EXCEPT ![v][t] = 1] /\ UNCHANGED <<ltag, green>>
    BY <1>3 DEF StrayTag, Green, ciVars
  <2> QED  BY <1>g, <2>1
<1>4. CASE UNCHANGED tagVars /\ (UNCHANGED green \/ Verify)  BY <1>u, <1>4 DEF Verify
<1> QED  BY <1>1, <1>2, <1>3, <1>4, TagStep

\* The inductive invariant of the verdicts holds.
LEMMA VerifiedHolds == Spec => []Verified
<1>1. Init => Verified
  <2> SUFFICES ASSUME Init PROVE Verified  OBVIOUS
  <2>1. Structure  BY InitStructure
  <2>2. Placed  BY DEF Init, Placed
  <2>3. Green  BY DEF Init, Green, NoState
  <2>4. TagVerified  BY DEF Init, TagVerified, NoCommit
  <2> QED  BY <2>1, <2>2, <2>3, <2>4 DEF Verified
<1>2. Verified /\ Structure' /\ [Next]_vars => Verified'
  <2> SUFFICES ASSUME Verified, Structure', [Next]_vars PROVE Verified'  OBVIOUS
  <2>1. CASE Next
    <3>1. Placed'  BY <2>1, PlacedKept DEF Verified
    <3>2. PushCI => Green' /\ TagVerified'  BY <2>1, GreenKept, TagVerifiedKept DEF Verified
    <3> QED  BY <3>1, <3>2 DEF Verified
  <2>2. CASE UNCHANGED vars
    <3>1. Placed' /\ (Green => Green') /\ (TagVerified => TagVerified')
      BY <2>2 DEF vars, procVars, Verified, Placed, Green, TagVerified
    <3> QED  BY <3>1 DEF Verified
  <2> QED  BY <2>1, <2>2
<1> QED  BY <1>1, <1>2, StructureHolds, PTL DEF Spec

\* Every tag of every version, here and on origin, is on a commit a release
\* saw CI pass on, through crashes, discards, resumes and adoptions.
THEOREM TagsAreVerified == Spec => []TagVerified
<1>1. Verified => TagVerified  BY DEF Verified, TagVerified
<1> QED  BY <1>1, VerifiedHolds, PTL

-----------------------------------------------------------------------------
(* What a step never does. *)

\* The only steps that move origin's branch.
LEMMA OriginStep ==
    Next => \/ UNCHANGED origin
            \/ Push \/ PushBranch
            \/ \E k \in ForeignKinds : CommitOnOrigin(k)
<1> SUFFICES ASSUME Next, ~Push, ~PushBranch,
                    ~\E k \in ForeignKinds : CommitOnOrigin(k)
             PROVE  UNCHANGED origin
  OBVIOUS
<1> USE DEF repoVars
<1>1. CASE EnterFresh \/ EnterResume \/ Abandon \/ StepError \/ Crash
  BY <1>1 DEF EnterFresh, EnterResume, Enter, Abandon, StepError, Crash
<1>2. CASE \/ Validate \/ Begin \/ Adopt \/ EntryGuard \/ Bump \/ Advance \/ Record
           \/ Discard \/ Clear \/ Candidate \/ Judge \/ Dispatch \/ Verify
  BY <1>2 DEF Validate, Begin, Adopt, EntryGuard, Bump, Advance, Record, Discard,
     Clear, Candidate, Judge, Dispatch, Verify
<1>3. CASE \/ Gate \/ Skip \/ FinalizeChangelog \/ Archive \/ AllTagged
           \/ AllTagsPushed \/ GitHubRelease \/ PublishPipelines \/ Deploy
           \/ PostReleaseHooks \/ Epilogue \/ CommitAbandoned \/ DropState
  BY <1>3 DEF Gate, Skip, FinalizeChangelog, Archive, AllTagged, AllTagsPushed,
     GitHubRelease, PublishPipelines, Deploy, PostReleaseHooks, Epilogue, CommitAbandoned,
     DropState
<1>4. ASSUME NEW t \in Tags, Tag(t) \/ PushTag(t) PROVE UNCHANGED origin
  BY <1>4 DEF Tag, PushTag
<1>5. CASE Env  BY <1>5 DEF Env, CommitOnBranch, ChangelogAdd, Pull, StrayTag
<1> QED  BY <1>1, <1>2, <1>3, <1>4, <1>5 DEF Next, Operator, Walk

\* A step neither moves nor deletes a tag.
LEMMA TagsStay ==
    Structure /\ [Next]_vars =>
        \A v \in Version, t \in Tags :
            /\ ltag[v][t] # NoCommit => ltag'[v][t] = ltag[v][t]
            /\ otag[v][t] # NoCommit => otag'[v][t] = otag[v][t]
<1> SUFFICES ASSUME Structure, [Next]_vars, NEW v \in Version, NEW t \in Tags
             PROVE  /\ ltag[v][t] # NoCommit => ltag'[v][t] = ltag[v][t]
                    /\ otag[v][t] # NoCommit => otag'[v][t] = otag[v][t]
  OBVIOUS
<1>t. ltag \in [Version -> [Tags -> Nat]] /\ otag \in [Version -> [Tags -> Nat]]
  BY DEF Structure, TypeOK, Outside
<1>1. CASE UNCHANGED tagVars \/ UNCHANGED vars  BY <1>1 DEF tagVars, vars
<1>2. ASSUME NEW u \in Tags, Tag(u) \/ PushTag(u)
      PROVE  /\ ltag[v][t] # NoCommit => ltag'[v][t] = ltag[v][t]
             /\ otag[v][t] # NoCommit => otag'[v][t] = otag[v][t]
  BY <1>t, <1>2 DEF Tag, PushTag, Leased
<1>3. ASSUME NEW w \in Version, NEW u \in Tags, StrayTag(w, u)
      PROVE  /\ ltag[v][t] # NoCommit => ltag'[v][t] = ltag[v][t]
             /\ otag[v][t] # NoCommit => otag'[v][t] = otag[v][t]
  BY <1>t, <1>3 DEF StrayTag
<1> QED  BY <1>1, <1>2, <1>3, TagStep

\* A tag, once created here or on origin, is never moved or deleted, by a
\* release, its resumes, an abandon or anybody else.
THEOREM TagsAreFixed == Spec => TagsNeverMove
BY TagsStay, StructureHolds, PTL DEF Spec, TagsNeverMove

\* A step leaves on origin's branch what it held.
LEMMA OriginGrows ==
    ASSUME Structure, [Next]_vars
    PROVE  origin \in Anc(origin)'
<1>o. origin \in Commits /\ branch \in Commits /\ origin \in Anc(origin)
  BY DEF Structure, RefsOK, LogOK
<1>1. CASE UNCHANGED vars  BY <1>o, <1>1 DEF vars, Anc
<1>2. ASSUME Next, UNCHANGED origin PROVE origin \in Anc(origin)'
  BY <1>o, <1>2, LogKept DEF LogGrows, Anc
<1>3. CASE Push \/ PushBranch
  BY <1>o, <1>3, <1>2 DEF Push, PushBranch, OriginTakes, OriginUnmoved, IsAncestor, Anc,
     repoVars, Next, Walk
<1>4. ASSUME NEW k \in ForeignKinds, CommitOnOrigin(k) PROVE origin \in Anc(origin)'
  <2>1. /\ k \in Kinds /\ 0 \in 0..MaxVersion /\ NoCommit \in Nat
        /\ log' = Extend({origin}, k, 0, NoCommit) /\ origin' = Next1
    BY <1>4, ReleaseAssumption DEF Kinds, NoCommit, CommitOnOrigin
  <2>2. Anc(origin) \subseteq log'[Next1].anc  BY <1>o, <2>1, Extending DEF Structure
  <2> QED  BY <1>o, <2>1, <2>2 DEF Anc
<1> QED  BY <1>1, <1>2, <1>3, <1>4, OriginStep

\* Origin's branch only fast-forwards, however the candidate's push, the push
\* of the finalization commits and other people's pushes interleave.
THEOREM OriginOnlyFastForwards == Spec => OriginFastForwards
BY OriginGrows, StructureHolds, PTL DEF Spec, OriginFastForwards

-----------------------------------------------------------------------------
(* What the durable state records as completed was done. *)

\* Every step keeps histories closed.
LEMMA ClosedKept ==
    ASSUME Structure, LogClosed, Next
    PROVE  LogClosed'
<1>t. log \in Seq(CommitRecord) /\ Len(log) \in Nat /\ LogOK
  BY DEF Structure, TypeOK, Repository
<1>1. CASE UNCHANGED log  BY <1>1 DEF LogClosed, Commits, Anc
<1>2. ASSUME NEW P \in SUBSET Commits, NEW k \in Kinds, NEW v \in 0..MaxVersion, NEW c \in Nat,
             log' = Extend(P, k, v, c)
      PROVE  LogClosed'
  <2> DEFINE anc == (UNION {Anc(p) : p \in P}) \cup {Next1}
  <2>1. log' = Append(log, [anc |-> anc, kind |-> k, ver |-> v, of |-> c]) /\ Next1 = Len(log) + 1
    BY <1>2 DEF Extend, Next1
  <2>2. \A p \in P : Anc(p) \subseteq Commits /\ \A d \in Anc(p) : Anc(d) \subseteq Anc(p)
    BY <1>t DEF LogOK, LogClosed, Commits
  <2>3. \A d \in anc : d = Next1 \/ (d \in Commits /\ Anc(d) \subseteq anc)  BY <2>2
  <2> DEFINE rec == [anc |-> anc, kind |-> k, ver |-> v, of |-> c]
  <2>a. rec.anc = anc  OBVIOUS
  <2> HIDE DEF anc, rec
  <2>b. PICK m : m = Next1  OBVIOUS
  <2>c. log' = Append(log, rec)  BY <2>1 DEF rec
  <2>d. Len(log') = m /\ log'[m] = rec /\ \A d \in Commits : log'[d] = log[d]
    BY <1>t, <2>1, <2>b, <2>c DEF Commits
  <2>e. Commits' = Commits \cup {m}  BY <1>t, <2>1, <2>b, <2>d DEF Commits
  <2>4. /\ Anc(m)' = anc
        /\ \A d \in Commits : Anc(d)' = Anc(d) /\ Anc(d) \subseteq Commits
    BY <1>t, <2>a, <2>d DEF Commits, Anc, LogOK
  <2>5. \A d \in anc : Anc(d)' \subseteq anc  BY <2>3, <2>4, <2>b
  <2>6. \A b \in Commits : \A d \in Anc(b) : Anc(d)' \subseteq Anc(b)'
    BY <2>4 DEF LogClosed
  <2> QED  BY <2>4, <2>5, <2>6, <2>e DEF LogClosed
<1> QED  BY <1>1, <1>2, LogStep

\* Every step keeps archives naming commits.
LEMMA ArchivesKept ==
    ASSUME Structure, ArchivesName, Bumped, Next
    PROVE  ArchivesName'
<1>t. log \in Seq(CommitRecord) /\ Len(log) \in Nat  BY DEF Structure, TypeOK, Repository
<1>1. CASE UNCHANGED log  BY <1>1 DEF ArchivesName, Commits
<1>2. ASSUME NEW P \in SUBSET Commits, NEW k \in Kinds, NEW v \in 0..MaxVersion, NEW c \in Nat,
             log' = Extend(P, k, v, c), k = "archive" => At(ReleaseArchived) /\ c = cand
      PROVE  ArchivesName'
  <2>1. k = "archive" => c # NoCommit  BY <1>2 DEF Bumped, At, Commits, NoCommit
  <2> DEFINE anc == (UNION {Anc(p) : p \in P}) \cup {Len(log) + 1}
  <2>2. log' = Append(log, [anc |-> anc, kind |-> k, ver |-> v, of |-> c])
    BY <1>2 DEF Extend
  <2> HIDE DEF anc
  <2> QED  BY <1>t, <2>1, <2>2 DEF ArchivesName, Commits
<1> QED  BY <1>1, <1>2, LogStep

\* What a commit's history holds, every later one's holds that has it.
LEMMA HasStays ==
    ASSUME LogOK, LogClosed', LogGrows, Len(log) \in Nat, Len(log') \in Nat,
           NEW c \in Commits, NEW d \in Commits', c \in Anc(d)', NEW k, NEW v, Has(c, k, v)
    PROVE  Has(d, k, v)'
<1>1. PICK b \in Anc(c) : log[b].kind = k /\ log[b].ver = v  BY DEF Has, Of
<1>2. b \in Commits /\ Anc(c)' = Anc(c)  BY DEF LogOK, LogGrows, Commits, Anc
<1>3. b \in Anc(d)' /\ log'[b] = log[b]  BY <1>2 DEF LogClosed, LogGrows
<1> QED  BY <1>1, <1>3 DEF Has, Of

\* A commit made on head says what it is, and holds head.
LEMMA NewCommit ==
    ASSUME Structure, head \in Commits, NEW k \in Kinds, NEW c \in Nat, NEW v \in 0..MaxVersion,
           log' = Extend({head}, k, v, c), head' = Next1
    PROVE  Has(head, k, v)' /\ Anc(head) \subseteq Anc(head)'
<1>1. log' \in Seq(CommitRecord) /\ head' \in Commits' /\ LogOK' /\ Anc(head) \subseteq log'[head'].anc
  BY Extending DEF Structure
<1>2. log \in Seq(CommitRecord)  BY DEF Structure, TypeOK, Repository
<1> DEFINE anc == (UNION {Anc(p) : p \in {head}}) \cup {Len(log) + 1}
<1>3. log' = Append(log, [anc |-> anc, kind |-> k, ver |-> v, of |-> c])  BY DEF Extend
<1> HIDE DEF anc
<1>4. log'[head'].kind = k /\ log'[head'].ver = v  BY <1>2, <1>3 DEF Next1
<1>5. head' \in Anc(head)'  BY <1>1 DEF LogOK
<1> QED  BY <1>1, <1>4, <1>5 DEF Has, Of, Anc

\* A commit that has an archive of a version tells which commit it names.
LEMMA ArchivedNames ==
    ASSUME LogOK, ArchivesName, NEW c \in Commits, NEW v
    PROVE  ArchivedAt(c, v) # NoCommit <=> Has(c, "archive", v)
<1>1. CASE ~Has(c, "archive", v)  BY <1>1 DEF ArchivedAt
<1>2. CASE Has(c, "archive", v)
  <2>1. (CHOOSE d \in Of(c, "archive", v) : TRUE) \in Of(c, "archive", v)
    BY <1>2 DEF Has, Of
  <2>2. \A d \in Of(c, "archive", v) : d \in Commits /\ log[d].kind = "archive"
    BY DEF Of, LogOK, Commits
  <2> QED  BY <1>2, <2>1, <2>2 DEF ArchivedAt, ArchivesName
<1> QED  BY <1>1, <1>2

\* The only steps that publish, deploy or write a Release, and all a step
\* does to them.
LEMMA OutStep ==
    Next => UNCHANGED outVars \/ GitHubRelease \/ PublishPipelines \/ Deploy
<1> SUFFICES ASSUME Next, ~GitHubRelease, ~PublishPipelines, ~Deploy PROVE UNCHANGED outVars
  OBVIOUS
<1>1. CASE EnterFresh \/ EnterResume \/ Abandon \/ StepError \/ Crash
  BY <1>1 DEF EnterFresh, EnterResume, Enter, Abandon, StepError, Crash
<1>2. CASE \/ Validate \/ Begin \/ Adopt \/ EntryGuard \/ Bump \/ Advance \/ Record
           \/ Discard \/ Clear \/ Candidate \/ Judge \/ Push \/ Dispatch \/ Verify
  BY <1>2 DEF Validate, Begin, Adopt, EntryGuard, Bump, Advance, Record, Discard,
     Clear, Candidate, Judge, Push, Dispatch, Verify
<1>3. CASE \/ Gate \/ Skip \/ FinalizeChangelog \/ Archive \/ AllTagged \/ PushBranch
           \/ AllTagsPushed \/ PostReleaseHooks \/ Epilogue \/ CommitAbandoned \/ DropState
  BY <1>3 DEF Gate, Skip, FinalizeChangelog, Archive, AllTagged, PushBranch,
     AllTagsPushed, PostReleaseHooks, Epilogue, CommitAbandoned, DropState
<1>4. ASSUME NEW t \in Tags, Tag(t) \/ PushTag(t) PROVE UNCHANGED outVars
  BY <1>4 DEF Tag, PushTag
<1>5. CASE Env
  BY <1>5 DEF Env, CommitOnBranch, CommitOnOrigin, ChangelogAdd, Pull, StrayTag, EnvOnly
<1> QED  BY <1>1, <1>2, <1>3, <1>4, <1>5 DEF Next, Operator, Walk

\* Every step leaves in place what a record of a step rests on.
LEMMA WorldKept ==
    ASSUME Structure, Next
    PROVE  WorldGrows
<1>1. LogGrows  BY LogKept
<1>2. origin \in Anc(origin)'  BY OriginGrows
<1>3. \A v \in Version, t \in Tags :
          /\ ltag[v][t] # NoCommit => ltag'[v][t] # NoCommit
          /\ otag[v][t] # NoCommit => otag'[v][t] # NoCommit
  BY TagsStay
<1>4. \A v \in Version :
          /\ grel[v] # NoCommit => grel'[v] # NoCommit
          /\ pub[v] # NoCommit => pub'[v] # NoCommit
          /\ dep[v] # NoCommit => dep'[v] # NoCommit
  <2>t. /\ grel \in [Version -> Nat] /\ pub \in [Version -> Nat] /\ dep \in [Version -> Nat]
        /\ pc = "walk" => head \in Commits
    BY DEF Structure, TypeOK, Outside, RefsOK, Walking, Places
  <2>1. CASE UNCHANGED outVars  BY <2>1 DEF outVars
  <2>2. CASE GitHubRelease  BY <2>t, <2>2 DEF GitHubRelease, At
  <2>3. CASE PublishPipelines \/ Deploy
    BY <2>t, <2>3 DEF PublishPipelines, Deploy, At, Commits, NoCommit
  <2> QED  BY <2>1, <2>2, <2>3, OutStep
<1> QED  BY <1>1, <1>2, <1>3, <1>4 DEF WorldGrows

\* A step that had its effect keeps it, for the same release, on every commit
\* that holds the one it was had at.
LEMMA EffectStays ==
    ASSUME Structure, Structure', LogClosed', WorldGrows,
           NEW n, NEW s \in State, NEW r \in State, NEW c \in Commits, NEW d \in Commits',
           c \in Anc(d)', r.ver = s.ver, n = CIVerified => r.rc = s.rc,
           Effect(n, s, c)
    PROVE  Effect(n, r, d)'
<1> SUFFICES ASSUME s.ver # 0 PROVE Effect(n, r, d)'  BY DEF Effect
<1>t. /\ LogOK /\ LogOK' /\ LogGrows /\ Len(log) \in Nat /\ Len(log') \in Nat
      /\ s.ver \in Version /\ origin \in Commits /\ origin' \in Commits' /\ origin \in Anc(origin)'
      /\ Commits \subseteq Commits'
  <2>1. LogOK /\ LogOK' /\ LogGrows /\ origin \in Anc(origin)'  BY DEF Structure, WorldGrows
  <2>2. origin \in Commits /\ origin' \in Commits'  BY DEF Structure, RefsOK
  <2>3. Len(log) \in Nat /\ Len(log') \in Nat  BY DEF Structure, TypeOK, Repository
  <2>4. Commits \subseteq Commits'  BY <2>1, <2>3 DEF LogGrows, Commits
  <2>5. s.ver \in Version  BY ReleaseAssumption DEF State, Version
  <2> QED  BY <2>1, <2>2, <2>3, <2>4, <2>5
<1> DEFINE v == s.ver
<1>1. Has(c, "bump", v) => Has(d, "bump", v)'  BY <1>t, HasStays
<1>2. Has(origin, "bump", v) => Has(origin, "bump", v)'
  <2> DEFINE o == origin'
  <2>1. ASSUME NEW a \in Commits, NEW b \in Commits', a \in Anc(b)', Has(a, "bump", v)
        PROVE  Has(b, "bump", v)'
    BY <1>t, <2>1, HasStays
  <2>2. \A a \in Commits, b \in Commits' : a \in Anc(b)' /\ Has(a, "bump", v) => Has(b, "bump", v)'
    BY <2>1
  <2> QED  BY <1>t, <2>2
<1>3. ASSUME n = CIVerified, s.rc \in Commits, Has(s.rc, "bump", v)
      PROVE  r.rc \in Commits' /\ Has(r.rc, "bump", v)'
  <2>1. r.rc \in Commits' /\ r.rc \in Anc(r.rc)' /\ r.rc = s.rc  BY <1>t, <1>3 DEF LogOK
  <2> QED  BY <1>t, <1>3, <2>1, HasStays
<1>4. Has(c, "finalize", v) => Has(d, "finalize", v)'  BY <1>t, HasStays
<1>5. Has(c, "archive", v) => Has(d, "archive", v)'  BY <1>t, HasStays
<1>6. /\ \A t \in Tags : /\ ltag[v][t] # NoCommit => ltag'[v][t] # NoCommit
                         /\ otag[v][t] # NoCommit => otag'[v][t] # NoCommit
      /\ grel[v] # NoCommit => grel'[v] # NoCommit
      /\ pub[v] # NoCommit => pub'[v] # NoCommit
      /\ dep[v] # NoCommit => dep'[v] # NoCommit
  BY <1>t DEF WorldGrows
<1> HIDE DEF v
<1> QED  BY <1>1, <1>2, <1>3, <1>4, <1>5, <1>6 DEF Effect, v

\* A nonempty set of naturals has a least element.
LEMMA Least == ASSUME NEW T \in SUBSET Nat, T # {} PROVE \E x \in T : \A y \in T : x <= y
<1>1. PICK x \in T : \A y \in T : ~(<<y, x>> \in OpToRel(<, Nat))
  BY NatLessThanWellFounded, WFMin
<1>2. \A y, z \in Nat : y < z => <<y, z>> \in OpToRel(<, Nat)  BY DEF OpToRel
<1>3. ASSUME NEW y \in T PROVE x <= y
  <2>1. y \in Nat /\ x \in Nat  OBVIOUS
  <2>2. ~(y < x)  BY <2>1, <1>1, <1>2, Zenon
  <2> QED  BY <2>1, <2>2
<1> QED  BY <1>3

\* A nonempty set of naturals with a bound has a greatest element.
LEMMA Greatest == ASSUME NEW n \in Nat, NEW T \in SUBSET (0..n), T # {}
                  PROVE  \E x \in T : \A y \in T : y <= x
<1> DEFINE U == {u \in 0..n : n - u \in T}
<1>1. U \in SUBSET Nat  OBVIOUS
<1>a. U # {}
  <2>1. PICK x \in T : x \in 0..n  OBVIOUS
  <2>2. n - x \in 0..n /\ n - (n - x) = x  BY <2>1
  <2> QED  BY <2>1, <2>2
<1>2. PICK u \in U : \A w \in U : u <= w
  <2> HIDE DEF U
  <2> QED  BY <1>1, <1>a, Least
<1>3. ASSUME NEW y \in T PROVE y <= n - u
  <2>1. y \in 0..n /\ n - y \in 0..n /\ n - (n - y) = y  OBVIOUS
  <2>2. n - y \in U  BY <2>1
  <2>3. u <= n - y /\ u \in 0..n  BY <1>2, <2>2
  <2> QED  BY <2>1, <2>3
<1> QED  BY <1>2, <1>3

\* The version the version files name is that of the history's last bump.
LEMMA LastBump ==
    ASSUME NEW c
    PROVE  /\ VersionOf(c) \in 0..MaxVersion
           /\ VersionOf(c) = 0 \/ Has(c, "bump", VersionOf(c))
           /\ \A w \in VersionOf(c)+1..MaxVersion : ~Has(c, "bump", w)
<1> DEFINE T == {0} \cup {v \in Version : Has(c, "bump", v)}
<1>m. MaxVersion \in Nat \ {0}  BY ReleaseAssumption
<1>1. T \in SUBSET (0..MaxVersion) /\ T # {}  BY <1>m DEF Version
<1>2. PICK v \in T : \A w \in T : w <= v
  <2> HIDE DEF T
  <2> QED  BY <1>m, <1>1, Greatest
<1>3. /\ v \in 0..MaxVersion
      /\ v = 0 \/ Has(c, "bump", v)
      /\ \A w \in v+1..MaxVersion : ~Has(c, "bump", w)
  BY <1>m, <1>1, <1>2 DEF Version
<1> QED  BY <1>3 DEF VersionOf

\* It is one a bump in the history made.
LEMMA BumpNames ==
    ASSUME NEW c, VersionOf(c) \in Version
    PROVE  Has(c, "bump", VersionOf(c))
BY LastBump, ReleaseAssumption DEF Version

\* No step but a discard takes anything off the branch.
LEMMA BranchGrows ==
    ASSUME Structure, LogClosed, Position, Next, ~Discard
    PROVE  branch \in Anc(branch)'
<1>t. /\ branch \in Commits /\ origin \in Commits /\ LogGrows /\ LogOK /\ ReleaseAssumption
      /\ pc \in Walking => head \in Commits /\ tip \in Commits
  BY LogKept, ReleaseAssumption DEF Structure, RefsOK
<1>k. \A c, d \in Commits : c \in Anc(d) => c \in Anc(d)'  BY <1>t DEF LogGrows, Anc
<1>0. CASE UNCHANGED branch  BY <1>t, <1>k, <1>0 DEF LogOK, Anc, LogGrows
<1>1. CASE Advance
  <2>1. branch' = branch \/ (branch = tip /\ branch' = head /\ pc = "advance")
    BY <1>1 DEF Advance
  <2>2. UNCHANGED log  BY <1>1 DEF Advance
  <2>3. pc = "advance" => tip \in Anc(head) /\ head \in Commits
    BY <1>t DEF Position, Walking, Places
  <2> QED  BY <1>0, <2>1, <2>2, <2>3 DEF Anc
<1>2. ASSUME NEW P \in SUBSET Commits, branch \in P, NEW k \in Kinds, NEW v \in 0..MaxVersion,
             log' = Extend(P, k, v, NoCommit), branch' = Next1
      PROVE  branch \in Anc(branch)'
  <2>1. NoCommit \in Nat  BY DEF NoCommit
  <2>2. Anc(branch) \subseteq log'[Next1].anc  BY <1>2, <2>1, Extending DEF Structure
  <2> QED  BY <1>t, <1>2, <2>2 DEF LogOK, Anc
<1>v. 0 \in 0..MaxVersion /\ loose \in 0..MaxVersion
  BY <1>t DEF ReleaseAssumption, Structure, TypeOK, Outside
<1>3. CASE CommitAbandoned  BY <1>t, <1>v, <1>2, <1>3 DEF CommitAbandoned, Kinds
<1>4. CASE Env
  <2>1. ASSUME NEW k \in ForeignKinds, CommitOnBranch(k) PROVE branch \in Anc(branch)'
    BY <1>t, <1>v, <1>2, <2>1 DEF CommitOnBranch, Kinds, ReleaseAssumption
  <2>2. CASE ChangelogAdd  BY <1>t, <1>v, <1>2, <2>2 DEF ChangelogAdd, Kinds
  <2>3. CASE Pull  BY <1>t, <1>v, <1>2, <2>3 DEF Pull, Kinds, IsAncestor, Anc
  <2>4. ASSUME ~\E k \in ForeignKinds : CommitOnBranch(k), ~ChangelogAdd, ~Pull
        PROVE  UNCHANGED branch
    BY <1>4, <2>4 DEF Env, CommitOnOrigin, StrayTag, repoVars
  <2> QED  BY <1>0, <2>1, <2>2, <2>3, <2>4
<1>5. CASE EnterFresh \/ EnterResume \/ Abandon \/ StepError \/ Crash
  BY <1>0, <1>5 DEF EnterFresh, EnterResume, Enter, Abandon, StepError, Crash, repoVars
<1>6. CASE \/ Validate \/ Begin \/ Adopt \/ EntryGuard \/ Bump \/ Record
           \/ Clear \/ Candidate \/ Judge \/ Dispatch \/ Verify
  BY <1>0, <1>6 DEF Validate, Begin, Adopt, EntryGuard, Bump, Record,
     Clear, Candidate, Judge, Dispatch, Verify, repoVars
<1>7. CASE \/ Push \/ Gate \/ Skip \/ FinalizeChangelog \/ Archive \/ AllTagged
           \/ PushBranch \/ AllTagsPushed \/ GitHubRelease \/ PublishPipelines \/ Deploy
           \/ PostReleaseHooks \/ Epilogue \/ DropState
  <2>1. UNCHANGED branch
    BY <1>7 DEF Push, Gate, Skip, FinalizeChangelog, Archive, AllTagged, PushBranch,
       AllTagsPushed, GitHubRelease, PublishPipelines, Deploy, PostReleaseHooks, Epilogue,
       DropState, OriginTakes, OriginUnmoved, repoVars
  <2> QED  BY <1>0, <2>1
<1>8. ASSUME NEW t \in Tags, Tag(t) \/ PushTag(t) PROVE branch \in Anc(branch)'
  BY <1>0, <1>8 DEF Tag, PushTag, repoVars
<1> QED  BY <1>1, <1>3, <1>4, <1>5, <1>6, <1>7, <1>8 DEF Next, Operator, Walk

\* Every step keeps the release checkout and the branch where they belong.
LEMMA PositionKept ==
    ASSUME Structure, LogClosed, Position, Next
    PROVE  Position'
<1> USE DEF Walking, Places
<1>g. LogClosed' /\ LogGrows /\ LogOK'  BY ClosedKept, LogKept
<1>t. /\ branch \in Commits /\ LogOK /\ Memory /\ branch' \in Commits' /\ step \in Steps
      /\ pc \in Walking => head \in Commits /\ tip \in Commits
      /\ last \in Commits \cup {NoCommit}
      /\ pc' \in Walking => head' \in Commits'
  BY RefsKept DEF Structure, RefsOK, TypeOK, Memory
<1>k. \A c, d \in Commits : c \in Anc(d) => c \in Anc(d)'  BY <1>g DEF LogGrows, Anc
<1>p. /\ pc \in Walking =>
            /\ tip \in Anc(branch) /\ tip \in Anc(head)
            /\ pc \notin {"advance", "discard", "clear"} => head = tip
            /\ last # NoCommit => last \in Anc(tip)
      /\ pc \notin Walking \/ pc = "entered" => last = NoCommit /\ entry = NoState
  BY DEF Position
<1>b. ~Discard /\ pc \in Walking => tip \in Anc(branch)'
  <2>1. ASSUME ~Discard, pc \in Walking PROVE tip \in Anc(branch)'
    <3>1. branch \in Anc(branch)'  BY <2>1, BranchGrows
    <3>2. Anc(branch)' = Anc(branch)' /\ log'[branch].anc \subseteq Anc(branch)'
      BY <1>g, <1>t, <3>1 DEF LogClosed, Anc
    <3>3. tip \in log'[branch].anc  BY <1>t, <1>p, <1>g, <2>1 DEF Anc, LogGrows
    <3> QED  BY <3>2, <3>3
  <2> QED  BY <2>1
\* A step that moves neither the checkout nor what the release remembers of it.
<1>q. ASSUME ~Discard, UNCHANGED <<tip, head, last>>, pc \in Walking,
             pc' \in Walking \ {"entered"},
             \/ pc' \in {"advance", "discard", "clear"}
             \/ pc \notin {"advance", "discard", "clear"}
             \/ head = tip
      PROVE  Position'
  BY <1>b, <1>k, <1>p, <1>q, <1>t DEF Position
<1>e. ASSUME Stopped PROVE Position'  BY <1>e DEF Position, Stopped
<1>s. ASSUME ~Discard, NEW n \in Steps, NEW k, NEW tried, Stop(n, k, tried), pc \in Walking
      PROVE  Position'
  BY <1>q, <1>e, <1>s DEF Stop, Goto
<1>i. ASSUME UNCHANGED <<last, entry>>, pc \notin Walking, pc' \notin Walking PROVE Position'
  BY <1>i, <1>p DEF Position
<1>c. /\ VersionBumped \in Steps /\ CandidatePushed \in Steps /\ CIVerified \in Steps
      /\ ChangelogFinalized \in Steps
  BY DEF Steps, VersionBumped, CandidatePushed, CIVerified, ChangelogFinalized
<1>1. CASE EnterFresh \/ EnterResume
  <2>1. /\ pc = "idle" /\ pc' = "entered" /\ tip' = branch /\ head' = branch /\ last' = last
        /\ UNCHANGED <<branch, log, entry>>
    BY <1>1 DEF EnterFresh, EnterResume, Enter, repoVars
  <2> QED  BY <1>t, <1>p, <2>1 DEF Position, LogOK, Anc
<1>2. CASE Abandon  BY <1>i, <1>2 DEF Abandon
<1>3. CASE Validate  BY <1>e, <1>q, <1>3 DEF Validate, Goto, Discard
<1>4. CASE Begin  BY <1>e, <1>q, <1>4 DEF Begin, Goto, Discard
<1>5. CASE Adopt  BY <1>e, <1>q, <1>5 DEF Adopt, Discard
<1>6. CASE EntryGuard  BY <1>c, <1>s, <1>q, <1>6 DEF EntryGuard, Goto, Discard
<1>n. ASSUME ~Discard, pc \in {"bump", "walk"}, NEW k \in Kinds, NEW c \in Nat,
             log' = Extend({head}, k, st.ver, c), head' = Next1, pc' = "advance",
             UNCHANGED <<tip, last>>
      PROVE  Position'
  <2>1. st.ver \in 0..MaxVersion /\ head \in Commits  BY <1>t, <1>n DEF Memory, State
  <2>2. Anc(head) \subseteq Anc(head)'  BY <1>n, <2>1, NewCommit
  <2> QED  BY <1>b, <1>k, <1>p, <1>n, <1>t, <2>2 DEF Position
<1>7. CASE Bump
  <2>1. CASE /\ log' = Extend({head}, "bump", st.ver, NoCommit) /\ head' = Next1
             /\ pc' = "advance" /\ UNCHANGED <<tip, last>>
    BY <1>n, <1>7, <2>1 DEF Bump, Kinds, NoCommit, Discard
  <2>2. CASE UNCHANGED repoVars /\ head' = head  BY <1>q, <1>7, <2>2 DEF Bump, Discard
  <2> QED  BY <1>7, <2>1, <2>2 DEF Bump
<1>8. CASE Advance
  <2>1. CASE \E n \in Steps : \E k, tried : Stop(n, k, tried)
    BY <1>s, <1>8, <2>1 DEF Advance, Discard
  <2>2. CASE head = tip /\ Goto("record")  BY <1>q, <1>8, <2>2 DEF Advance, Goto, Discard
  <2>3. CASE /\ branch = tip /\ branch' = head /\ tip' = head /\ last' = tip
             /\ head' = head /\ pc' = "record"
    <3>1. UNCHANGED log /\ pc = "advance"  BY <1>8 DEF Advance
    <3>2. head \in Anc(head) /\ tip \in Anc(head)  BY <1>t, <1>p, <3>1 DEF LogOK
    <3> QED  BY <1>t, <2>3, <3>1, <3>2 DEF Position, Anc
  <2> QED  BY <1>t, <1>8, <2>1, <2>2, <2>3, Zenon DEF Advance
<1>9. CASE Record  BY <1>q, <1>9 DEF Record, Discard
<1>10. CASE Discard
  <2>0. pc = "discard" /\ UNCHANGED log  BY <1>10 DEF Discard
  <2>1. CASE Stopped  BY <1>e, <2>1
  <2>2. CASE Goto("clear") /\ UNCHANGED branch  BY <1>p, <2>0, <2>2 DEF Goto, Position, Anc
  <2>3. CASE /\ TakesBack /\ branch' = last /\ tip' = last /\ last' = NoCommit /\ pc' = "clear"
             /\ head' = head
    <3>1. last \in Commits /\ last \in Anc(last)  BY <1>t, <2>3 DEF TakesBack, LogOK
    <3>2. last \in Anc(tip) /\ tip \in Anc(head) /\ head \in Commits
      BY <1>t, <1>p, <2>0, <2>3 DEF TakesBack
    <3>3. last \in Anc(head)  BY <1>t, <3>2, <2>0 DEF LogClosed
    <3> QED  BY <2>0, <2>3, <3>1, <3>3 DEF Position, Anc
  <2> QED  BY <1>10, <2>1, <2>2, <2>3 DEF Discard
<1>11. CASE Clear  BY <1>e, <1>11 DEF Clear
<1>12. CASE Candidate  BY <1>q, <1>12 DEF Candidate, Discard
<1>13. CASE Judge
  <2>1. \/ \E n \in Steps : \E k, tried : Stop(n, k, tried)
        \/ pc' \in {"push", "record"} /\ UNCHANGED <<tip, head, last>>
    BY <1>13, <1>c, Zenon DEF Judge, Goto
  <2> QED  BY <1>13, <2>1, <1>s, <1>q DEF Judge, Discard
<1>14. CASE Push
  <2>1. \/ \E n \in Steps : \E k, tried : Stop(n, k, tried)
        \/ pc' = "record" /\ UNCHANGED <<tip, head, last>>
    BY <1>14, <1>c, Zenon DEF Push
  <2> QED  BY <1>14, <2>1, <1>s, <1>q DEF Push, Discard
<1>15. CASE Dispatch  BY <1>c, <1>s, <1>q, <1>15 DEF Dispatch, Goto, Discard
<1>16. CASE Verify  BY <1>c, <1>s, <1>q, <1>16 DEF Verify, Discard
<1>17. CASE Gate  BY <1>c, <1>s, <1>q, <1>17 DEF Gate, Discard
<1>18. CASE Skip  BY <1>q, <1>18 DEF Skip, Goto, Discard
<1>19. CASE FinalizeChangelog \/ Archive
  <2>1. pc = "walk" /\ ~Discard  BY <1>19 DEF FinalizeChangelog, Archive, At, Discard
  <2>2. CASE \E n \in Steps : \E k, tried : Stop(n, k, tried)  BY <1>s, <2>1, <2>2
  <2>3. CASE Goto("record")  BY <1>q, <2>1, <2>3 DEF Goto
  <2>4. CASE CommitAs("finalize", NoCommit) \/ CommitAs("archive", cand)
    BY <1>t, <1>n, <2>1, <2>4 DEF CommitAs, Kinds, NoCommit, Memory
  <2> QED  BY <1>t, <1>19, <2>2, <2>3, <2>4 DEF FinalizeChangelog, Archive, ReleaseCommit
<1>20. ASSUME NEW t \in Tags, Tag(t) \/ PushTag(t) PROVE Position'
  BY <1>t, <1>s, <1>q, <1>20 DEF Tag, PushTag, At, procVars, Discard
<1>21. CASE AllTagged \/ AllTagsPushed \/ PublishPipelines \/ Deploy
  BY <1>q, <1>21 DEF AllTagged, AllTagsPushed, PublishPipelines, Deploy, At, Goto, Discard
<1>22. CASE PushBranch
  <2>1. \/ \E n \in Steps : \E k, tried : Stop(n, k, tried)
        \/ pc' = "pushtags" /\ UNCHANGED <<tip, head, last>>
    BY <1>t, <1>22, Zenon DEF PushBranch
  <2> QED  BY <1>22, <2>1, <1>s, <1>q DEF PushBranch, At, Discard
<1>23. CASE GitHubRelease  BY <1>t, <1>s, <1>q, <1>23 DEF GitHubRelease, At, Goto, Discard
<1>24. CASE PostReleaseHooks  BY <1>q, <1>24 DEF PostReleaseHooks, At, Goto, Discard
<1>25. CASE Epilogue \/ DropState \/ Crash  BY <1>e, <1>25 DEF Epilogue, DropState, Crash
<1>26. CASE CommitAbandoned  BY <1>i, <1>26 DEF CommitAbandoned, Goto
<1>27. CASE Env
  <2>1. UNCHANGED procVars /\ (pc = "discard" => ~Discard \/ UNCHANGED procVars)
    BY <1>27 DEF Env, CommitOnBranch, CommitOnOrigin, ChangelogAdd, Pull, StrayTag, EnvOnly
  <2>2. CASE pc \notin Walking  BY <1>i, <2>1, <2>2 DEF procVars
  <2>3. CASE pc \in Walking /\ ~Discard
    BY <1>b, <1>k, <1>p, <1>t, <2>1, <2>3 DEF Position, procVars
  <2>4. CASE Discard  BY <2>1, <2>4 DEF procVars, Discard, Goto, Stopped
  <2> QED  BY <2>2, <2>3, <2>4
<1>28. CASE StepError  BY <1>t, <1>s, <1>28 DEF StepError, Discard, Fault
<1> QED
  BY <1>1, <1>2, <1>3, <1>4, <1>5, <1>6, <1>7, <1>8, <1>9, <1>10, <1>11, <1>12, <1>13, <1>14,
     <1>15, <1>16, <1>17, <1>18, <1>19, <1>20, <1>21, <1>22, <1>23, <1>24, <1>25, <1>26, <1>27,
     <1>28 DEF Next, Operator, Walk

\* What recording a step does to the steps left behind.
LEMMA Walking1 ==
    ASSUME NEW s \in State, NEW n \in Steps
    PROVE  /\ Walked(Complete(s, n)) = Walked(s) \cup {n}
           /\ Walked(Fail(s, n)) = Walked(s) \cup {n}
           /\ Complete(s, n).ver = s.ver /\ Fail(s, n).ver = s.ver
BY DEF State, Complete, Fail, Walked

\* Every step records what it leaves behind.
LEMMA BehindKept ==
    ASSUME Structure, Placed, Bumped, Behind, Next
    PROVE  Behind'
<1>t. Memory /\ st \in State /\ entry \in State /\ step \in Steps
  BY DEF Structure, TypeOK, Memory
<1>n. Entries(NoState)  BY DEF Entries, NoState
<1>c. /\ VersionBumped \in Steps /\ Committed \in Steps /\ CandidatePushed \in Steps
      /\ CIVerified \in Steps /\ ChangelogFinalized \in Steps
  BY StepsAre
\* A record of one more failure, or none.
<1>f. ASSUME NEW n \in Steps PROVE Entries(Fail(st, n)) /\ Walked(st) \subseteq Walked(Fail(st, n))
  <2>1. /\ Fail(st, n).done \subseteq st.done /\ Walked(Fail(st, n)) = Walked(st) \cup {n}
    BY <1>t, <1>f, Recording, Walking1
  <2>2. Entries(st)  BY DEF Behind
  <2> QED  BY <2>1, <2>2 DEF Entries
\* A step that ends the command.
<1>e. ASSUME pc' \in {"idle", "discard", "clear", "archived", "drop", "entered", "prepared", "guard", "bump"},
             Entries(st'), Entries(entry')
      PROVE  Behind'
  BY <1>e DEF Behind
<1>z. ASSUME Stopped, Entries(st') PROVE Behind'  BY <1>e, <1>n, <1>z DEF Stopped
<1>s. ASSUME NEW n \in Steps, NEW k, NEW tried, Stop(n, k, tried) PROVE Behind'
  <2>1. CASE Goto("discard") /\ UNCHANGED st  BY <1>e, <2>1 DEF Goto, Behind
  <2>2. CASE Stopped /\ st' = Fail(st, n)  BY <1>f, <1>z, <2>2
  <2> QED  BY <1>s, <2>1, <2>2 DEF Stop
<1>1. CASE EnterFresh \/ EnterResume
  BY <1>e, <1>1 DEF EnterFresh, EnterResume, Enter, Behind
<1>2. CASE Abandon  BY <1>e, <1>2 DEF Abandon, Behind
<1>3. CASE Validate  BY <1>e, <1>n, <1>z, <1>3 DEF Validate, Goto, Behind
<1>4. CASE Begin
  <2>1. CASE Stopped /\ UNCHANGED st  BY <1>z, <2>1 DEF Behind
  <2>2. CASE /\ Goto("guard")
             /\ st' = [NoState EXCEPT !.ver = VersionOf(head) + 1, !.pin = head]
    <3>1. Entries(st')  BY <2>2 DEF NoState, Entries
    <3> QED  BY <1>e, <2>2, <3>1 DEF Goto, Behind
  <2> QED  BY <1>4, <2>1, <2>2 DEF Begin
<1>5. CASE Adopt
  <2>1. CASE Stopped /\ UNCHANGED st  BY <1>z, <2>1 DEF Behind
  <2>2. CASE ~(Stopped /\ UNCHANGED st)
    <3>1. PICK reverify \in BOOLEAN :
             st' = [st EXCEPT !.pin = tip,
                              !.done = IF reverify THEN @ \ {CIVerified} ELSE @,
                              !.rc = IF reverify THEN NoCommit ELSE @]
      BY <1>5, <2>2, Zenon DEF Adopt
    <3>2. pc' = "guard" /\ entry' = st  BY <1>5, <2>2 DEF Adopt
    <3>3. st'.failed = st.failed /\ st'.done \in {st.done, st.done \ {CIVerified}}
      BY <1>t, <3>1 DEF State
    <3>4. Entries(st')  BY <3>3, StepsAre DEF Behind, Entries, Walked
    <3> QED  BY <1>e, <3>2, <3>4 DEF Behind
  <2> QED  BY <2>1, <2>2
<1>6. CASE EntryGuard  BY <1>c, <1>s, <1>e, <1>6 DEF EntryGuard, Goto, Behind
<1>7. CASE Bump
  <2>1. CASE pc' = "candidate" /\ UNCHANGED <<st, entry>> /\ Committed \in st.done
    <3>1. {VersionBumped, Committed} \subseteq Walked(st)
      BY <2>1 DEF Behind, Entries, Walked
    <3> QED  BY <2>1, <3>1 DEF Behind
  <2>2. CASE /\ pc' = "advance" /\ step' = Committed /\ UNCHANGED entry
             /\ st' \in {Complete(st, VersionBumped),
                         [Complete(st, VersionBumped) EXCEPT !.created = @ \cup {Next1}]}
    <3> DEFINE s == Complete(st, VersionBumped)
    <3>1. s \in State /\ s.done = st.done \cup {VersionBumped} /\ Walked(s) = Walked(st) \cup {VersionBumped}
      BY <1>t, <1>c DEF Complete, State, Walked
    <3> HIDE DEF s
    <3>2. st'.done = s.done /\ st'.failed = s.failed  BY <2>2, <3>1 DEF State, s
    <3>3. Walked(st') = Walked(st) \cup {VersionBumped} /\ st'.done = st.done \cup {VersionBumped}
      BY <3>1, <3>2 DEF Walked
    <3>4. Entries(st') /\ 1..(Committed - 1) \subseteq Walked(st')
      BY <3>3, StepsAre DEF Behind, Entries
    <3> QED  BY <2>2, <3>4 DEF Behind
  <2> QED  BY <1>7, <2>1, <2>2, Zenon DEF Bump, BumpOwed
\* A step that records nothing and stays at its step of the walk.
<1>w. ASSUME UNCHANGED <<step, entry>>, st'.done = st.done, st'.failed = st.failed,
             pc \in {"advance", "record", "walk", "pushtags"},
             pc' \in {"advance", "record", "walk", "pushtags"}
      PROVE  Behind'
  BY <1>w DEF Behind, Entries, Walked
<1>8. CASE Advance
  <2>1. \/ \E n \in Steps : \E k, tried : Stop(n, k, tried)
        \/ pc' = "record" /\ UNCHANGED <<st, step, entry>>
    BY <1>t, <1>8, Zenon DEF Advance, Goto
  <2> QED  BY <1>8, <1>w, <1>s, <2>1 DEF Advance
<1>9. CASE Record
  <2>1. /\ st'.done = st.done \cup {step} /\ Walked(st') = Walked(st) \cup {step}
        /\ pc = "record" /\ step # VersionBumped /\ UNCHANGED entry
        /\ 1..(step - 1) \subseteq Walked(st)
    BY <1>t, <1>9, Recording, Walking1 DEF Record, Placed, Behind
  <2>2. 1..step \subseteq Walked(st')  BY <1>t, <2>1, StepsAre
  <2>3. Entries(st') /\ Entries(entry')  BY <2>1, <2>2, StepsAre DEF Behind, Entries
  <2>4. CASE step \in {Committed, CandidatePushed, CIVerified}
    BY <1>9, <2>2, <2>3, <2>4, StepsAre DEF Record, Behind
  <2>5. CASE step = PostReleaseHooksRun
    BY <1>9, <2>2, <2>3, <2>5, StepsAre DEF Record, Behind
  <2>6. CASE step \notin {Committed, CandidatePushed, CIVerified, PostReleaseHooksRun}
    BY <1>t, <1>9, <2>2, <2>3, <2>6, StepsAre DEF Record, Behind
  <2> QED  BY <2>4, <2>5, <2>6
<1>10. CASE Discard  BY <1>c, <1>e, <1>f, <1>z, <1>10 DEF Discard, Goto, Behind
<1>11. CASE Clear  BY <1>n, <1>z, <1>11 DEF Clear, StateBefore, Behind
<1>12. CASE Candidate
  <2>1. pc = "candidate" /\ UNCHANGED entry  BY <1>12 DEF Candidate
  <2>2. CASE pc' = "gate" /\ UNCHANGED st /\ CIVerified \in st.done
    <3>1. {VersionBumped, Committed, CandidatePushed, CIVerified} \subseteq Walked(st)
      BY <2>2 DEF Behind, Entries, Walked
    <3> QED  BY <2>1, <2>2, <3>1 DEF Behind
  <2>3. CASE pc' = "discard" /\ UNCHANGED st  BY <1>e, <2>1, <2>3 DEF Behind
  <2>4. CASE pc' = "judge" /\ st' = [st EXCEPT !.rc = tip]
    <3>1. st'.done = st.done /\ st'.failed = st.failed  BY <1>t, <2>4 DEF State
    <3> QED  BY <2>1, <2>4, <3>1 DEF Behind, Entries, Walked
  <2> QED  BY <1>12, <2>2, <2>3, <2>4, Zenon DEF Candidate
<1>13. CASE Judge
  <2>1. \/ \E n \in Steps : \E k, tried : Stop(n, k, tried)
        \/ pc' = "push" /\ st' \in {st, [st EXCEPT !.runall = cand]} /\ UNCHANGED entry
        \/ pc' = "record" /\ UNCHANGED <<st, step, entry>>
    BY <1>13, <1>c, Zenon DEF Judge, Goto
  <2>2. pc = "judge" /\ step = CandidatePushed  BY <1>13 DEF Judge, Placed
  <2>3. CASE pc' = "push" /\ st' \in {st, [st EXCEPT !.runall = cand]} /\ UNCHANGED entry
    <3>1. st'.done = st.done /\ st'.failed = st.failed  BY <1>t, <2>3 DEF State
    <3> QED  BY <2>2, <2>3, <3>1 DEF Behind, Entries, Walked
  <2>4. CASE pc' = "record" /\ UNCHANGED <<st, step, entry>>
    BY <2>2, <2>4, StepsAre DEF Behind
  <2> QED  BY <1>s, <2>1, <2>3, <2>4
<1>14. CASE Push
  <2>1. \/ \E n \in Steps : \E k, tried : Stop(n, k, tried)
        \/ pc' = "record" /\ UNCHANGED <<st, step, entry>>
    BY <1>14, <1>c, Zenon DEF Push
  <2>2. pc = "push" /\ step = CandidatePushed  BY <1>14 DEF Push, Placed
  <2> QED  BY <1>s, <2>1, <2>2, StepsAre DEF Behind
<1>15. CASE Dispatch
  <2>1. [st EXCEPT !.runall = NoCommit].done = st.done /\ [st EXCEPT !.runall = NoCommit].failed = st.failed
    BY <1>t DEF State
  <2> QED  BY <1>c, <1>s, <1>15, <2>1 DEF Dispatch, Goto, Behind, Entries, Walked
<1>16. CASE Verify
  <2>1. [st EXCEPT !.rc = cand].done = st.done /\ [st EXCEPT !.rc = cand].failed = st.failed
    BY <1>t DEF State
  <2>2. CASE \E n \in Steps : \E k, tried : Stop(n, k, tried)  BY <1>s, <2>2
  <2>3. CASE /\ pc' = "record" /\ step' = CIVerified /\ st' = [st EXCEPT !.rc = cand]
             /\ UNCHANGED entry
    <3>1. pc = "verify" /\ 1..3 \subseteq Walked(st)  BY <1>16, StepsAre DEF Verify, Behind
    <3> QED  BY <2>1, <2>3, <3>1, StepsAre DEF Behind, Entries, Walked
  <2> QED  BY <1>c, <1>16, <2>2, <2>3 DEF Verify
<1>17. CASE Gate
  <2>1. CASE \E n \in Steps : \E k, tried : Stop(n, k, tried)  BY <1>s, <2>1
  <2>2. CASE pc' = "walk" /\ step' = ChangelogFinalized /\ UNCHANGED <<st, entry>>
    <3>1. pc = "gate"  BY <1>17 DEF Gate
    <3> QED  BY <2>2, <3>1, StepsAre DEF Behind
  <2> QED  BY <1>c, <1>17, <2>1, <2>2 DEF Gate
<1>18. CASE Skip
  <2>1. pc = "walk" /\ 1..(step - 1) \subseteq Walked(st) /\ step \in Walked(st) /\ UNCHANGED <<st, entry>>
    BY <1>18 DEF Skip, Goto, Behind, Walked
  <2>2. 1..step \subseteq Walked(st)  BY <1>t, <2>1, StepsAre
  <2> QED  BY <1>t, <1>18, <2>1, <2>2, StepsAre DEF Skip, Goto, Behind
<1>19. CASE FinalizeChangelog \/ Archive
  <2>1. pc = "walk"  BY <1>19 DEF FinalizeChangelog, Archive, At
  <2>2. CASE \E n \in Steps : \E k, tried : Stop(n, k, tried)  BY <1>s, <2>2
  <2>3. CASE /\ pc' \in {"record", "advance"} /\ UNCHANGED <<step, entry>>
             /\ st' \in {st, [st EXCEPT !.created = @ \cup {Next1}]}
    <3>1. st'.done = st.done /\ st'.failed = st.failed  BY <1>t, <2>3 DEF State
    <3> QED  BY <1>w, <2>1, <2>3, <3>1
  <2> QED  BY <1>t, <1>19, <2>2, <2>3 DEF FinalizeChangelog, Archive, Goto, CommitAs
<1>20. ASSUME NEW t \in Tags, Tag(t) \/ PushTag(t) PROVE Behind'
  BY <1>t, <1>s, <1>w, <1>20 DEF Tag, PushTag, At, procVars
<1>21. CASE AllTagged \/ AllTagsPushed \/ PublishPipelines \/ Deploy
  BY <1>w, <1>21 DEF AllTagged, AllTagsPushed, PublishPipelines, Deploy, At, Goto
<1>22. CASE PushBranch
  <2>1. \/ \E n \in Steps : \E k, tried : Stop(n, k, tried)
        \/ pc' = "pushtags" /\ UNCHANGED <<st, step, entry>>
    BY <1>t, <1>22, Zenon DEF PushBranch
  <2> QED  BY <1>22, <2>1, <1>s, <1>w DEF PushBranch, At
<1>23. CASE GitHubRelease  BY <1>t, <1>s, <1>w, <1>23 DEF GitHubRelease, At, Goto
<1>24. CASE PostReleaseHooks
  <2>1. pc = "walk" /\ step = PostReleaseHooksRun /\ PostReleaseHooksRun \in Steps /\ UNCHANGED entry
    BY <1>24, StepsAre DEF PostReleaseHooks, At, Goto
  <2>2. CASE pc' = "record" /\ UNCHANGED <<st, step>>  BY <1>w, <2>1, <2>2
  <2>3. CASE pc' = "epilogue" /\ st' = Fail(st, PostReleaseHooksRun)
    <3>1. Walked(st') = Walked(st) \cup {12} /\ 1..11 \subseteq Walked(st) /\ Entries(st')
      BY <1>t, <1>f, <2>1, <2>3, Walking1, StepsAre DEF Behind
    <3> QED  BY <2>1, <2>3, <3>1, StepsAre DEF Behind
  <2> QED  BY <1>24, <2>2, <2>3 DEF PostReleaseHooks, Goto
<1>25. CASE Epilogue \/ DropState \/ Crash
  BY <1>n, <1>z, <1>25 DEF Epilogue, DropState, Crash, Behind
<1>26. CASE CommitAbandoned  BY <1>e, <1>26 DEF CommitAbandoned, Goto, Behind
<1>27. CASE Env
  BY <1>27 DEF Env, CommitOnBranch, CommitOnOrigin, ChangelogAdd, Pull, StrayTag, EnvOnly,
     Behind, procVars
<1>28. CASE StepError  BY <1>t, <1>s, <1>28 DEF StepError
<1> QED
  BY <1>1, <1>2, <1>3, <1>4, <1>5, <1>6, <1>7, <1>8, <1>9, <1>10, <1>11, <1>12, <1>13, <1>14,
     <1>15, <1>16, <1>17, <1>18, <1>19, <1>20, <1>21, <1>22, <1>23, <1>24, <1>25, <1>26, <1>27,
     <1>28 DEF Next, Operator, Walk

\* What a step does to the state: it records nothing new of the release, ends
\* with nothing recorded, or is one of the four that do more.
LEMMA StateStep ==
    Structure /\ Next =>
        \/ /\ st'.ver = st.ver /\ st'.done \subseteq st.done
           /\ st'.rc = st.rc \/ CIVerified \notin st'.done
        \/ st'.done = {}
        \/ Record \/ Bump \/ Clear \/ Verify
<1> DEFINE Less == /\ st'.ver = st.ver /\ st'.done \subseteq st.done
                   /\ st'.rc = st.rc \/ CIVerified \notin st'.done
<1> SUFFICES ASSUME Structure, Next, ~Record, ~Bump, ~Clear, ~Verify
             PROVE  Less \/ st'.done = {}
  OBVIOUS
<1>t. st \in State /\ step \in Steps  BY DEF Structure, TypeOK, Memory
<1>c. /\ VersionBumped \in Steps /\ CandidatePushed \in Steps /\ CIVerified \in Steps
      /\ ChangelogFinalized \in Steps /\ PostReleaseHooksRun \in Steps
  BY StepsAre
<1>n. NoState.done = {}  BY DEF NoState
<1>u. ASSUME UNCHANGED st PROVE Less  BY <1>u
<1>f. ASSUME NEW n \in Steps, st' = Fail(st, n) PROVE Less  BY <1>t, <1>f DEF Fail, State
<1>s. ASSUME NEW n \in Steps, NEW k, NEW tried, Stop(n, k, tried) PROVE Less
  BY <1>u, <1>f, <1>s DEF Stop
<1>o. ASSUME st' \in {[st EXCEPT !.created = @ \cup {Next1}], [st EXCEPT !.runall = cand],
                     [st EXCEPT !.runall = NoCommit]}
      PROVE  Less
  BY <1>t, <1>o DEF State
<1> HIDE DEF Less
<1>1. CASE EnterFresh \/ EnterResume \/ Abandon \/ Crash
  BY <1>u, <1>1 DEF EnterFresh, EnterResume, Enter, Abandon, Crash
<1>2. CASE Validate \/ Epilogue \/ DropState
  BY <1>u, <1>n, <1>2 DEF Validate, Epilogue, DropState
<1>3. CASE Begin
  <2>1. UNCHANGED st \/ st' = [NoState EXCEPT !.ver = VersionOf(head) + 1, !.pin = head]
    BY <1>3 DEF Begin
  <2>2. [NoState EXCEPT !.ver = VersionOf(head) + 1, !.pin = head].done = {}  BY DEF NoState
  <2> QED  BY <1>u, <2>1, <2>2
<1>4. CASE Adopt
  <2>1. CASE UNCHANGED st  BY <1>u, <2>1
  <2>2. CASE ~UNCHANGED st
    <3>1. PICK reverify \in BOOLEAN :
             st' = [st EXCEPT !.pin = tip,
                              !.done = IF reverify THEN @ \ {CIVerified} ELSE @,
                              !.rc = IF reverify THEN NoCommit ELSE @]
      BY <1>4, <2>2, Zenon DEF Adopt
    <3> QED  BY <1>t, <3>1 DEF State, Less
  <2> QED  BY <2>1, <2>2
<1>5. CASE Candidate
  <2>1. CASE UNCHANGED st  BY <1>u, <2>1
  <2>2. CASE st' = [st EXCEPT !.rc = tip] /\ CIVerified \notin st.done
    BY <1>t, <2>2 DEF State, Less
  <2> QED  BY <1>5, <2>1, <2>2, Zenon DEF Candidate
<1>6. CASE EntryGuard \/ Advance \/ Discard
  BY <1>t, <1>c, <1>u, <1>s, <1>f, <1>6 DEF EntryGuard, Advance, Discard
<1>7. CASE Judge  BY <1>c, <1>u, <1>s, <1>o, <1>7, Zenon DEF Judge
<1>8. CASE Push  BY <1>c, <1>u, <1>s, <1>8, Zenon DEF Push
<1>9. CASE Dispatch \/ Gate  BY <1>c, <1>u, <1>s, <1>o, <1>9 DEF Dispatch, Gate
<1>10. CASE FinalizeChangelog \/ Archive
  BY <1>t, <1>u, <1>s, <1>o, <1>10 DEF FinalizeChangelog, Archive, CommitAs
<1>11. ASSUME NEW t \in Tags, Tag(t) \/ PushTag(t) PROVE Less
  BY <1>t, <1>u, <1>s, <1>11 DEF Tag, PushTag
<1>12. CASE PushBranch  BY <1>t, <1>u, <1>s, <1>12, Zenon DEF PushBranch
<1>13. CASE \/ Skip \/ AllTagged \/ AllTagsPushed \/ PublishPipelines \/ Deploy \/ CommitAbandoned
  BY <1>u, <1>13 DEF Skip, AllTagged, AllTagsPushed, PublishPipelines, Deploy, CommitAbandoned
<1>14. CASE GitHubRelease \/ StepError
  BY <1>t, <1>u, <1>s, <1>14 DEF GitHubRelease, StepError
<1>15. CASE PostReleaseHooks  BY <1>c, <1>u, <1>f, <1>15 DEF PostReleaseHooks
<1>16. CASE Env
  BY <1>u, <1>16 DEF Env, CommitOnBranch, CommitOnOrigin, ChangelogAdd, Pull, StrayTag, EnvOnly
<1> QED
  BY <1>1, <1>2, <1>3, <1>4, <1>5, <1>6, <1>7, <1>8, <1>9, <1>10, <1>11, <1>12, <1>13, <1>14,
     <1>15, <1>16 DEF Next, Operator, Walk

\* What a step of the walk does to what the command remembers of the branch
\* and of the state it found.
LEMMA MemoryStep ==
    ASSUME Structure, Next
    PROVE  /\ pc \in Walking /\ pc' \in Walking =>
                 /\ UNCHANGED <<tip, last>> \/ Advance \/ Discard
                 /\ UNCHANGED entry \/ Adopt
                 /\ UNCHANGED mode
           /\ pc \notin Walking /\ pc' \in Walking => EnterFresh \/ EnterResume
<1> DEFINE Same == UNCHANGED <<tip, last, entry, mode>> \/ pc' \notin Walking
<1> USE DEF Walking, Places
<1>a. CASE pc \notin Walking
  <2>1. CASE EnterFresh \/ EnterResume \/ Abandon \/ CommitAbandoned \/ DropState \/ Crash
    BY <1>a, <2>1 DEF Abandon, CommitAbandoned, DropState, Crash, Stopped, Goto
  <2>2. CASE Env
    BY <1>a, <2>2 DEF Env, CommitOnBranch, CommitOnOrigin, ChangelogAdd, Pull, StrayTag,
       EnvOnly, procVars
  <2>3. CASE Next /\ ~(EnterFresh \/ EnterResume \/ Abandon \/ CommitAbandoned \/ DropState \/ Crash) /\ ~Env
    BY <1>a, <2>3 DEF Next, Operator, Walk, Validate, Begin, Adopt, EntryGuard, Bump, Advance,
       Record, Discard, Clear, Candidate, Judge, Push, Dispatch, Verify, Gate, Skip,
       FinalizeChangelog, Archive, Tag, AllTagged, PushBranch, PushTag, AllTagsPushed,
       GitHubRelease, PublishPipelines, Deploy, PostReleaseHooks, Epilogue, StepError, At
  <2> QED  BY <2>1, <2>2, <2>3
<1>b. CASE pc \in Walking
  <2>g. ASSUME NEW l, Goto(l) PROVE Same  BY <2>g DEF Goto
  <2>z. ASSUME Stopped PROVE Same  BY <2>z DEF Stopped
  <2>s. ASSUME NEW n, NEW k, NEW tried, Stop(n, k, tried) PROVE Same
    BY <2>g, <2>z, <2>s DEF Stop
  <2>v. ASSUME UNCHANGED procVars PROVE Same  BY <2>v DEF procVars
  <2>1. CASE \/ EnterFresh \/ EnterResume \/ Abandon \/ CommitAbandoned \/ DropState
    BY <1>b, <2>1 DEF EnterFresh, EnterResume, Enter, Abandon, CommitAbandoned, DropState
  <2>2. CASE Validate \/ Begin \/ EntryGuard \/ Clear \/ Epilogue \/ Crash
    BY <1>b, <2>g, <2>z, <2>s, <2>2 DEF Validate, Begin, EntryGuard, Clear, Epilogue, Crash
  <2>3. CASE Adopt  BY <2>3 DEF Adopt, Stopped
  <2>4. CASE Bump \/ Record \/ Candidate  BY <2>4, Zenon DEF Bump, Record, Candidate
  <2>5. CASE Advance \/ Discard  BY <2>5 DEF Advance, Discard, Stop, Goto, Stopped
  <2>6. CASE Judge \/ Push \/ Verify \/ Gate
    <3>1. Same  BY <2>g, <2>s, <2>6, Zenon DEF Judge, Push, Verify, Gate
    <3> QED  BY <1>b, <3>1
  <2>7. CASE Dispatch \/ Skip \/ FinalizeChangelog \/ Archive \/ PushBranch
    <3>1. Same
      BY <2>g, <2>s, <2>7, Zenon DEF Dispatch, Skip, FinalizeChangelog, Archive, PushBranch,
         CommitAs
    <3> QED  BY <1>b, <3>1
  <2>8. CASE \/ AllTagged \/ AllTagsPushed \/ GitHubRelease \/ PublishPipelines \/ Deploy
             \/ PostReleaseHooks \/ StepError
    BY <1>b, <2>g, <2>s, <2>8 DEF AllTagged, AllTagsPushed, GitHubRelease, PublishPipelines, Deploy,
       PostReleaseHooks, StepError
  <2>9. ASSUME NEW t \in Tags, Tag(t) \/ PushTag(t) PROVE Same
    BY <2>s, <2>v, <2>9 DEF Tag, PushTag
  <2>10. CASE Env
    BY <2>v, <2>10 DEF Env, CommitOnBranch, CommitOnOrigin, ChangelogAdd, Pull, StrayTag,
       EnvOnly, procVars
  <2> QED
    BY <1>b, <2>1, <2>2, <2>3, <2>4, <2>5, <2>6, <2>7, <2>8, <2>9, <2>10 DEF Next, Operator, Walk
<1> QED  BY <1>a, <1>b

\* Every step keeps the candidate holding the bump.
LEMMA BumpedKept ==
    ASSUME Structure, Structure', LogClosed, Position, Placed, Bumped, Recorded, Next
    PROVE  Bumped'
<1>t. /\ st \in State /\ step \in Steps /\ branch \in Commits /\ LogOK /\ LogOK' /\ Commits \subseteq Commits'
      /\ LogGrows /\ LogClosed' /\ Len(log) \in Nat /\ Len(log') \in Nat
      /\ pc \in Walking => head \in Commits /\ tip \in Commits
  BY LogKept, ClosedKept DEF Structure, TypeOK, Memory, Repository, RefsOK
<1>c. /\ VersionBumped \in Steps /\ CandidatePushed \in Steps /\ CIVerified \in Steps
      /\ ChangelogFinalized \in Steps
  BY StepsAre
<1> DEFINE Outside1 == {"judge", "push", "candidate", "verify", "gate", "walk", "pushtags", "advance", "record"}
<1> DEFINE Good == cand \in Commits /\ (st.ver # 0 => Has(cand, "bump", st.ver))
<1>x. ASSUME pc' \notin Outside1 PROVE Bumped'  BY <1>x DEF Bumped
<1>m. ASSUME Good, cand' = cand, st'.ver = st.ver PROVE Good'
  <2>1. cand \in Commits' /\ cand \in Anc(cand)'  BY <1>t, <1>m DEF LogOK
  <2>2. \A c \in Commits, d \in Commits' : \A v : c \in Anc(d)' /\ Has(c, "bump", v) => Has(d, "bump", v)'
    BY <1>t, HasStays
  <2>3. cand' \in Anc(cand)'  BY <1>t, <1>m, <2>1 DEF LogOK
  <2> QED  BY <1>m, <2>1, <2>2, <2>3
<1>d. ASSUME Good', pc' \notin {"candidate", "judge", "push"} PROVE Bumped'
  BY <1>d DEF Bumped
<1>h. ASSUME \/ pc \in {"verify", "gate", "walk", "pushtags"}
             \/ pc \in {"advance", "record"} /\ step # Committed
      PROVE  Good
  BY <1>h DEF Bumped
<1> HIDE DEF Good
\* A step past the candidate's push that keeps the candidate.
<1>k. ASSUME cand' = cand, st'.ver = st.ver, pc' \notin {"candidate", "judge", "push"},
             \/ pc \in {"verify", "gate", "walk", "pushtags"}
             \/ pc \in {"advance", "record"} /\ step # Committed
      PROVE  Bumped'
  BY <1>d, <1>h, <1>k, <1>m
<1>s. ASSUME NEW n \in Steps, NEW k, NEW tried, Stop(n, k, tried) PROVE Bumped'
  BY <1>x, <1>s DEF Stop, Goto, Stopped
<1>z. ASSUME Stopped PROVE Bumped'  BY <1>x, <1>z DEF Stopped
<1>1. CASE EnterFresh \/ EnterResume \/ Abandon \/ Validate \/ CommitAbandoned
  BY <1>x, <1>z, <1>1 DEF EnterFresh, EnterResume, Enter, Abandon, Validate, CommitAbandoned, Goto
<1>2. CASE Begin \/ Adopt \/ Clear \/ Epilogue \/ DropState \/ Crash
  BY <1>x, <1>z, <1>2 DEF Begin, Adopt, Clear, Epilogue, DropState, Crash, Goto
<1>3. CASE EntryGuard \/ Discard
  BY <1>c, <1>x, <1>s, <1>z, <1>3 DEF EntryGuard, Discard, Goto
<1>4. CASE Bump  BY <1>4 DEF Bump, BumpOwed, Bumped
<1>5. CASE Advance
  <2>1. \/ \E n \in Steps : \E k, tried : Stop(n, k, tried)
        \/ pc' = "record" /\ UNCHANGED <<st, step, cand>>
    BY <1>t, <1>5, Zenon DEF Advance, Goto
  <2>2. CASE pc' = "record" /\ UNCHANGED <<st, step, cand>> /\ step = Committed
    BY <2>2 DEF Bumped
  <2>3. CASE pc' = "record" /\ UNCHANGED <<st, step, cand>> /\ step # Committed
    BY <1>5, <1>k, <2>3 DEF Advance
  <2> QED  BY <1>s, <2>1, <2>2, <2>3
<1>6. CASE Record
  <2>1. st'.ver = st.ver /\ st'.done = st.done \cup {step} /\ cand' = cand /\ pc = "record"
    BY <1>t, <1>6, Recording, Walking1 DEF Record
  <2>2. CASE step = Committed  BY <1>6, <2>1, <2>2, StepsAre DEF Record, Bumped
  <2>3. CASE step # Committed
    <3>1. pc' \in {"verify", "gate", "walk", "epilogue"}  BY <1>6, <2>3, StepsAre DEF Record
    <3> QED  BY <1>k, <2>1, <2>3, <3>1
  <2> QED  BY <2>2, <2>3
<1>7. CASE Candidate
  <2>1. pc = "candidate" /\ UNCHANGED <<log, tip>> /\ Committed \in st.done /\ Told(st, tip)
    BY <1>7 DEF Candidate, repoVars, Bumped, Recorded, Standing, Walking, Places
  <2>2. CASE /\ cand' = RecordedCandidate /\ pc' = "gate" /\ UNCHANGED st
             /\ IsAncestor(RecordedCandidate, branch) /\ CIVerified \in st.done
    <3>1. st.rc \in Commits  BY <1>t, <2>2 DEF RecordedCandidate, IsAncestor, LogOK, Commits
    <3>2. st.ver # 0 => Has(st.rc, "bump", st.ver)  BY <2>1, <2>2 DEF Told, Effect
    <3>3. Has(st.rc, "bump", st.ver) => Has(st.rc, "bump", st.ver)'
      BY <2>1, <2>2 DEF Has, Of, Anc
    <3>4. Good'  BY <1>t, <2>2, <3>1, <3>2, <3>3 DEF Good, RecordedCandidate, Has, Of, Anc
    <3> QED  BY <1>d, <2>2, <3>4
  <2>3. CASE pc' = "discard"  BY <1>x, <2>3
  <2>4. CASE pc' = "judge" /\ cand' = tip /\ st' = [st EXCEPT !.rc = tip]
    <3>1. st'.done = st.done  BY <1>t, <2>4 DEF State
    <3> QED  BY <2>1, <2>4, <3>1 DEF Bumped
  <2> QED  BY <1>7, <2>2, <2>3, <2>4, Zenon DEF Candidate
<1>b. ASSUME pc \in {"judge", "push"} PROVE Good /\ cand = tip /\ Committed \in st.done
  <2>1. cand = tip /\ Committed \in st.done /\ tip \in Commits
    BY <1>t, <1>b DEF Bumped, Walking, Places
  <2>2. Told(st, tip)  BY <1>b DEF Recorded, Standing, Walking, Places
  <2> QED  BY <2>1, <2>2 DEF Told, Effect, Good
<1>8. CASE Judge
  <2>1. \/ \E n \in Steps : \E k, tried : Stop(n, k, tried)
        \/ pc' = "push" /\ st' \in {st, [st EXCEPT !.runall = cand]} /\ UNCHANGED <<cand, tip>>
        \/ pc' = "record" /\ UNCHANGED <<st, cand>>
    BY <1>8, <1>c, Zenon DEF Judge, Goto
  <2>2. pc = "judge"  BY <1>8 DEF Judge
  <2>3. CASE pc' = "push" /\ st' \in {st, [st EXCEPT !.runall = cand]} /\ UNCHANGED <<cand, tip>>
    <3>1. st'.done = st.done  BY <1>t, <2>3 DEF State
    <3> QED  BY <1>b, <2>2, <2>3, <3>1 DEF Bumped
  <2>4. CASE pc' = "record" /\ UNCHANGED <<st, cand>>  BY <1>b, <1>d, <1>m, <2>2, <2>4
  <2> QED  BY <1>s, <2>1, <2>3, <2>4
<1>9. CASE Push
  <2>1. \/ \E n \in Steps : \E k, tried : Stop(n, k, tried)
        \/ pc' = "record" /\ UNCHANGED <<st, cand>>
    BY <1>9, <1>c, Zenon DEF Push
  <2>2. pc = "push"  BY <1>9 DEF Push
  <2> QED  BY <1>b, <1>d, <1>m, <1>s, <2>1, <2>2
<1>10. CASE Dispatch
  <2>1. [st EXCEPT !.runall = NoCommit].ver = st.ver  BY <1>t DEF State
  <2> QED  BY <1>c, <1>k, <1>s, <1>10, <2>1 DEF Dispatch, Goto
<1>11. CASE Verify
  <2>1. [st EXCEPT !.rc = cand].ver = st.ver  BY <1>t DEF State
  <2> QED  BY <1>c, <1>k, <1>s, <1>11, <2>1 DEF Verify
<1>12. CASE Gate \/ Skip  BY <1>c, <1>k, <1>s, <1>12 DEF Gate, Skip, Goto
<1>13. CASE FinalizeChangelog \/ Archive
  <2>1. [st EXCEPT !.created = @ \cup {Next1}].ver = st.ver /\ pc = "walk"
    BY <1>t, <1>13 DEF State, FinalizeChangelog, Archive, At
  <2> QED  BY <1>t, <1>k, <1>s, <1>13, <2>1 DEF FinalizeChangelog, Archive, Goto, CommitAs
<1>14. ASSUME NEW t \in Tags, Tag(t) \/ PushTag(t) PROVE Bumped'
  BY <1>t, <1>s, <1>k, <1>14 DEF Tag, PushTag, At, procVars
<1>15. CASE AllTagged \/ AllTagsPushed \/ PublishPipelines \/ Deploy
  BY <1>k, <1>15 DEF AllTagged, AllTagsPushed, PublishPipelines, Deploy, At, Goto
<1>16. CASE PushBranch
  <2>1. \/ \E n \in Steps : \E k, tried : Stop(n, k, tried)
        \/ pc' = "pushtags" /\ UNCHANGED <<st, cand>>
    BY <1>t, <1>16, Zenon DEF PushBranch
  <2> QED  BY <1>16, <2>1, <1>s, <1>k DEF PushBranch, At
<1>17. CASE GitHubRelease \/ StepError
  BY <1>t, <1>s, <1>k, <1>17 DEF GitHubRelease, At, Goto, StepError
<1>18. CASE PostReleaseHooks  BY <1>k, <1>x, <1>18 DEF PostReleaseHooks, At, Goto
<1>19. CASE Env
  <2>1. UNCHANGED <<procVars, st>>
    BY <1>19 DEF Env, CommitOnBranch, CommitOnOrigin, ChangelogAdd, Pull, StrayTag, EnvOnly
  <2>2. CASE pc \in {"candidate", "judge", "push"}  BY <2>1, <2>2 DEF Bumped, procVars
  <2>3. CASE pc \notin Outside1 \/ (pc \in {"advance", "record"} /\ step = Committed)
    BY <2>1, <2>3 DEF Bumped, procVars
  <2>4. CASE \/ pc \in {"verify", "gate", "walk", "pushtags"}
             \/ pc \in {"advance", "record"} /\ step # Committed
    BY <1>k, <2>1, <2>4 DEF procVars
  <2> QED  BY <2>2, <2>3, <2>4
<1> QED
  BY <1>1, <1>2, <1>3, <1>4, <1>5, <1>6, <1>7, <1>8, <1>9, <1>10, <1>11, <1>12, <1>13, <1>14,
     <1>15, <1>16, <1>17, <1>18, <1>19 DEF Next, Operator, Walk

\* The step under way has had its effect by the time it is recorded: on the
\* commit the checkout advances to, and then where the release left the branch.
LEMMA EffectDone ==
    ASSUME Structure, Structure', LogClosed, LogClosed', ArchivesName, Position, Placed, Bumped,
           Recorded, Next
    PROVE  /\ pc' = "advance" => Effect(step, st, head)'
           /\ pc' = "record" => Effect(step, st, tip)'
<1> DEFINE Goal == /\ pc' = "advance" => Effect(step, st, head)'
                   /\ pc' = "record" => Effect(step, st, tip)'
<1> SUFFICES Goal  OBVIOUS
<1>t. /\ st \in State /\ st' \in State /\ step \in Steps /\ LogOK /\ LogOK' /\ WorldGrows
      /\ origin \in Commits
      /\ pc \in Walking => head \in Commits /\ tip \in Commits
      /\ pc' \in Walking => head' \in Commits' /\ tip' \in Commits'
  BY WorldKept DEF Structure, TypeOK, Memory, RefsOK
<1>r. /\ ltag \in [Version -> [Tags -> Nat]] /\ otag \in [Version -> [Tags -> Nat]]
      /\ grel \in [Version -> Nat] /\ pub \in [Version -> Nat] /\ dep \in [Version -> Nat]
  BY DEF Structure, TypeOK, Outside
<1>v. st.ver # 0 => st.ver \in Version  BY <1>t, ReleaseAssumption DEF State, Version
<1>d. CandidatePushed \in Steps  BY StepsAre
<1>p. pc \in Walking /\ pc \notin {"advance", "discard", "clear"} => head = tip
  BY DEF Position
<1>x. ASSUME pc' \notin {"advance", "record"} PROVE Goal  BY <1>x
<1>s. ASSUME NEW n, NEW k, NEW tried, Stop(n, k, tried) PROVE Goal
  BY <1>x, <1>s DEF Stop, Goto, Stopped
<1>z. ASSUME Stopped PROVE Goal  BY <1>x, <1>z DEF Stopped
\* What held of a commit holds of it, or of one that has it, still.
<1>k. ASSUME NEW n, NEW c \in Commits, NEW d \in Commits', c \in Anc(d)', Effect(n, st, c),
             st'.ver = st.ver, st'.rc = st.rc
      PROVE  Effect(n, st, d)'
  <2>1. PICK s \in State : s = st  BY <1>t
  <2>2. PICK r \in State : r = st'  BY <1>t
  <2>3. Effect(n, s, c)  BY <1>k, <2>1
  <2>4. Effect(n, r, d)'  BY <1>t, <1>k, <2>1, <2>2, <2>3, EffectStays
  <2> QED  BY <2>2, <2>4
<1>l. \A c \in Commits : \A d \in Commits' : \A n :
          c \in Anc(d)' /\ Effect(n, st, c) /\ st'.ver = st.ver /\ st'.rc = st.rc => Effect(n, st, d)'
  BY <1>k
<1>o. ASSUME UNCHANGED log, NEW c \in Commits PROVE c \in Commits' /\ c \in Anc(c)'
  BY <1>o, <1>t DEF LogOK, Commits, Anc
<1> HIDE DEF Goal
<1>1. CASE EnterFresh \/ EnterResume \/ Abandon \/ Validate \/ CommitAbandoned
  BY <1>x, <1>z, <1>1 DEF EnterFresh, EnterResume, Enter, Abandon, Validate, CommitAbandoned, Goto
<1>2. CASE Begin \/ Adopt \/ Clear \/ Epilogue \/ DropState \/ Crash
  BY <1>x, <1>z, <1>2 DEF Begin, Adopt, Clear, Epilogue, DropState, Crash, Goto
<1>3. CASE EntryGuard \/ Discard \/ Candidate \/ Record \/ Gate \/ Skip
  BY <1>x, <1>s, <1>z, <1>3 DEF EntryGuard, Discard, Candidate, Record, Gate, Skip, Goto
<1>4. CASE PushBranch \/ Dispatch \/ StepError
  BY <1>x, <1>s, <1>4 DEF PushBranch, Dispatch, StepError, Goto
<1>5. CASE Bump
  <2>1. pc = "bump" /\ head = tip /\ head \in Commits
    BY <1>5, <1>t, <1>p DEF Bump, Walking, Places
  <2>2. CASE pc' = "candidate"  BY <1>x, <2>2
  <2>3. CASE /\ VersionOf(head) = st.ver /\ st' = Complete(st, VersionBumped)
             /\ UNCHANGED <<repoVars, head, step>> \/ UNCHANGED <<repoVars, head>>
             /\ pc' = "advance" /\ step' = Committed
    <3>1. st'.ver = st.ver  BY <1>t, <2>3, Walking1, StepsAre
    <3>2. st.ver # 0 => Has(head, "bump", st.ver)  BY <1>r, <1>v, <2>3, BumpNames
    <3>3. Has(head, "bump", st.ver) => Has(head, "bump", st.ver)'
      BY <2>3, <3>1 DEF repoVars, Has, Of, Anc
    <3> QED  BY <2>3, <3>1, <3>2, <3>3, StepsAre DEF Goal, Effect
  <2>4. CASE /\ log' = Extend({head}, "bump", st.ver, NoCommit) /\ head' = Next1 /\ pc' = "advance"
             /\ st' = [Complete(st, VersionBumped) EXCEPT !.created = @ \cup {Next1}]
             /\ step' = Committed
    <3>1. st'.ver = st.ver
      <4>1. Complete(st, VersionBumped) \in State /\ Complete(st, VersionBumped).ver = st.ver
        BY <1>t, Recording, Walking1, StepsAre
      <4> QED  BY <2>4, <4>1 DEF State
    <3>2. Has(head, "bump", st.ver)'
      <4>1. PICK v \in 0..MaxVersion : v = st.ver  BY <1>t DEF State
      <4>2. Has(head, "bump", v)'  BY <2>1, <2>4, <4>1, NewCommit DEF Kinds, NoCommit
      <4> QED  BY <3>1, <4>1, <4>2
    <3> QED  BY <2>4, <3>1, <3>2, StepsAre DEF Goal, Effect
  <2> QED  BY <1>5, <2>2, <2>3, <2>4, Zenon DEF Bump
<1>6. CASE Advance
  <2>1. pc = "advance" /\ UNCHANGED log /\ Effect(step, st, head) /\ head \in Commits
    BY <1>6, <1>t DEF Advance, Recorded, Walking, Places
  <2>2. CASE \E n \in Steps : \E k, tried : Stop(n, k, tried)  BY <1>s, <2>2
  <2>3. CASE pc' = "record" /\ tip' = head /\ UNCHANGED <<st, step>>
    <3>1. \A n : Effect(n, st, head) => Effect(n, st, tip)'  BY <1>l, <1>o, <1>t, <2>1, <2>3
    <3> QED  BY <2>1, <2>3, <3>1 DEF Goal
  <2> QED  BY <1>t, <1>6, <2>2, <2>3, Zenon DEF Advance, Goto
<1>b. ASSUME pc \in {"judge", "push"} PROVE /\ step = CandidatePushed /\ cand = tip /\ tip \in Commits
                                            /\ st.ver # 0 => Has(cand, "bump", st.ver)
  <2>1. step = CandidatePushed /\ cand = tip /\ Committed \in st.done /\ tip \in Commits
    BY <1>t, <1>b DEF Bumped, Placed, Walking, Places
  <2>2. Told(st, tip)  BY <1>b DEF Recorded, Standing, Walking, Places
  <2> QED  BY <2>1, <2>2 DEF Told, Effect
<1>c. ASSUME pc' = "record", UNCHANGED <<st, step, log>>, step = CandidatePushed, origin' = cand,
             st.ver # 0 => Has(cand, "bump", st.ver)
      PROVE  Goal
  BY <1>c, StepsAre DEF Goal, Effect, Has, Of, Anc
<1>7. CASE Judge
  <2>1. \/ \E n \in Steps : \E k, tried : Stop(n, k, tried)
        \/ pc' = "push"
        \/ pc' = "record" /\ UNCHANGED <<st, step>> /\ origin = cand
    BY <1>7, <1>d, Zenon DEF Judge, Goto
  <2>2. pc = "judge" /\ UNCHANGED <<log, origin>>  BY <1>7 DEF Judge, repoVars
  <2> QED  BY <1>b, <1>c, <1>s, <1>x, <2>1, <2>2
<1>8. CASE Push
  <2>1. \/ \E n \in Steps : \E k, tried : Stop(n, k, tried)
        \/ pc' = "record" /\ UNCHANGED <<st, step>> /\ origin' = cand /\ UNCHANGED log
    BY <1>8, <1>d, Zenon DEF Push, OriginTakes
  <2>2. pc = "push"  BY <1>8 DEF Push
  <2> QED  BY <1>b, <1>c, <1>s, <2>1, <2>2
<1>9. CASE Verify
  <2>1. CASE \E n \in Steps : \E k, tried : Stop(n, k, tried)  BY <1>s, <2>1
  <2>2. CASE pc' = "record" /\ step' = CIVerified /\ st' = [st EXCEPT !.rc = cand]
    <3>1. pc = "verify" /\ UNCHANGED log  BY <1>9 DEF Verify, repoVars
    <3>2. st'.ver = st.ver /\ st'.rc = cand  BY <1>t, <2>2 DEF State
    <3>3. cand \in Commits' /\ (st.ver # 0 => Has(cand, "bump", st.ver))
      BY <1>o, <3>1 DEF Bumped
    <3> QED  BY <2>2, <3>1, <3>2, <3>3, StepsAre DEF Goal, Effect, Has, Of, Anc
  <2> QED  BY <1>9, <2>1, <2>2, StepsAre DEF Verify
\* A commit of the finalization.
<1>n. ASSUME pc = "walk", NEW k \in {"finalize", "archive"}, NEW c \in Nat, CommitAs(k, c), UNCHANGED step,
             step = IF k = "finalize" THEN ChangelogFinalized ELSE ReleaseArchived
      PROVE  Goal
  <2>1. st'.ver = st.ver /\ pc' = "advance" /\ head \in Commits
    BY <1>n, <1>t DEF CommitAs, State, Walking, Places
  <2>2. PICK v \in 0..MaxVersion : v = st.ver  BY <1>t DEF State
  <2>3. Has(head, k, v)'  BY <1>n, <2>1, <2>2, NewCommit DEF CommitAs, Kinds
  <2> QED  BY <1>n, <2>1, <2>2, <2>3, StepsAre DEF Goal, Effect
<1>10. CASE FinalizeChangelog
  <2>1. pc = "walk" /\ step = ChangelogFinalized /\ head = tip /\ NoCommit \in Nat
    BY <1>10, <1>p DEF FinalizeChangelog, At, Walking, Places, NoCommit
  <2>2. CASE \E n \in Steps : \E k, tried : Stop(n, k, tried)  BY <1>s, <2>2
  <2>3. CASE Goto("record") /\ UNCHANGED <<log, st>> /\ Has(head, "finalize", st.ver)
    BY <2>1, <2>3, StepsAre DEF Goto, Goal, Effect, Has, Of, Anc
  <2>4. CASE CommitAs("finalize", NoCommit) /\ UNCHANGED step  BY <1>n, <2>1, <2>4
  <2> QED  BY <1>10, <2>1, <2>2, <2>3, <2>4, StepsAre DEF FinalizeChangelog
<1>a. ASSUME pc = "walk", ArchivedAt(head, st.ver) # NoCommit PROVE Has(head, "archive", st.ver)
  <2>1. head \in Commits  BY <1>a, <1>t DEF Walking, Places
  <2> QED  BY <1>a, <1>t, <2>1, ArchivedNames
<1>g. ASSUME pc = "walk" PROVE cand \in Commits /\ cand \in Nat /\ cand # NoCommit
  BY <1>g DEF Bumped, Commits, NoCommit
<1>11. CASE Archive
  <2>1. pc = "walk" /\ step = ReleaseArchived /\ head = tip
    BY <1>11, <1>p DEF Archive, At, Walking, Places
  <2>2. CASE \E n \in Steps : \E k, tried : Stop(n, k, tried)  BY <1>s, <2>2
  <2>3. CASE Goto("record") /\ UNCHANGED <<log, st>> /\ ArchivedAt(head, st.ver) = cand
    <3>1. Has(head, "archive", st.ver)  BY <1>a, <1>g, <2>1, <2>3
    <3> QED  BY <2>1, <2>3, <3>1, StepsAre DEF Goto, Goal, Effect, Has, Of, Anc
  <2>4. CASE CommitAs("archive", cand) /\ UNCHANGED step  BY <1>g, <1>n, <2>1, <2>4
  <2> QED  BY <1>11, <2>1, <2>2, <2>3, <2>4, StepsAre DEF Archive, ReleaseCommit
<1>12. ASSUME NEW t \in Tags, Tag(t) \/ PushTag(t) PROVE Goal
  <2>1. pc \in {"walk", "pushtags"}  BY <1>12 DEF Tag, PushTag, At
  <2> QED  BY <1>x, <1>s, <1>12, <2>1 DEF Tag, PushTag, procVars
<1>13. CASE AllTagged
  <2>1. pc = "walk" /\ step = Tagged /\ UNCHANGED <<ltag, st, step>>
    BY <1>13 DEF AllTagged, At, Goto, tagVars
  <2>2. \A t \in Tags : ltag[st.ver][t] # NoCommit  BY <1>13, <1>g, <2>1 DEF AllTagged
  <2> QED  BY <1>13, <2>1, <2>2, StepsAre DEF AllTagged, Goto, Goal, Effect
<1>14. CASE AllTagsPushed
  <2>1. pc = "pushtags" /\ step = Pushed /\ UNCHANGED <<otag, st, step>> /\ cand # NoCommit
    BY <1>14 DEF AllTagsPushed, Goto, tagVars, Placed, Bumped, Commits, NoCommit
  <2>2. \A t \in Tags : otag[st.ver][t] # NoCommit  BY <1>14, <2>1 DEF AllTagsPushed
  <2> QED  BY <1>14, <2>1, <2>2, StepsAre DEF AllTagsPushed, Goto, Goal, Effect
<1>15. CASE GitHubRelease
  <2>1. pc = "walk" /\ step = GitHubReleaseCreated  BY <1>15 DEF GitHubRelease, At
  <2>2. CASE \E n \in Steps : \E k, tried : Stop(n, k, tried)  BY <1>s, <2>2
  <2>3. CASE /\ ArchivedAt(head, st.ver) # NoCommit /\ Goto("record") /\ UNCHANGED st
             /\ grel' = [grel EXCEPT ![st.ver] = ArchivedAt(head, st.ver)]
    <3>1. st.ver # 0 => grel'[st.ver] # NoCommit  BY <1>r, <1>v, <2>3
    <3> QED  BY <2>1, <2>3, <3>1, StepsAre DEF Goto, Goal, Effect
  <2> QED  BY <1>15, <2>1, <2>2, <2>3, StepsAre DEF GitHubRelease
<1>16. CASE PublishPipelines
  <2>1. pc = "walk" /\ step = PipelinesPublished /\ head # NoCommit /\ Goto("record") /\ UNCHANGED st
    BY <1>16, <1>t DEF PublishPipelines, At, Walking, Places, Commits, NoCommit
  <2>2. st.ver # 0 => pub'[st.ver] # NoCommit
    BY <1>16, <1>r, <1>v, <2>1 DEF PublishPipelines
  <2> QED  BY <2>1, <2>2, StepsAre DEF Goto, Goal, Effect
<1>17. CASE Deploy
  <2>1. pc = "walk" /\ step = Deployed /\ head # NoCommit /\ Goto("record") /\ UNCHANGED st
    BY <1>17, <1>t DEF Deploy, At, Walking, Places, Commits, NoCommit
  <2>2. st.ver # 0 => dep'[st.ver] # NoCommit  BY <1>17, <1>r, <1>v, <2>1 DEF Deploy
  <2> QED  BY <2>1, <2>2, StepsAre DEF Goto, Goal, Effect
<1>18. CASE PostReleaseHooks
  <2>1. CASE Goto("record") /\ UNCHANGED st /\ step = PostReleaseHooksRun
    BY <2>1, StepsAre DEF Goto, Goal, Effect
  <2> QED  BY <1>18, <1>x, <2>1 DEF PostReleaseHooks, At, Goto
<1>19. CASE Env
  <2>1. UNCHANGED <<procVars, st>>
    BY <1>19 DEF Env, CommitOnBranch, CommitOnOrigin, ChangelogAdd, Pull, StrayTag, EnvOnly
  <2>2. CASE pc \notin {"advance", "record"}  BY <1>x, <2>1, <2>2 DEF procVars
  <2>3. CASE pc = "advance"
    <3>1. head \in Commits /\ head' = head /\ Effect(step, st, head) /\ head' \in Commits' /\ head' \in Anc(head)'
      BY <1>t, <2>1, <2>3 DEF procVars, Recorded, Walking, Places, LogOK
    <3>2. \A n : Effect(n, st, head) => Effect(n, st, head)'  BY <1>l, <2>1, <3>1
    <3> QED  BY <2>1, <2>3, <3>1, <3>2 DEF procVars, Goal
  <2>4. CASE pc = "record"
    <3>1. tip \in Commits /\ tip' = tip /\ Effect(step, st, tip) /\ tip' \in Commits' /\ tip' \in Anc(tip)'
      BY <1>t, <2>1, <2>4 DEF procVars, Recorded, Walking, Places, LogOK
    <3>2. \A n : Effect(n, st, tip) => Effect(n, st, tip)'  BY <1>l, <2>1, <3>1
    <3> QED  BY <2>1, <2>4, <3>1, <3>2 DEF procVars, Goal
  <2> QED  BY <2>2, <2>3, <2>4
<1> QED
  BY <1>1, <1>2, <1>3, <1>4, <1>5, <1>6, <1>7, <1>8, <1>9, <1>10, <1>11, <1>12, <1>13, <1>14,
     <1>15, <1>16, <1>17, <1>18, <1>19 DEF Next, Operator, Walk

\* Where the release left the branch, and where a discard would leave it, are
\* never behind where they were.
LEMMA StandingStays ==
    ASSUME Structure, Structure', LogClosed, LogClosed', Position, Position', Next
    PROVE  /\ Standing \in Commits /\ Standing' \in Commits'
           /\ pc' # "clear" => Standing \in Anc(Standing)'
           /\ pc \in Walking => Before \in Commits
           /\ pc' \in Walking => Before' \in Commits'
           /\ pc \in Walking /\ pc' \in Walking => Before \in Anc(Before)'
<1>g. LogGrows /\ Commits \subseteq Commits'  BY LogKept
<1>t. /\ branch \in Commits /\ branch' \in Commits' /\ LogOK /\ LogOK' /\ NoCommit \notin Commits
      /\ pc \in Walking => head \in Commits /\ tip \in Commits
      /\ pc' \in Walking => head' \in Commits' /\ tip' \in Commits'
      /\ last \in Commits \cup {NoCommit} /\ last' \in Commits' \cup {NoCommit}
  BY DEF Structure, RefsOK, NoCommit, Commits
<1>k. \A c \in Commits, d \in Commits : c \in Anc(d) => c \in Anc(d)'
  BY <1>g DEF LogGrows, Anc
<1>o. \A c \in Commits : c \in Anc(c)'  BY <1>t, <1>k DEF LogOK
\* Ancestry carries over a step of the branch.
<1>c. ASSUME NEW c \in Commits, NEW d \in Commits, c \in Anc(d), NEW e \in Commits', d \in Anc(e)'
      PROVE  c \in Anc(e)'
  BY <1>c, <1>k DEF LogClosed
<1>p. pc \in Walking =>
            /\ tip \in Anc(branch) /\ tip \in Anc(head)
            /\ last # NoCommit => last \in Anc(tip)
  BY DEF Position
<1>1. Standing \in Commits /\ Standing' \in Commits'  BY <1>t DEF Standing
<1>2. /\ pc \in Walking => Before \in Commits
      /\ pc' \in Walking => Before' \in Commits'
  BY <1>t DEF Before
<1>b. ~Discard => branch \in Anc(branch)'  BY BranchGrows
<1>d. Discard => pc \in Walking /\ (UNCHANGED <<branch, log>> \/ pc' = "clear") /\ pc' \in {"clear", "idle"}
  BY DEF Discard, Goto, Stopped, Walking, Places
<1>e. pc \notin Walking /\ pc' \in Walking => tip' = branch
  BY MemoryStep DEF EnterFresh, EnterResume, Enter
<1>a. Advance => /\ UNCHANGED log /\ pc \in Walking
                 /\ pc' \in Walking => \/ UNCHANGED <<tip, last>>
                                       \/ tip' = head /\ last' = tip
  BY DEF Advance, Goto, Stop, Stopped, Walking, Places
<1>f. Discard /\ pc' \in Walking => \/ UNCHANGED <<tip, last>>
                                    \/ last # NoCommit /\ tip' = last /\ last' = NoCommit
  BY DEF Discard, Goto, Stopped, TakesBack, Walking, Places
<1>m. pc \in Walking /\ pc' \in Walking => UNCHANGED <<tip, last>> \/ Advance \/ Discard
  BY MemoryStep
<1>3. pc' # "clear" => Standing \in Anc(Standing)'
  <2> SUFFICES ASSUME pc' # "clear" PROVE Standing \in Anc(Standing)'  OBVIOUS
  <2>1. CASE pc \in Walking /\ pc' \in Walking
    <3>1. ~Discard  BY <1>d, <2>1 DEF Walking, Places
    <3>2. CASE UNCHANGED tip  BY <1>o, <1>t, <2>1, <3>2 DEF Standing
    <3>3. CASE tip' = head  BY <1>k, <1>p, <1>t, <2>1, <3>3 DEF Standing
    <3> QED  BY <1>m, <1>a, <2>1, <3>1, <3>2, <3>3
  <2>2. CASE pc \in Walking /\ pc' \notin Walking
    <3>1. branch \in Anc(branch)'  BY <1>b, <1>d, <1>o, <1>t
    <3> QED  BY <1>c, <1>p, <1>t, <2>2, <3>1 DEF Standing
  <2>3. CASE pc \notin Walking /\ pc' \in Walking  BY <1>e, <1>o, <1>t, <2>3 DEF Standing
  <2>4. CASE pc \notin Walking /\ pc' \notin Walking  BY <1>b, <1>d, <2>4 DEF Standing
  <2> QED  BY <2>1, <2>2, <2>3, <2>4
<1>4. pc \in Walking /\ pc' \in Walking => Before \in Anc(Before)'
  <2> SUFFICES ASSUME pc \in Walking, pc' \in Walking PROVE Before \in Anc(Before)'  OBVIOUS
  <2>1. CASE UNCHANGED <<tip, last>>  BY <1>o, <1>2, <2>1 DEF Before
  <2>2. CASE Advance /\ tip' = head /\ last' = tip
    BY <1>a, <1>k, <1>o, <1>p, <1>t, <2>2 DEF Before
  <2>3. CASE last # NoCommit /\ tip' = last /\ last' = NoCommit
    BY <1>o, <1>t, <2>3 DEF Before
  <2> QED  BY <1>a, <1>f, <1>m, <2>1, <2>2, <2>3
<1> QED  BY <1>1, <1>2, <1>3, <1>4

\* A state that records no more than a true one did is true.
LEMMA ToldStays ==
    ASSUME Structure, Structure', LogClosed', WorldGrows,
           NEW s \in State, NEW r \in State, NEW c \in Commits, NEW d \in Commits', c \in Anc(d)',
           r.ver = s.ver, r.done \subseteq s.done, r.rc = s.rc \/ CIVerified \notin r.done,
           Told(s, c)
    PROVE  Told(r, d)'
<1> SUFFICES ASSUME NEW n \in r.done PROVE Effect(n, r, d)'  BY DEF Told
<1>1. Effect(n, s, c)  BY DEF Told
<1> QED  BY <1>1, EffectStays

\* Without a crash in the middle of a discard, every step keeps the records true.
LEMMA RecordedKept ==
    ASSUME "crash-in-discard" \notin Faults, Structure, Structure', LogClosed, LogClosed',
           ArchivesName, Position, Position', Placed, Bumped, Recorded, Next
    PROVE  Recorded'
<1>t. /\ st \in State /\ st' \in State /\ entry \in State /\ entry' \in State /\ step \in Steps
      /\ WorldGrows
  BY WorldKept DEF Structure, TypeOK, Memory
<1>a. /\ Standing \in Commits /\ Standing' \in Commits'
      /\ pc' # "clear" => Standing \in Anc(Standing)'
      /\ pc \in Walking => Before \in Commits
      /\ pc' \in Walking => Before' \in Commits'
      /\ pc \in Walking /\ pc' \in Walking => Before \in Anc(Before)'
  BY StandingStays
\* EffectStays and ToldStays, for the states and commits of this step.
<1>e. \A s, r \in State : \A c \in Commits : \A d \in Commits' : \A n :
          /\ c \in Anc(d)' /\ r.ver = s.ver /\ (n = CIVerified => r.rc = s.rc)
          /\ Effect(n, s, c)
          => Effect(n, r, d)'
  BY <1>t, EffectStays
<1>l. \A s, r \in State : \A c \in Commits : \A d \in Commits' :
          /\ c \in Anc(d)' /\ r.ver = s.ver /\ r.done \subseteq s.done
          /\ r.rc = s.rc \/ CIVerified \notin r.done
          /\ Told(s, c)
          => Told(r, d)'
  BY <1>t, ToldStays
<1>1. ASSUME pc' # "clear" PROVE Told(st, Standing)'
  <2>1. CASE pc = "clear"
    <3>1. Clear
      <4>1. ~Crash  BY <2>1 DEF Crash, Fault
      <4>2. Env => UNCHANGED pc
        BY DEF Env, CommitOnBranch, CommitOnOrigin, ChangelogAdd, Pull, StrayTag, EnvOnly, procVars
      <4>3. ~StepError /\ ~Operator
        BY <2>1 DEF StepError, Operator, EnterFresh, EnterResume, Enter, Abandon
      <4>4. Walk => Clear
        BY <2>1 DEF Walk, Validate, Begin, Adopt, EntryGuard, Bump, Advance,
           Record, Discard, Candidate, Judge, Push, Dispatch, Verify, Gate, Skip,
           FinalizeChangelog, Archive, Tag, AllTagged, PushBranch, PushTag, AllTagsPushed,
           GitHubRelease, PublishPipelines, Deploy, PostReleaseHooks, Epilogue,
           CommitAbandoned, DropState, At
      <4> QED  BY <1>1, <2>1, <4>1, <4>2, <4>3, <4>4 DEF Next
    <3>2. CASE mode = "resume"
      <4>1. st' = entry /\ pc' = "idle" /\ UNCHANGED branch
        BY <3>1, <3>2 DEF Clear, StateBefore, Stopped, repoVars
      <4>2. Told(entry, Before) /\ Before \in Commits /\ branch \in Commits /\ branch' \in Commits'
        BY <1>a, <2>1, <3>2 DEF Recorded, Walking, Places, Structure, RefsOK
      <4>3. UNCHANGED log  BY <3>1 DEF Clear, repoVars
      <4>4. Before \in Anc(branch)
        <5>1. pc \in Walking /\ tip \in Commits
          BY <2>1 DEF Structure, RefsOK, Walking, Places
        <5> QED  BY <4>2, <5>1 DEF Position, Before, LogClosed
      <4>5. Before \in Anc(branch)'  BY <4>1, <4>3, <4>4 DEF Anc
      <4>6. PICK s \in State : s = entry  BY <1>t
      <4>7. PICK d \in Commits' : d = branch'  BY <4>2
      <4>8. Told(s, d)'  BY <1>l, <4>2, <4>5, <4>6, <4>7
      <4> QED  BY <4>1, <4>6, <4>7, <4>8 DEF Standing, Walking, Places
    <3>3. CASE mode # "resume"  BY <3>1, <3>3 DEF Clear, StateBefore, NoState, Told
    <3> QED  BY <3>2, <3>3
  <2>2. CASE pc # "clear"
    <3>1. Told(st, Standing) /\ Standing \in Anc(Standing)'
      BY <1>1, <1>a, <2>2 DEF Recorded
    <3>2. PICK s \in State : s = st  BY <1>t
    <3>3. PICK r \in State : r = st'  BY <1>t
    <3>4. PICK d \in Commits' : d = Standing'  BY <1>a
    <3>s. s.ver = r.ver /\ r.rc = s.rc => \A n : Effect(n, s, Standing) => Effect(n, r, d)'
      BY <1>a, <1>e, <3>1, <3>4
    <3>5. CASE /\ st'.ver = st.ver /\ st'.done \subseteq st.done
               /\ st'.rc = st.rc \/ CIVerified \notin st'.done
      <4>1. Told(r, d)'  BY <1>a, <1>l, <3>1, <3>2, <3>3, <3>4, <3>5
      <4> QED  BY <3>3, <3>4, <4>1
    <3>6. CASE st'.done = {}  BY <3>6 DEF Told
    <3>7. CASE Record
      <4>1. /\ r.done = s.done \cup {step} /\ r.ver = s.ver /\ r.rc = s.rc
        BY <1>t, <3>2, <3>3, <3>7, Recording, Walking1 DEF Record
      <4>2. Effect(step, s, Standing)
        BY <3>2, <3>7 DEF Record, Recorded, Standing, Walking, Places
      <4>3. \A n \in s.done : Effect(n, s, Standing)  BY <3>1, <3>2 DEF Told
      <4>4. \A n \in r.done : Effect(n, r, d)'  BY <3>s, <4>1, <4>2, <4>3
      <4>5. Told(r, d)'  BY <4>4 DEF Told
      <4> QED  BY <3>3, <3>4, <4>5
    <3>8. CASE Bump
      <4> DEFINE w == Complete(st, VersionBumped)
      <4>1. CASE UNCHANGED st  BY <3>5, <4>1
      <4>2. CASE st' \in {w, [w EXCEPT !.created = @ \cup {Next1}]}
        <5>1. w \in State /\ w.done = st.done \cup {VersionBumped} /\ w.ver = st.ver /\ w.rc = st.rc
          <6>1. VersionBumped \in Steps  BY StepsAre
          <6>2. w = Complete(s, VersionBumped)  BY <3>2
          <6>3. /\ w \in State /\ w.done = s.done \cup {VersionBumped}
                /\ w.ver = s.ver /\ w.rc = s.rc
            <7> HIDE DEF w
            <7> QED  BY <6>1, <6>2, Recording, Walking1
          <6> QED  BY <3>2, <6>3
        <5> HIDE DEF w
        <5>2. st'.done = w.done /\ st'.ver = w.ver /\ st'.rc = w.rc  BY <4>2, <5>1 DEF State
        <5>3. r.done = s.done \cup {VersionBumped} /\ r.ver = s.ver /\ r.rc = s.rc
          BY <3>2, <3>3, <5>1, <5>2
        <5>4. Effect(VersionBumped, r, d)'  BY StepsAre DEF Effect
        <5>5. \A n \in s.done : Effect(n, s, Standing)  BY <3>1, <3>2 DEF Told
        <5>6. \A n \in r.done : Effect(n, r, d)'  BY <3>s, <5>3, <5>4, <5>5
        <5>7. Told(r, d)'  BY <5>6 DEF Told
        <5> QED  BY <3>3, <3>4, <5>7
      <4> QED  BY <3>8, <4>1, <4>2, Zenon DEF Bump
    <3>9. CASE Clear  BY <2>2, <3>9 DEF Clear
    <3>10. CASE Verify
      <4>1. CASE \E n \in Steps : \E k, tried : Stop(n, k, tried)
        <5>1. PICK n \in Steps : st' = st \/ st' = Fail(st, n)  BY <4>1 DEF Stop
        <5>2. /\ st'.ver = st.ver /\ st'.done \subseteq st.done /\ st'.rc = st.rc
          BY <1>t, <5>1 DEF Fail, State
        <5> QED  BY <3>5, <5>2
      <4>2. CASE st' = [st EXCEPT !.rc = cand]
        <5>1. r.done = s.done /\ r.ver = s.ver /\ r.rc = cand
          BY <1>t, <3>2, <3>3, <4>2 DEF State
        <5>2. pc = "verify" /\ UNCHANGED log  BY <3>10 DEF Verify, repoVars
        <5>3. cand \in Commits /\ (s.ver # 0 => Has(cand, "bump", s.ver))
          BY <3>2, <5>2 DEF Bumped
        <5>4. r.rc \in Commits' /\ (r.ver # 0 => Has(r.rc, "bump", r.ver)')
          BY <5>1, <5>2, <5>3 DEF Commits, Has, Of, Anc
        <5>5. Effect(CIVerified, r, d)'  BY <5>4, StepsAre DEF Effect
        <5>6. \A n \in s.done : Effect(n, s, Standing)  BY <3>1, <3>2 DEF Told
        <5>7. \A n \in s.done \ {CIVerified} : Effect(n, r, d)'
          BY <1>a, <1>e, <3>1, <3>4, <5>1, <5>6
        <5>8. Told(r, d)'  BY <5>1, <5>5, <5>7 DEF Told
        <5> QED  BY <3>3, <3>4, <5>8
      <4> QED  BY <3>10, <4>1, <4>2, StepsAre DEF Verify
    <3> QED  BY <3>5, <3>6, <3>7, <3>8, <3>9, <3>10, StateStep
  <2> QED  BY <2>1, <2>2
<1>2. ASSUME mode' = "resume", pc' \in Walking PROVE Told(entry, Before)'
  <2>1. CASE pc \notin Walking
    <3>1. entry' = NoState
      BY <1>2, <2>1, MemoryStep DEF EnterFresh, EnterResume, Enter, Position
    <3> QED  BY <3>1 DEF Told, NoState
  <2>2. CASE pc \in Walking
    <3>1. mode = "resume" /\ (UNCHANGED entry \/ Adopt) /\ Before \in Anc(Before)'
      BY <1>2, <1>a, <2>2, MemoryStep
    <3>2. PICK d \in Commits' : d = Before'  BY <1>2, <1>a
    <3>3. CASE UNCHANGED entry
      <4>1. PICK s \in State : s = entry  BY <1>t
      <4>2. Told(s, d)'  BY <1>a, <1>l, <2>2, <3>1, <3>2, <4>1 DEF Recorded
      <4> QED  BY <3>2, <3>3, <4>1, <4>2
    <3>4. CASE Adopt /\ entry' # entry
      <4>1. PICK s \in State : s = st  BY <1>t
      <4>2. entry' = st /\ pc = "entered" /\ Told(st, tip) /\ last = NoCommit
        BY <1>2, <3>4 DEF Adopt, Recorded, Standing, Stopped, Position, Walking, Places
      <4>3. Told(s, d)'  BY <1>a, <1>l, <2>2, <3>1, <3>2, <4>1, <4>2 DEF Before
      <4> QED  BY <3>2, <4>1, <4>2, <4>3
    <3> QED  BY <3>1, <3>3, <3>4
  <2> QED  BY <2>1, <2>2
<1>3. /\ pc' = "advance" => Effect(step, st, head)'
      /\ pc' = "record" => Effect(step, st, tip)'
  BY EffectDone
<1> QED  BY <1>1, <1>2, <1>3 DEF Recorded

-----------------------------------------------------------------------------
(* The theorems about the record of steps and about the tags. *)

\* At first nothing is recorded and nothing in progress.
LEMMA InitAccounted ==
    ASSUME Init
    PROVE  Accounted
<1> USE DEF Walking, Places
<1>1. Placed  BY DEF Init, Placed
<1>2. Commits = {1} /\ Anc(1) = {1} /\ log[1].kind = "base"  BY DEF Init, Commits, Anc
<1>3. LogClosed /\ ArchivesName  BY <1>2 DEF LogClosed, ArchivesName
<1>4. Position  BY DEF Init, Position
<1>5. Behind /\ Bumped  BY DEF Init, Behind, Bumped, Entries, NoState
<1>6. Recorded  BY DEF Init, Recorded, Told, NoState
<1> QED  BY <1>1, <1>3, <1>4, <1>5, <1>6 DEF Accounted

\* Every step keeps what the record rests on, unless a process dies in the
\* middle of a discard.
LEMMA AccountedKept ==
    ASSUME "crash-in-discard" \notin Faults, Structure, Structure', Accounted, [Next]_vars
    PROVE  Accounted'
<1>1. CASE Next
  <2>1. Placed' /\ LogClosed' /\ ArchivesName'
    BY <1>1, PlacedKept, ClosedKept, ArchivesKept DEF Accounted
  <2>2. Position' /\ Behind'  BY <1>1, PositionKept, BehindKept DEF Accounted
  <2>3. Bumped'  BY <1>1, BumpedKept DEF Accounted
  <2>4. Recorded'  BY <1>1, <2>1, <2>2, RecordedKept DEF Accounted
  <2> QED  BY <2>1, <2>2, <2>3, <2>4 DEF Accounted
<1>2. CASE UNCHANGED vars
  <2>1. Placed' /\ LogClosed' /\ ArchivesName'
    BY <1>2 DEF vars, procVars, Accounted, Placed, LogClosed, ArchivesName, Commits, Anc
  <2>2. Position' /\ Behind' /\ Bumped'
    BY <1>2 DEF vars, procVars, Accounted, Position, Behind, Bumped, Commits, Anc, Has, Of
  <2>3. \A n, s, c : Effect(n, s, c) => Effect(n, s, c)'
    BY <1>2 DEF vars, Effect, Commits, Anc, Has, Of
  <2>4. Recorded'
    BY <1>2, <2>3 DEF vars, procVars, Accounted, Recorded, Told, Standing, Before
  <2> QED  BY <2>1, <2>2, <2>4 DEF Accounted
<1> QED  BY <1>1, <1>2

\* However a release is interrupted, fails, is resumed, discarded or joined by
\* other people's commits, every step its state records as completed was done,
\* and a walk that ends has left none out - unless the process dies between the
\* two halves of a discard.
THEOREM StepsStayTrue ==
    ASSUME "crash-in-discard" \notin Faults
    PROVE  Spec => []StepsAreTrue
<1>1. Init => Accounted  BY InitAccounted
<1>2. Structure /\ Structure' /\ Accounted /\ [Next]_vars => Accounted'  BY AccountedKept
<1>3. Structure /\ Accounted /\ Verified => StepsAreTrue
  <2> SUFFICES ASSUME Structure, Accounted, Verified PROVE StepsAreTrue  OBVIOUS
  <2>1. NoStepForgotten  BY DEF Accounted, Behind, NoStepForgotten, MissingSteps, Walked
  <2>2. RecordedIsDone
    <3> SUFFICES ASSUME InProgress, pc = "idle" PROVE RecordedIsDone  BY DEF RecordedIsDone
    <3>1. Told(st, branch) /\ st.ver # 0 /\ branch \in Commits
      BY DEF Accounted, Recorded, Standing, InProgress, Walking, Structure, RefsOK
    <3>2. Has(branch, "archive", st.ver) => ArchivedAt(branch, st.ver) # NoCommit
      BY <3>1, ArchivedNames DEF Accounted, Structure
    <3>3. CIVerified \in st.done /\ PushCI => st.rc \in green  BY DEF Verified, Green
    <3> QED  BY <3>1, <3>2, <3>3, StepsAre DEF Told, Effect, RecordedIsDone
  <2> QED  BY <2>1, <2>2 DEF StepsAreTrue
<1> QED  BY <1>1, <1>2, <1>3, StructureHolds, VerifiedHolds, PTL DEF Spec

\* A tag here is at a commit that holds its version's bump, and a step that
\* creates one puts it there.
LEMMA TagsPlacedKept ==
    /\ Structure /\ Structure' /\ Accounted /\ Accounted' /\ [Next]_vars
    /\ TagsPlaced
    => TagsPlaced'
<1> SUFFICES ASSUME Structure, Structure', Accounted, Accounted', [Next]_vars, TagsPlaced,
                    NEW v \in Version, NEW t \in Tags, ltag'[v][t] # NoCommit
             PROVE  ltag'[v][t] \in Commits' /\ Has(ltag[v][t], "bump", v)'
  BY DEF TagsPlaced
<1>l. Len(log) \in Nat /\ Len(log') \in Nat  BY DEF Structure, TypeOK, Repository
<1>t. /\ ltag \in [Version -> [Tags -> Nat]] /\ st \in State /\ LogOK /\ LogClosed'
  BY DEF Structure, TypeOK, Outside, Memory, Accounted
<1>g. LogGrows /\ Commits \subseteq Commits'
  <2>1. CASE UNCHANGED vars  BY <2>1 DEF vars, LogGrows, Commits
  <2> QED  BY <2>1, LogKept
<1>k. ASSUME NEW c \in Commits, Has(c, "bump", v) PROVE c \in Commits' /\ Has(c, "bump", v)'
  <2>1. c \in Commits' /\ c \in Anc(c)'  BY <1>t, <1>g DEF LogOK, LogGrows, Anc
  <2> QED  BY <1>k, <1>l, <1>t, <1>g, <2>1, HasStays
<1>1. PICK d \in Nat : d = ltag'[v][t]  BY DEF Structure, TypeOK, Outside
<1>2. CASE ltag[v][t] # NoCommit
  <2>1. d = ltag[v][t] /\ d \in Commits /\ Has(d, "bump", v)
    BY <1>1, <1>2, TagsStay DEF TagsPlaced
  <2>2. d \in Commits' /\ Has(d, "bump", v)'  BY <1>k, <2>1
  <2> QED  BY <1>1, <2>2
<1>3. CASE ltag[v][t] = NoCommit
  <2>1. PICK u \in Tags : Tag(u)
    <3>1. ltag' # ltag  BY <1>3
    <3> QED  BY <3>1, TagStep DEF vars, tagVars, PushTag, StrayTag
  <2>2. pc = "walk" /\ ltag' \in {ltag, [ltag EXCEPT ![st.ver][u] = cand]}
    BY <2>1 DEF Tag, At
  <2>3. v = st.ver /\ t = u /\ d = cand  BY <1>t, <1>1, <1>3, <2>2
  <2>4. cand \in Commits /\ Has(cand, "bump", v)
    BY <2>2, <2>3 DEF Accounted, Bumped, Version
  <2>5. d \in Commits' /\ Has(d, "bump", v)'  BY <1>k, <2>3, <2>4
  <2> QED  BY <1>1, <2>5
<1> QED  BY <1>2, <1>3

\* The commit a version is tagged at here holds that version's bump, whatever
\* else is committed, pushed, crashed and resumed before the tag is made.
THEOREM TagsHaveBumps ==
    ASSUME "crash-in-discard" \notin Faults
    PROVE  Spec => []TagHasBump
<1>1. Init => Accounted /\ TagsPlaced
  <2>1. Init => TagsPlaced  BY DEF Init, TagsPlaced, NoCommit
  <2> QED  BY <2>1, InitAccounted
<1>2. Structure /\ Structure' /\ Accounted /\ [Next]_vars => Accounted'  BY AccountedKept
<1>3. Structure /\ Structure' /\ Accounted /\ Accounted' /\ TagsPlaced /\ [Next]_vars => TagsPlaced'
  BY TagsPlacedKept
<1>4. TagsPlaced => TagHasBump  BY DEF TagsPlaced, TagHasBump
<1> QED  BY <1>1, <1>2, <1>3, <1>4, StructureHolds, PTL DEF Spec

-----------------------------------------------------------------------------
(* What a release ships is described. *)

\* What a commit's history holds never changes.
LEMMA CommitStays ==
    ASSUME LogOK, LogGrows, Len(log) \in Nat, Len(log') \in Nat, NEW c \in Commits
    PROVE  /\ c \in Commits' /\ Anc(c)' = Anc(c) /\ log'[c] = log[c]
           /\ Uncovered(c)' = Uncovered(c)
           /\ \A k, v : Has(c, k, v)' = Has(c, k, v)
<1>1. /\ c \in Commits' /\ Anc(c)' = Anc(c) /\ log'[c] = log[c]
      /\ \A d \in Anc(c) : log'[d] = log[d]
  BY DEF LogOK, LogGrows, Commits, Anc
<1>2. \A k, v : Has(c, k, v)' = Has(c, k, v)  BY <1>1 DEF Has, Of
<1>3. Uncovered(c)' = Uncovered(c)  BY <1>1 DEF Uncovered, IsAncestor, Anc
<1> QED  BY <1>1, <1>2, <1>3

\* A described commit stays one.
LEMMA DescribedStays ==
    ASSUME LogOK, LogGrows, Len(log) \in Nat, Len(log') \in Nat, NEW c, NEW v, Described(c, v)
    PROVE  Described(c, v)'
<1>1. c \in Commits  BY DEF Described
<1> QED  BY <1>1, CommitStays DEF Described

\* A state keeps its pin while what it records of CI's verdict stays as it was
\* and the commits it adds are its own.
LEMMA PinnedStays ==
    ASSUME Structure, Structure', LogClosed', LogGrows,
           NEW s \in State, NEW r \in State, NEW c \in Commits, NEW d \in Commits', c \in Anc(d)',
           r.ver = s.ver, r.pin = s.pin,
           \A e \in r.created : e \in s.created \/ (e \in Commits' /\ log'[e].kind # "work"),
           CIVerified \in r.done => \/ CIVerified \in s.done /\ r.rc = s.rc
                                    \/ Described(r.rc, r.ver)',
           Pinned(s, c)
    PROVE  Pinned(r, d)'
<1> SUFFICES ASSUME r.ver # 0 PROVE Pinned(r, d)'  BY DEF Pinned
<1>t. LogOK /\ Len(log) \in Nat /\ Len(log') \in Nat  BY DEF Structure, TypeOK, Repository
<1>1. /\ s.pin \in Anc(c) /\ Described(s.pin, s.ver)
      /\ \A e \in s.created : e \in Commits /\ log[e].kind # "work"
      /\ CIVerified \in s.done => Described(s.rc, s.ver)
  BY DEF Pinned
<1>2. r.pin \in Anc(d)'  BY <1>1, <1>t, CommitStays DEF LogClosed
<1>3. /\ Described(r.pin, r.ver)'
      /\ CIVerified \in r.done => Described(r.rc, r.ver)'
  BY <1>1, <1>t, DescribedStays
<1>4. \A e \in r.created : e \in Commits' /\ log'[e].kind # "work"
  BY <1>1, <1>t, CommitStays
<1> QED  BY <1>2, <1>3, <1>4 DEF Pinned

\* What a step does to what the state records of the pin, the commits made and
\* CI's verdict: nothing but to add a commit of its own or drop a verdict, or
\* it is one of the five that do more.
LEMMA PartsStep ==
    Structure /\ Next =>
        \/ st'.ver = 0
        \/ /\ st'.ver = st.ver /\ st'.pin = st.pin
           /\ \A e \in st'.created : e \in st.created \/ (e \in Commits' /\ log'[e].kind # "work")
           /\ CIVerified \in st'.done => CIVerified \in st.done /\ st'.rc = st.rc
        \/ Begin \/ Adopt \/ Verify \/ Record \/ Clear
<1> DEFINE Same == /\ st'.ver = st.ver /\ st'.pin = st.pin
                   /\ \A e \in st'.created : e \in st.created \/ (e \in Commits' /\ log'[e].kind # "work")
                   /\ CIVerified \in st'.done => CIVerified \in st.done /\ st'.rc = st.rc
<1> SUFFICES ASSUME Structure, Next, ~Begin, ~Adopt, ~Verify, ~Record, ~Clear
             PROVE  Same \/ st'.ver = 0
  OBVIOUS
<1>t. st \in State /\ step \in Steps /\ log \in Seq(CommitRecord) /\ Len(log) \in Nat
  BY DEF Structure, TypeOK, Memory, Repository
<1>c. /\ VersionBumped \in Steps /\ CandidatePushed \in Steps /\ CIVerified \in Steps
      /\ ChangelogFinalized \in Steps /\ PostReleaseHooksRun \in Steps
      /\ CIVerified # VersionBumped
  BY StepsAre
<1>n. NoState.ver = 0  BY DEF NoState
<1>u. ASSUME UNCHANGED st PROVE Same  BY <1>u
<1>f. ASSUME NEW n \in Steps, st' = Fail(st, n) PROVE Same  BY <1>t, <1>f DEF Fail, State
<1>s. ASSUME NEW n \in Steps, NEW k, NEW tried, Stop(n, k, tried) PROVE Same
  BY <1>u, <1>f, <1>s DEF Stop
<1>o. ASSUME st' \in {[st EXCEPT !.runall = cand], [st EXCEPT !.runall = NoCommit]}
      PROVE  Same
  BY <1>t, <1>o DEF State
\* A commit of the release's own.
<1>k. ASSUME NEW k \in {"bump", "finalize", "archive"}, NEW c, NEW v, NEW P,
             log' = Extend(P, k, v, c)
      PROVE  Next1 \in Commits' /\ log'[Next1].kind # "work"
  BY <1>t, <1>k DEF Extend, Next1, Commits
<1>m. ASSUME st' = [st EXCEPT !.created = @ \cup {Next1}],
             Next1 \in Commits', log'[Next1].kind # "work"
      PROVE  Same
  BY <1>t, <1>m DEF State
<1>p. Complete(st, VersionBumped) \in State  BY <1>c, <1>t, Recording
<1>q. ASSUME st' \in {Complete(st, VersionBumped),
                      [Complete(st, VersionBumped) EXCEPT !.created = @ \cup {Next1}]},
             st' = Complete(st, VersionBumped) \/ (Next1 \in Commits' /\ log'[Next1].kind # "work")
      PROVE  Same
  <2>1. /\ st'.ver = st.ver /\ st'.pin = st.pin /\ st'.rc = st.rc
        /\ st'.done = st.done \cup {VersionBumped}
        /\ st'.created = st.created \/ (st'.created = st.created \cup {Next1} /\ st' # Complete(st, VersionBumped))
    BY <1>t, <1>q DEF Complete, State
  <2> QED  BY <1>c, <1>q, <2>1
<1> HIDE DEF Same
<1>1. CASE EnterFresh \/ EnterResume \/ Abandon \/ Crash
  BY <1>u, <1>1 DEF EnterFresh, EnterResume, Enter, Abandon, Crash
<1>2. CASE Validate \/ Epilogue \/ DropState
  BY <1>u, <1>n, <1>2 DEF Validate, Epilogue, DropState
<1>5. CASE Candidate
  <2>1. CASE UNCHANGED st  BY <1>u, <2>1
  <2>2. CASE st' = [st EXCEPT !.rc = tip] /\ CIVerified \notin st.done
    BY <1>t, <2>2 DEF State, Same
  <2> QED  BY <1>5, <2>1, <2>2, Zenon DEF Candidate
<1>6. CASE EntryGuard \/ Advance \/ Discard
  BY <1>t, <1>c, <1>u, <1>s, <1>f, <1>6 DEF EntryGuard, Advance, Discard
<1>7. CASE Judge  BY <1>c, <1>u, <1>s, <1>o, <1>7, Zenon DEF Judge
<1>8. CASE Push  BY <1>c, <1>u, <1>s, <1>8, Zenon DEF Push
<1>9. CASE Dispatch \/ Gate  BY <1>c, <1>u, <1>s, <1>o, <1>9 DEF Dispatch, Gate
<1>10. CASE FinalizeChangelog \/ Archive
  <2>1. \/ UNCHANGED st \/ \E k, tried : Stop(step, k, tried)
        \/ CommitAs("finalize", NoCommit) \/ CommitAs("archive", cand)
    BY <1>10, Zenon DEF FinalizeChangelog, Archive, ReleaseCommit
  <2>2. CASE CommitAs("finalize", NoCommit)  BY <1>k, <1>m, <2>2 DEF CommitAs
  <2>3. CASE CommitAs("archive", cand)  BY <1>k, <1>m, <2>3 DEF CommitAs
  <2> QED  BY <1>t, <1>u, <1>s, <2>1, <2>2, <2>3
<1>11. ASSUME NEW t \in Tags, Tag(t) \/ PushTag(t) PROVE Same
  BY <1>t, <1>u, <1>s, <1>11 DEF Tag, PushTag
<1>12. CASE PushBranch  BY <1>t, <1>u, <1>s, <1>12, Zenon DEF PushBranch
<1>13. CASE \/ Skip \/ AllTagged \/ AllTagsPushed \/ PublishPipelines \/ Deploy \/ CommitAbandoned
  BY <1>u, <1>13 DEF Skip, AllTagged, AllTagsPushed, PublishPipelines, Deploy, CommitAbandoned
<1>14. CASE GitHubRelease \/ StepError
  BY <1>t, <1>u, <1>s, <1>14 DEF GitHubRelease, StepError
<1>15. CASE PostReleaseHooks  BY <1>c, <1>u, <1>f, <1>15 DEF PostReleaseHooks
<1>16. CASE Env
  BY <1>u, <1>16 DEF Env, CommitOnBranch, CommitOnOrigin, ChangelogAdd, Pull, StrayTag, EnvOnly
<1>17. CASE Bump
  <2>1. \/ UNCHANGED st \/ st' = Complete(st, VersionBumped)
        \/ /\ log' = Extend({head}, "bump", st.ver, NoCommit)
           /\ st' = [Complete(st, VersionBumped) EXCEPT !.created = @ \cup {Next1}]
    BY <1>17, Zenon DEF Bump
  <2> QED  BY <1>k, <1>q, <1>u, <2>1
<1> QED
  BY <1>1, <1>2, <1>5, <1>6, <1>7, <1>8, <1>9, <1>10, <1>11, <1>12, <1>13, <1>14, <1>15, <1>16, <1>17
     DEF Next, Operator, Walk

\* The steps that bring the walk past the guard at the candidate's push are
\* that guard and a resume past the verdict; those after it keep the candidate.
LEMMA GuardStep ==
    Structure /\ Next /\ PastGuard' =>
        \/ PastGuard /\ cand' = cand /\ st'.ver = st.ver
        \/ Judge /\ Foreign = {} /\ cand' = cand /\ st'.ver = st.ver
        \/ Candidate /\ pc' = "gate"
<1> DEFINE Same == PastGuard /\ cand' = cand /\ st'.ver = st.ver
           Arm  == Judge /\ Foreign = {} /\ cand' = cand /\ st'.ver = st.ver
           Goal == ~PastGuard' \/ Same \/ Arm \/ (Candidate /\ pc' = "gate")
<1> SUFFICES ASSUME Structure, Next PROVE Goal  OBVIOUS
<1>t. st \in State /\ step \in Steps  BY DEF Structure, TypeOK, Memory
<1>c. /\ VersionBumped \in Steps /\ CandidatePushed \in Steps /\ CIVerified \in Steps
      /\ ChangelogFinalized \in Steps
  BY StepsAre
<1>x. ASSUME \/ pc' \in {"idle", "entered", "prepared", "guard", "bump", "discard", "clear", "candidate",
                         "judge", "epilogue", "archived", "drop"}
             \/ pc' \in {"advance", "record"} /\ step' = Committed
      PROVE  Goal
  BY <1>x DEF PastGuard
<1>k. ASSUME cand' = cand, st'.ver = st.ver,
             \/ pc \in {"push", "verify", "gate", "walk", "pushtags"}
             \/ pc \in {"advance", "record"} /\ step # Committed
      PROVE  Goal
  BY <1>k DEF PastGuard
<1>s. ASSUME NEW n \in Steps, NEW k, NEW tried, Stop(n, k, tried) PROVE Goal
  BY <1>x, <1>s DEF Stop, Goto, Stopped
<1>z. ASSUME Stopped PROVE Goal  BY <1>x, <1>z DEF Stopped
<1> HIDE DEF Goal
<1>1. CASE EnterFresh \/ EnterResume \/ Abandon \/ Validate \/ CommitAbandoned
  BY <1>x, <1>z, <1>1 DEF EnterFresh, EnterResume, Enter, Abandon, Validate, CommitAbandoned, Goto
<1>2. CASE Begin \/ Adopt \/ Clear \/ Epilogue \/ DropState \/ Crash
  BY <1>x, <1>z, <1>2 DEF Begin, Adopt, Clear, Epilogue, DropState, Crash, Goto
<1>3. CASE EntryGuard \/ Discard
  BY <1>c, <1>x, <1>s, <1>z, <1>3 DEF EntryGuard, Discard, Goto
<1>4. CASE Bump  BY <1>x, <1>4 DEF Bump, BumpOwed
<1>5. CASE Advance
  <2>1. \/ \E n \in Steps : \E k, tried : Stop(n, k, tried)
        \/ pc' = "record" /\ UNCHANGED <<st, step, cand>>
    BY <1>t, <1>5, Zenon DEF Advance, Goto
  <2>2. pc = "advance"  BY <1>5 DEF Advance
  <2>3. CASE pc' = "record" /\ UNCHANGED <<st, step, cand>> /\ step = Committed
    BY <1>x, <2>3
  <2>4. CASE pc' = "record" /\ UNCHANGED <<st, step, cand>> /\ step # Committed
    BY <1>k, <2>2, <2>4
  <2> QED  BY <1>s, <2>1, <2>3, <2>4
<1>6. CASE Record
  <2>1. st'.ver = st.ver /\ cand' = cand /\ pc = "record"
    BY <1>t, <1>6, Recording, Walking1 DEF Record
  <2>2. CASE step = Committed  BY <1>6, <1>x, <2>2, StepsAre DEF Record
  <2> QED  BY <1>k, <2>1, <2>2
<1>7. CASE Candidate
  <2>1. pc' \in {"gate", "discard", "judge"}  BY <1>7, Zenon DEF Candidate
  <2> QED  BY <1>7, <1>x, <2>1 DEF Goal
<1>8. CASE Judge
  <2>1. \/ \E n \in Steps : \E k, tried : Stop(n, k, tried)
        \/ Foreign = {} /\ cand' = cand /\ st' \in {st, [st EXCEPT !.runall = cand]}
    BY <1>8, <1>c, Zenon DEF Judge, Goto
  <2>2. [st EXCEPT !.runall = cand].ver = st.ver  BY <1>t DEF State
  <2> QED  BY <1>8, <1>s, <2>1, <2>2 DEF Goal
<1>9. CASE Push
  <2>1. \/ \E n \in Steps : \E k, tried : Stop(n, k, tried)
        \/ UNCHANGED <<st, cand>>
    BY <1>9, <1>c, Zenon DEF Push
  <2>2. pc = "push"  BY <1>9 DEF Push
  <2> QED  BY <1>k, <1>s, <2>1, <2>2
<1>10. CASE Dispatch
  <2>1. [st EXCEPT !.runall = NoCommit].ver = st.ver  BY <1>t DEF State
  <2> QED  BY <1>c, <1>k, <1>s, <1>10, <2>1 DEF Dispatch, Goto
<1>11. CASE Verify
  <2>1. [st EXCEPT !.rc = cand].ver = st.ver  BY <1>t DEF State
  <2> QED  BY <1>c, <1>k, <1>s, <1>11, <2>1 DEF Verify
<1>12. CASE Gate \/ Skip  BY <1>c, <1>k, <1>s, <1>12 DEF Gate, Skip, Goto
<1>13. CASE FinalizeChangelog \/ Archive
  <2>1. [st EXCEPT !.created = @ \cup {Next1}].ver = st.ver /\ pc = "walk"
    BY <1>t, <1>13 DEF State, FinalizeChangelog, Archive, At
  <2> QED  BY <1>t, <1>k, <1>s, <1>13, <2>1 DEF FinalizeChangelog, Archive, Goto, CommitAs
<1>14. ASSUME NEW t \in Tags, Tag(t) \/ PushTag(t) PROVE Goal
  BY <1>t, <1>s, <1>k, <1>14 DEF Tag, PushTag, At, procVars
<1>15. CASE AllTagged \/ AllTagsPushed \/ PublishPipelines \/ Deploy
  BY <1>k, <1>15 DEF AllTagged, AllTagsPushed, PublishPipelines, Deploy, At, Goto
<1>16. CASE PushBranch
  <2>1. \/ \E n \in Steps : \E k, tried : Stop(n, k, tried)
        \/ UNCHANGED <<st, cand>>
    BY <1>t, <1>16, Zenon DEF PushBranch
  <2> QED  BY <1>16, <2>1, <1>s, <1>k DEF PushBranch, At
<1>17. CASE GitHubRelease  BY <1>t, <1>s, <1>k, <1>17 DEF GitHubRelease, At, Goto
<1>e. CASE StepError  BY <1>t, <1>s, <1>e DEF StepError
<1>18. CASE PostReleaseHooks  BY <1>k, <1>x, <1>18 DEF PostReleaseHooks, At, Goto
<1>19. CASE Env
  <2>1. UNCHANGED <<pc, step, cand, st>>
    BY <1>19 DEF Env, CommitOnBranch, CommitOnOrigin, ChangelogAdd, Pull, StrayTag, EnvOnly, procVars
  <2> QED  BY <2>1 DEF Goal, PastGuard
<1> QED
  BY <1>1, <1>2, <1>3, <1>4, <1>5, <1>6, <1>7, <1>8, <1>9, <1>10, <1>11, <1>12, <1>13, <1>14, <1>15,
     <1>16, <1>17, <1>e, <1>18, <1>19 DEF Next, Operator, Walk, Goal

\* A verdict is recorded with the candidate it is about.
LEMMA VerdictStep ==
    Structure /\ Placed /\ Next /\ pc' = "record" /\ step' = CIVerified =>
        \/ Verify /\ st' = [st EXCEPT !.rc = cand] /\ UNCHANGED cand
        \/ pc = "record" /\ step = CIVerified /\ UNCHANGED <<st, cand>>
<1> SUFFICES ASSUME Structure, Placed, Next, pc' = "record", step' = CIVerified, ~Verify
             PROVE  pc = "record" /\ step = CIVerified /\ UNCHANGED <<st, cand>>
  <2>1. ASSUME NEW n, NEW k, NEW tried, Stop(n, k, tried) PROVE pc' # "record"
    BY <2>1 DEF Stop, Goto, Stopped
  <2>2. Verify /\ pc' = "record" => st' = [st EXCEPT !.rc = cand] /\ UNCHANGED cand
    BY <2>1, Zenon DEF Verify
  <2> QED  BY <2>2
<1>s. ASSUME NEW n, NEW k, NEW tried, Stop(n, k, tried) PROVE FALSE
  BY <1>s DEF Stop, Goto, Stopped
<1>z. ~Stopped  BY DEF Stopped
<1>1. ~(EnterFresh \/ EnterResume \/ Abandon \/ Validate \/ CommitAbandoned)
  BY <1>z DEF EnterFresh, EnterResume, Enter, Abandon, Validate, CommitAbandoned, Goto
<1>2. ~(Begin \/ Adopt \/ Clear \/ Epilogue \/ DropState \/ Crash)
  BY <1>z DEF Begin, Adopt, Clear, Epilogue, DropState, Crash, Goto
<1>3. ~(EntryGuard \/ Discard \/ Candidate \/ Record \/ Gate \/ Skip)
  BY <1>s, <1>z DEF EntryGuard, Discard, Candidate, Record, Gate, Skip, Goto
<1>4. ~(Bump \/ PushBranch \/ Dispatch \/ StepError)
  BY <1>s DEF Bump, PushBranch, Dispatch, StepError, Goto
<1>5. ~Advance
  <2> SUFFICES ASSUME Advance PROVE FALSE  OBVIOUS
  <2>1. UNCHANGED step  BY <1>s, Zenon DEF Advance, Goto
  <2>2. step \in {Committed, ChangelogFinalized, ReleaseArchived}  BY DEF Advance, Placed
  <2>3. step # CIVerified
    BY <2>2 DEF Committed, CandidatePushed, CIVerified, ChangelogFinalized, ReleaseArchived
  <2> QED  BY <2>1, <2>3
<1>6. ~(Judge \/ Push)
  <2> SUFFICES ASSUME Judge \/ Push PROVE FALSE  OBVIOUS
  <2>1. UNCHANGED step  BY <1>s, Zenon DEF Judge, Push, Goto
  <2>2. step = CandidatePushed  BY DEF Judge, Push, Placed
  <2>3. step # CIVerified
    BY <2>2 DEF Committed, CandidatePushed, CIVerified, ChangelogFinalized, ReleaseArchived
  <2> QED  BY <2>1, <2>3
<1>7. ~(FinalizeChangelog \/ Archive)
  <2> SUFFICES ASSUME FinalizeChangelog \/ Archive PROVE FALSE  OBVIOUS
  <2>1. UNCHANGED step  BY <1>s, Zenon DEF FinalizeChangelog, Archive, Goto, CommitAs
  <2>2. step \in {ChangelogFinalized, ReleaseArchived}
    BY DEF FinalizeChangelog, Archive, At
  <2>3. step # CIVerified
    BY <2>2 DEF Committed, CandidatePushed, CIVerified, ChangelogFinalized, ReleaseArchived
  <2> QED  BY <2>1, <2>3
<1>8. ASSUME NEW t \in Tags PROVE ~(Tag(t) \/ PushTag(t))
  BY <1>s, StepsAre DEF Tag, PushTag, At, procVars
<1>9. ~(AllTagged \/ AllTagsPushed \/ PublishPipelines \/ Deploy \/ GitHubRelease \/ PostReleaseHooks)
  BY <1>s, StepsAre DEF AllTagged, AllTagsPushed, PublishPipelines, Deploy, GitHubRelease,
     PostReleaseHooks, At, Goto, Placed
<1>10. Env  BY <1>1, <1>2, <1>3, <1>4, <1>5, <1>6, <1>7, <1>8, <1>9 DEF Next, Operator, Walk
<1> QED
  BY <1>10 DEF Env, CommitOnBranch, CommitOnOrigin, ChangelogAdd, Pull, StrayTag, EnvOnly, procVars

\* A commit's history holds what a commit in it holds.
LEMMA HasBelow ==
    ASSUME LogClosed, NEW d \in Commits, NEW c \in Anc(d), NEW k, NEW v, Has(c, k, v)
    PROVE  Has(d, k, v)
BY DEF Has, Of, LogClosed

\* A commit of the branch past the pin holds nothing undescribed, if nobody
\* committed since, or if what they did is described.
LEMMA ReachesTip ==
    ASSUME LogOK, LogClosed, branch \in Commits, tip \in Commits, tip \in Anc(branch),
           st.ver # 0, Pinned(st, tip),
           \A w \in Foreign : log[w].kind = "work" =>
               \E e \in Anc(tip) : log[e].kind = "entry" /\ IsAncestor(w, e)
    PROVE  Described(tip, st.ver)
<1>1. /\ st.pin \in Anc(tip) /\ st.pin \in Commits
      /\ Uncovered(st.pin) = {} \/ Has(st.pin, "finalize", st.ver)
      /\ \A d \in st.created : log[d].kind # "work"
  BY DEF Pinned, Described
<1>2. CASE Has(st.pin, "finalize", st.ver)  BY <1>1, <1>2, HasBelow DEF Described
<1>3. CASE Uncovered(st.pin) = {}
  <2>1. ASSUME NEW w \in Uncovered(tip) PROVE FALSE
    <3>1. /\ w \in Anc(tip) /\ log[w].kind = "work"
          /\ ~\E e \in Anc(tip) : log[e].kind = "entry" /\ IsAncestor(w, e)
      BY <2>1 DEF Uncovered
    <3>2. w \in Anc(branch)  BY <3>1 DEF LogClosed
    <3>3. w \in Anc(st.pin)  BY <1>1, <3>1, <3>2 DEF Foreign
    <3>4. PICK e \in Anc(st.pin) : log[e].kind = "entry" /\ IsAncestor(w, e)
      BY <1>3, <3>1, <3>3 DEF Uncovered
    <3>5. e \in Anc(tip)  BY <1>1, <3>4 DEF LogClosed
    <3> QED  BY <3>1, <3>4, <3>5
  <2> QED  BY <2>1 DEF Described
<1> QED  BY <1>1, <1>2, <1>3

\* The guard at the candidate's push lets through a described candidate only.
LEMMA GuardDescribes ==
    ASSUME Structure, LogClosed, Position, Bumped, pc = "judge", Foreign = {}, st.ver # 0,
           Pinned(st, tip)
    PROVE  Described(cand, st.ver)
<1>1. /\ LogOK /\ branch \in Commits /\ tip \in Commits /\ tip \in Anc(branch) /\ cand = tip
  BY DEF Structure, RefsOK, Position, Bumped, Walking, Places
<1> QED  BY <1>1, ReachesTip

\* A resume that goes on is pinned at a described commit: the changelog is
\* settled, or it described what it adopted.
LEMMA AdoptPins ==
    ASSUME Structure, LogClosed, Position, Recorded, Adopt, st' # st,
           Pinned(st, Standing)
    PROVE  Pinned(st, tip)'
<1>t. /\ LogOK /\ branch \in Commits /\ tip \in Commits /\ head = tip /\ tip \in Anc(branch)
      /\ st \in State /\ Standing = tip /\ tip \in Anc(tip)
  BY DEF Structure, RefsOK, Position, Adopt, Walking, Places, Standing, TypeOK, Memory, LogOK
<1>1. PICK reverify \in BOOLEAN :
         st' = [st EXCEPT !.pin = tip,
                          !.done = IF reverify THEN @ \ {CIVerified} ELSE @,
                          !.rc = IF reverify THEN NoCommit ELSE @]
  BY Zenon DEF Adopt
<1>2. /\ AdoptedUncovered(Adopted) = {}
      /\ UNCHANGED <<log, tip>> /\ pc = "entered"
  BY DEF Adopt, Stopped, repoVars
<1>3. /\ st'.ver = st.ver /\ st'.pin = tip /\ st'.created = st.created
      /\ CIVerified \in st'.done => CIVerified \in st.done /\ st'.rc = st.rc
  BY <1>t, <1>1 DEF State
<1> SUFFICES ASSUME st.ver # 0 PROVE Pinned(st, tip)'  BY <1>3 DEF Pinned
<1>4. Described(tip, st.ver)
  <2>1. CASE ChangelogFinalized \in st.done
    <3>1. Told(st, tip)  BY <1>t, <1>2 DEF Recorded
    <3>2. Has(tip, "finalize", st.ver)  BY <2>1, <3>1 DEF Told, Effect
    <3> QED  BY <1>t, <3>2 DEF Described
  <2>2. CASE ChangelogFinalized \notin st.done
    <3>1. ASSUME NEW w \in Foreign, log[w].kind = "work"
          PROVE  \E e \in Anc(tip) : log[e].kind = "entry" /\ IsAncestor(w, e)
      <4>1. w \in Adopted  BY <2>2, <3>1 DEF Adopted
      <4>2. PICK e \in Unreleased(tip) : IsAncestor(w, e)
        BY <1>t, <1>2, <3>1, <4>1 DEF AdoptedUncovered
      <4> QED  BY <4>2 DEF Unreleased
    <3> QED  BY <1>t, <3>1, ReachesTip
  <2> QED  BY <2>1, <2>2
<1>5. /\ \A d \in st.created : d \in Commits /\ log[d].kind # "work"
      /\ CIVerified \in st.done => Described(st.rc, st.ver)
  BY <1>t DEF Pinned
<1>6. Commits' = Commits /\ \A c : Anc(c)' = Anc(c) /\ Uncovered(c)' = Uncovered(c)
  BY <1>2 DEF Commits, Anc, Uncovered, IsAncestor
<1>7. \A c, v : Described(c, v)' <=> Described(c, v)  BY <1>2, <1>6 DEF Described, Has, Of
<1>8. tip' \in Anc(tip)' /\ Described(st.pin, st.ver)'
  <2>1. PICK p \in Commits, v \in 0..MaxVersion : p = tip /\ v = st.ver  BY <1>t DEF State
  <2>2. Described(p, v)'  BY <1>4, <1>7, <2>1
  <2>3. st'.pin = p /\ st'.ver = v  BY <1>3, <2>1
  <2> QED  BY <1>t, <1>2, <1>6, <2>2, <2>3
<1>9. CIVerified \in st'.done => Described(st.rc, st.ver)'
  <2> SUFFICES ASSUME CIVerified \in st'.done PROVE Described(st.rc, st.ver)'  OBVIOUS
  <2>1. PICK p, v : p = st.rc /\ v = st.ver  OBVIOUS
  <2>2. Described(p, v)'  BY <1>3, <1>5, <1>7, <2>1
  <2> QED  BY <1>3, <2>1, <2>2
<1>10. \A d \in st'.created : d \in Commits' /\ log'[d].kind # "work"
  BY <1>2, <1>3, <1>5, <1>6
<1> QED  BY <1>2, <1>3, <1>8, <1>9, <1>10 DEF Pinned

\* The discard's second half has no other step beside it but people's and, if
\* there are such, the process's death.
LEMMA ClearOnly ==
    ASSUME "crash-in-discard" \notin Faults, Next, pc = "clear", pc' # "clear"
    PROVE  Clear
<1>1. ~Crash  BY DEF Crash, Fault
<1>2. ~Env
  BY DEF Env, CommitOnBranch, CommitOnOrigin, ChangelogAdd, Pull, StrayTag, EnvOnly, procVars
<1>3. ~StepError /\ ~Operator
  BY DEF StepError, Operator, EnterFresh, EnterResume, Enter, Abandon
<1>4. Walk => Clear
  BY DEF Walk, Validate, Begin, Adopt, EntryGuard, Bump, Advance,
     Record, Discard, Candidate, Judge, Push, Dispatch, Verify, Gate, Skip,
     FinalizeChangelog, Archive, Tag, AllTagged, PushBranch, PushTag, AllTagsPushed,
     GitHubRelease, PublishPipelines, Deploy, PostReleaseHooks, Epilogue,
     CommitAbandoned, DropState, At
<1> QED  BY <1>1, <1>2, <1>3, <1>4 DEF Next

\* Every step keeps the state pinned at a described commit, but in the middle
\* of a discard.
LEMMA PinKept ==
    ASSUME "crash-in-discard" \notin Faults, Structure, Structure', Accounted, Accounted',
           Shipping, Next, pc' # "clear"
    PROVE  Pinned(st, Standing)'
<1>t. /\ st \in State /\ st' \in State /\ entry \in State /\ step \in Steps /\ LogGrows
      /\ LogOK /\ LogClosed /\ LogClosed' /\ Position /\ Recorded /\ Placed
      /\ Len(log) \in Nat /\ Len(log') \in Nat
  BY LogKept DEF Structure, TypeOK, Memory, Repository, Accounted
<1>a. /\ Standing \in Commits /\ Standing' \in Commits'
      /\ Standing \in Anc(Standing)'
      /\ pc \in Walking => Before \in Commits
  BY StandingStays DEF Accounted
<1>l. \A s, r \in State : \A c \in Commits : \A d \in Commits' :
          /\ c \in Anc(d)' /\ r.ver = s.ver /\ r.pin = s.pin
          /\ \A e \in r.created : e \in s.created \/ (e \in Commits' /\ log'[e].kind # "work")
          /\ CIVerified \in r.done => \/ CIVerified \in s.done /\ r.rc = s.rc
                                      \/ Described(r.rc, r.ver)'
          /\ Pinned(s, c)
          => Pinned(r, d)'
  BY <1>t, PinnedStays
<1>d. \A c, v : Described(c, v) => Described(c, v)'  BY <1>t, DescribedStays
<1>3. PICK r \in State : r = st'  BY <1>t
<1>4. PICK d \in Commits' : d = Standing'  BY <1>a
<1>z. ASSUME st'.ver = 0 PROVE Pinned(st, Standing)'  BY <1>z DEF Pinned
<1>1. CASE pc = "clear"
  <2>1. Clear  BY <1>1, ClearOnly
  <2>2. CASE mode = "resume"
    <3>1. st' = entry /\ pc' = "idle" /\ UNCHANGED <<branch, log>>
      BY <2>1, <2>2 DEF Clear, StateBefore, Stopped, repoVars
    <3>2. Pinned(entry, Before) /\ Before \in Commits /\ branch \in Commits /\ d = branch
      BY <1>1, <1>4, <1>a, <2>2, <3>1 DEF Shipping, Walking, Places, Structure, RefsOK, Standing
    <3>3. Before \in Anc(branch)
      <4>1. pc \in Walking /\ tip \in Commits
        BY <1>1 DEF Structure, RefsOK, Walking, Places
      <4> QED  BY <1>t, <3>2, <4>1 DEF Position, Before, LogClosed
    <3>4. Before \in Anc(d)'  BY <3>1, <3>2, <3>3 DEF Anc
    <3>5. Pinned(r, d)'  BY <1>3, <1>l, <1>t, <3>1, <3>2, <3>4
    <3> QED  BY <1>3, <1>4, <3>5
  <2>3. CASE mode # "resume"  BY <1>z, <2>1, <2>3 DEF Clear, StateBefore, NoState
  <2> QED  BY <2>2, <2>3
<1>2. CASE pc # "clear"
  <2>1. Pinned(st, Standing)  BY <1>2 DEF Shipping
  <2>2. PICK s \in State : s = st  BY <1>t
  <2>g. ASSUME r.ver = s.ver, r.pin = s.pin,
               \A e \in r.created : e \in s.created \/ (e \in Commits' /\ log'[e].kind # "work"),
               CIVerified \in r.done => \/ CIVerified \in s.done /\ r.rc = s.rc
                                        \/ Described(r.rc, r.ver)'
        PROVE  Pinned(st, Standing)'
    <3>1. Pinned(r, d)'  BY <1>4, <1>a, <1>l, <2>1, <2>2, <2>g
    <3> QED  BY <1>3, <1>4, <3>1
  <2>3. CASE Begin
    <3>1. CASE st' = st  BY <1>3, <2>2, <2>g, <3>1
    <3>2. CASE st' # st
      <4>1. /\ st' = [NoState EXCEPT !.ver = VersionOf(head) + 1, !.pin = head]
            /\ Uncovered(head) = {} /\ pc' = "guard" /\ pc = "prepared" /\ UNCHANGED <<log, tip>>
        BY <2>3, <3>2 DEF Begin, Goto, repoVars, Stopped
      <4>2. head = tip /\ tip \in Commits
        BY <1>t, <4>1 DEF Position, Walking, Places, Structure, RefsOK
      <4>3. st'.pin = tip /\ st'.created = {} /\ st'.done = {}  BY <4>1, <4>2 DEF NoState
      <4>4. d = tip /\ Described(d, r.ver)' /\ d \in Anc(d)'
        <5>1. d = tip  BY <1>4, <4>1 DEF Standing, Walking, Places
        <5>2. Described(d, r.ver) /\ d \in Anc(d)
          BY <1>t, <4>1, <4>2, <5>1 DEF Described, LogOK
        <5> QED  BY <1>d, <4>1, <5>1, <5>2 DEF Anc
      <4>5. Pinned(r, d)'  BY <1>3, <4>3, <4>4 DEF Pinned
      <4> QED  BY <1>3, <1>4, <4>5
    <3> QED  BY <3>1, <3>2
  <2>4. CASE Adopt
    <3>1. CASE st' = st  BY <1>3, <2>2, <2>g, <3>1
    <3>2. CASE st' # st
      <4>1. Pinned(st, tip)'  BY <1>t, <2>1, <2>4, <3>2, AdoptPins
      <4>2. Standing' = tip'  BY <2>4, <3>2 DEF Adopt, Standing, Walking, Places, Stopped
      <4>3. Pinned(r, d)'  BY <1>3, <1>4, <4>1, <4>2
      <4> QED  BY <1>3, <1>4, <4>3
    <3> QED  BY <3>1, <3>2
  <2>5. CASE Verify
    <3>1. pc = "verify"  BY <2>5 DEF Verify
    <3>2. CASE \E n \in Steps : \E k, tried : Stop(n, k, tried)
      <4>1. PICK n \in Steps : st' = st \/ st' = Fail(st, n)  BY <3>2 DEF Stop
      <4>2. /\ st'.ver = st.ver /\ st'.pin = st.pin /\ st'.created = st.created
            /\ st'.done \subseteq st.done /\ st'.rc = st.rc
        BY <1>t, <4>1 DEF Fail, State
      <4> QED  BY <1>3, <2>2, <2>g, <4>2
    <3>3. CASE st' = [st EXCEPT !.rc = cand]
      <4>1. r.ver = s.ver /\ r.pin = s.pin /\ r.created = s.created /\ r.rc = cand
        BY <1>3, <1>t, <2>2, <3>3 DEF State
      <4>2. s.ver # 0 => Described(cand, s.ver)  BY <2>2, <3>1 DEF Shipping, PastGuard
      <4>3. r.ver # 0 => Described(r.rc, r.ver)'  BY <1>d, <4>1, <4>2
      <4> QED  BY <1>3, <1>z, <2>g, <4>1, <4>3
    <3> QED  BY <2>5, <3>2, <3>3, StepsAre DEF Verify
  <2>6. CASE Record
    <3>1. /\ r.done = s.done \cup {step} /\ r.ver = s.ver /\ r.rc = s.rc
      BY <1>t, <1>3, <2>2, <2>6, Recording, Walking1 DEF Record
    <3>2. r.pin = s.pin /\ r.created = s.created
      BY <1>t, <1>3, <2>2, <2>6 DEF Record, Complete, State
    <3>3. step = CIVerified /\ r.ver # 0 => Described(r.rc, r.ver)'
      <4> SUFFICES ASSUME step = CIVerified, r.ver # 0 PROVE Described(r.rc, r.ver)'
        OBVIOUS
      <4>1. pc = "record" /\ st.rc = cand /\ step # Committed
        BY <2>6, StepsAre DEF Record, Shipping
      <4>2. Described(cand, st.ver)  BY <2>2, <3>1, <4>1 DEF Shipping, PastGuard
      <4>3. Described(r.rc, r.ver)  BY <2>2, <3>1, <4>1, <4>2
      <4> QED  BY <1>d, <4>3
    <3> QED  BY <1>3, <1>z, <2>g, <3>1, <3>2, <3>3
  <2>7. CASE Clear  BY <1>2, <2>7 DEF Clear
  <2>8. CASE /\ st'.ver = st.ver /\ st'.pin = st.pin
             /\ \A e \in st'.created : e \in st.created \/ (e \in Commits' /\ log'[e].kind # "work")
             /\ CIVerified \in st'.done => CIVerified \in st.done /\ st'.rc = st.rc
    BY <1>3, <2>2, <2>8, <2>g
  <2> QED  BY <1>z, <2>3, <2>4, <2>5, <2>6, <2>7, <2>8, PartsStep
<1> QED  BY <1>1, <1>2

\* Every step keeps the state a resume found pinned, where a discard would
\* leave the branch.
LEMMA EntryPinKept ==
    ASSUME Structure, Structure', Accounted, Accounted', Shipping, Next, mode' = "resume",
           pc' \in Walking
    PROVE  Pinned(entry, Before)'
<1>t. /\ st \in State /\ entry \in State /\ entry' \in State /\ LogGrows
      /\ LogClosed /\ LogClosed' /\ Position
  BY LogKept DEF Structure, TypeOK, Memory, Accounted
<1>a. /\ pc \in Walking => Before \in Commits /\ Before \in Anc(Before)'
      /\ Before' \in Commits'
  BY StandingStays DEF Accounted
<1>l. \A s \in State : \A c \in Commits : \A d \in Commits' :
          c \in Anc(d)' /\ Pinned(s, c) => Pinned(s, d)'
  BY <1>t, PinnedStays
<1>1. CASE pc \notin Walking
  <2>1. entry' = NoState
    BY <1>1, <1>t, MemoryStep DEF EnterFresh, EnterResume, Enter, Position
  <2> QED  BY <2>1 DEF Pinned, NoState
<1>2. CASE pc \in Walking
  <2>1. mode = "resume" /\ (UNCHANGED entry \/ Adopt)  BY <1>2, MemoryStep
  <2>2. PICK d \in Commits' : d = Before'  BY <1>a
  <2>3. CASE UNCHANGED entry
    <3>1. PICK s \in State : s = entry  BY <1>t
    <3>2. Pinned(s, d)'  BY <1>2, <1>a, <1>l, <2>1, <2>2, <3>1 DEF Shipping
    <3> QED  BY <2>2, <2>3, <3>1, <3>2
  <2>4. CASE Adopt /\ entry' # entry
    <3>1. PICK s \in State : s = st  BY <1>t
    <3>2. entry' = st /\ pc = "entered" /\ last = NoCommit
      BY <1>t, <2>4 DEF Adopt, Stopped, Position, Walking, Places
    <3>3. Pinned(st, tip)  BY <3>2 DEF Shipping, Standing, Walking, Places
    <3>4. Pinned(s, d)'  BY <1>2, <1>a, <1>l, <2>2, <3>1, <3>2, <3>3 DEF Before
    <3> QED  BY <2>2, <3>1, <3>2, <3>4
  <2> QED  BY <2>1, <2>3, <2>4
<1> QED  BY <1>1, <1>2

\* The base of the history is described, and stays its base.
LEMMA BaseDescribed ==
    ASSUME LogOK, Len(log) \in Nat, Len(log) >= 1, log[1].kind = "base", NEW v
    PROVE  Described(1, v)
<1>1. 1 \in Commits /\ Anc(1) \subseteq {1}  BY DEF LogOK, Commits
<1>2. Uncovered(1) = {}  BY <1>1 DEF Uncovered
<1> QED  BY <1>1, <1>2 DEF Described

\* Every step keeps the candidate past the guard described.
LEMMA CandidateKept ==
    ASSUME Structure, Accounted, Shipping, Next, PastGuard', st'.ver # 0
    PROVE  Described(cand, st.ver)'
<1>d. \A c, v : Described(c, v) => Described(c, v)'
  BY LogKept, DescribedStays DEF Structure, TypeOK, Repository
<1>1. PICK c, v : c = cand' /\ v = st'.ver  OBVIOUS
<1> SUFFICES Described(c, v)  BY <1>1, <1>d
<1>2. CASE PastGuard /\ cand' = cand /\ st'.ver = st.ver  BY <1>1, <1>2 DEF Shipping
<1>3. CASE Judge /\ Foreign = {} /\ cand' = cand /\ st'.ver = st.ver
  <2>1. pc = "judge"  BY <1>3 DEF Judge
  <2>2. Pinned(st, tip)  BY <2>1 DEF Shipping, Standing, Walking, Places
  <2>3. Described(cand, st.ver)  BY <1>3, <2>1, <2>2, GuardDescribes DEF Accounted
  <2> QED  BY <1>1, <1>3, <2>3
<1>4. CASE Candidate /\ pc' = "gate"
  <2>1. pc = "candidate" /\ CIVerified \in st.done /\ cand' = st.rc /\ UNCHANGED st
    BY <1>4, Zenon DEF Candidate, RecordedCandidate
  <2>2. Pinned(st, Standing)  BY <2>1 DEF Shipping
  <2> QED  BY <1>1, <2>1, <2>2 DEF Pinned
<1> QED  BY <1>2, <1>3, <1>4, GuardStep

\* Every step keeps the tags on origin at described commits.
LEMMA TagsDescribed ==
    Structure /\ Accounted /\ Shipping /\ [Next]_vars =>
        \A v \in Version, t \in Tags : otag'[v][t] # NoCommit => Described(otag[v][t], v)'
<1> SUFFICES ASSUME Structure, Accounted, Shipping, [Next]_vars,
                    NEW v \in Version, NEW t \in Tags, otag'[v][t] # NoCommit
             PROVE  Described(otag[v][t], v)'
  OBVIOUS
<1>t. /\ otag \in [Version -> [Tags -> Nat]] /\ LogOK /\ Len(log) \in Nat /\ Len(log) >= 1
  BY DEF Structure, TypeOK, Outside, Repository, RefsOK, Commits
<1>g. LogGrows /\ Len(log') \in Nat
  <2>1. CASE UNCHANGED vars  BY <1>t, <2>1 DEF vars, LogGrows, Commits
  <2> QED  BY <2>1, LogKept
<1>d. \A c : Described(c, v) => Described(c, v)'  BY <1>t, <1>g, DescribedStays
<1>1. PICK d : d = otag'[v][t]  OBVIOUS
<1> SUFFICES Described(d, v)  BY <1>1, <1>d
<1>2. CASE otag[v][t] # NoCommit  BY <1>1, <1>2, TagsStay DEF Shipping
<1>3. CASE otag[v][t] = NoCommit
  <2>1. otag' # otag  BY <1>3
  <2>2. \/ \E u \in Tags : Tag(u) \/ PushTag(u)
        \/ \E w \in Version, u \in Tags : StrayTag(w, u)
    BY <2>1, TagStep DEF vars, tagVars
  <2>3. ASSUME NEW u \in Tags, Tag(u) \/ PushTag(u) PROVE Described(d, v)
    <3>1. pc = "pushtags" /\ otag' \in {otag, [otag EXCEPT ![st.ver][u] = cand]}
      BY <2>1, <2>3 DEF Tag, PushTag
    <3>2. v = st.ver /\ d = cand  BY <1>t, <1>1, <1>3, <3>1
    <3> QED  BY <3>1, <3>2 DEF Shipping, PastGuard, Version
  <2>4. ASSUME NEW w \in Version, NEW u \in Tags, StrayTag(w, u) PROVE Described(d, v)
    <3>1. otag' = [otag EXCEPT ![w][u] = 1]  BY <2>4 DEF StrayTag
    <3>2. d = 1  BY <1>t, <1>1, <1>3, <3>1
    <3> QED  BY <1>t, <3>2, BaseDescribed DEF Shipping
  <2> QED  BY <2>2, <2>3, <2>4
<1> QED  BY <1>2, <1>3

\* Every step keeps what is shipped described.
LEMMA ShippingKept ==
    ASSUME "crash-in-discard" \notin Faults, Structure, Structure', Accounted, Accounted',
           Shipping, [Next]_vars
    PROVE  Shipping'
<1>1. \A v \in Version, t \in Tags : otag'[v][t] # NoCommit => Described(otag[v][t], v)'
  BY TagsDescribed
<1>2. CASE Next
  <2>1. log'[1].kind = "base"
    <3>1. 1 \in Commits  BY DEF Structure, TypeOK, Repository, RefsOK, Commits
    <3> QED  BY <1>2, <3>1, LogKept DEF LogGrows, Shipping
  <2>2. pc' = "record" /\ step' = CIVerified => st'.rc = cand'
    <3> SUFFICES ASSUME pc' = "record", step' = CIVerified PROVE st'.rc = cand'  OBVIOUS
    <3>1. st \in State  BY DEF Structure, TypeOK, Memory
    <3>2. [st EXCEPT !.rc = cand].rc = cand  BY <3>1 DEF State
    <3> QED  BY <1>2, <3>2, VerdictStep DEF Accounted, Shipping
  <2>3. pc' # "clear" => Pinned(st, Standing)'  BY <1>2, PinKept
  <2>4. mode' = "resume" /\ pc' \in Walking => Pinned(entry, Before)'  BY <1>2, EntryPinKept
  <2>5. PastGuard' /\ st'.ver # 0 => Described(cand, st.ver)'  BY <1>2, CandidateKept
  <2> QED  BY <1>1, <2>1, <2>2, <2>3, <2>4, <2>5 DEF Shipping, Walking
<1>3. CASE UNCHANGED vars
  <2>1. Commits' = Commits /\ \A c : Anc(c)' = Anc(c) /\ Uncovered(c)' = Uncovered(c)
    BY <1>3 DEF vars, Commits, Anc, Uncovered, IsAncestor
  <2>2. \A c, v : Described(c, v) => Described(c, v)'
    BY <1>3, <2>1 DEF vars, Described, Has, Of
  <2>3. \A s, c : Pinned(s, c) => Pinned(s, c)'  BY <1>3, <2>1, <2>2 DEF vars, Pinned
  <2> QED
    BY <1>1, <1>3, <2>2, <2>3 DEF vars, procVars, Shipping, Standing, Before, Walking, PastGuard
<1> QED  BY <1>2, <1>3

\* What a tag on origin ships has changelog entries, but for a candidate made
\* anew after the changelog was settled: no commit somebody else makes at any
\* time of the release, its failures and resumes slips under the version - unless
\* the process dies between the two halves of a discard.
THEOREM NothingShipsUndescribed ==
    ASSUME "crash-in-discard" \notin Faults
    PROVE  Spec => []NothingUndescribed
<1>1. Init => Accounted /\ Shipping
  <2> SUFFICES ASSUME Init PROVE Shipping  BY InitAccounted
  <2> QED
    BY DEF Init, Shipping, Pinned, PastGuard, NoState, Standing, NoCommit, Walking, Places
<1>2. Structure /\ Structure' /\ Accounted /\ [Next]_vars => Accounted'  BY AccountedKept
<1>3. Structure /\ Structure' /\ Accounted /\ Accounted' /\ Shipping /\ [Next]_vars => Shipping'
  BY ShippingKept
<1>4. Shipping => NothingUndescribed  BY DEF Shipping, NothingUndescribed, Described
<1> QED  BY <1>1, <1>2, <1>3, <1>4, StructureHolds, PTL DEF Spec

-----------------------------------------------------------------------------
(* A version's archive, tags and Release tell one story. *)

\* What a commit's history says of versions never changes.
LEMMA FatesStay ==
    ASSUME LogOK, LogGrows, Len(log) \in Nat, Len(log') \in Nat, NEW c \in Commits
    PROVE  /\ FatesAt(c)' = FatesAt(c)
           /\ \A k, v : Of(c, k, v)' = Of(c, k, v)
           /\ \A v : ArchivedAt(c, v)' = ArchivedAt(c, v)
           /\ \A v : Reopened(c, v)' = Reopened(c, v)
           /\ Clean(c)' = Clean(c)
<1>1. /\ Anc(c)' = Anc(c) /\ Anc(c) \subseteq Commits
      /\ \A d \in Anc(c) : log'[d] = log[d]
  BY DEF LogOK, LogGrows, Commits, Anc
<1>2. \A k, v : Of(c, k, v)' = Of(c, k, v)  BY <1>1 DEF Of
<1>3. \A k, v : Has(c, k, v)' = Has(c, k, v)  BY <1>1 DEF Has
<1>4. ASSUME NEW v PROVE ArchivedAt(c, v)' = ArchivedAt(c, v)
  <2>1. CASE ~Has(c, "archive", v)  BY <1>3, <2>1 DEF ArchivedAt
  <2>2. CASE Has(c, "archive", v)
    <3> DEFINE d == CHOOSE e \in Of(c, "archive", v) : TRUE
    <3>1. d \in Anc(c)  BY <2>2 DEF Has, Of
    <3>2. log'[d] = log[d]  BY <1>1, <3>1
    <3>3. Of(c, "archive", v)' = Of(c, "archive", v) /\ Has(c, "archive", v)'
      BY <1>2, <1>3, <2>2
    <3>4. ArchivedAt(c, v) = log[d].of /\ ArchivedAt(c, v)' = log'[d].of
      BY <2>2, <3>3 DEF ArchivedAt
    <3> QED  BY <3>2, <3>4
  <2> QED  BY <2>1, <2>2
<1>5. ASSUME NEW v PROVE Reopened(c, v)' = Reopened(c, v)
  <2>1. \A w \in Anc(c) : Has(w, "finalize", v)' = Has(w, "finalize", v)
    BY <1>1, CommitStays
  <2> QED  BY <1>1, <2>1 DEF Reopened
<1>6. FatesAt(c)' = FatesAt(c)  BY <1>1 DEF FatesAt
<1>7. Clean(c)' = Clean(c)  BY <1>2, <1>3 DEF Clean
<1> QED  BY <1>2, <1>4, <1>5, <1>6, <1>7

\* A commit holds the fates of the commits it holds, and is made anew if one
\* of them is.
LEMMA FatesBelow ==
    ASSUME LogOK, LogClosed, NEW d \in Commits, NEW c \in Anc(d)
    PROVE  /\ c \in Commits /\ c \in Anc(c) /\ Anc(c) \subseteq Anc(d)
           /\ FatesAt(c) \subseteq FatesAt(d)
           /\ \A v : Reopened(c, v) => Reopened(d, v)
           /\ \A k, v : Has(c, k, v) => Has(d, k, v)
<1>1. /\ c \in Commits /\ c \in Anc(c) /\ Anc(c) \subseteq Anc(d)
      /\ NoCommit \notin Commits
  BY DEF LogOK, LogClosed, Commits, NoCommit
<1> QED  BY <1>1 DEF FatesAt, Reopened, Has, Of

\* Two commits one of which holds the other's fates archive the same.
LEMMA OneArchive ==
    ASSUME NEW v \in Version, NEW c, NEW d, Clean(d), FatesAt(c) \subseteq FatesAt(d),
           Has(c, "archive", v)
    PROVE  Has(d, "archive", v) /\ ArchivedAt(c, v) = ArchivedAt(d, v)
<1>1. Of(c, "archive", v) \subseteq Of(d, "archive", v)  BY DEF FatesAt, Of
<1>2. PICK e \in Of(c, "archive", v) : TRUE  BY DEF Has, Of
<1>3. Of(d, "archive", v) = {e} /\ Of(c, "archive", v) = {e}  BY <1>1, <1>2 DEF Clean
<1> QED  BY <1>3 DEF Has, Of, ArchivedAt

\* A commit that adds no fate to a clean one is clean, and so is one below it.
LEMMA CleanWithin ==
    ASSUME NEW d, NEW c, Clean(c), FatesAt(d) \subseteq FatesAt(c)
    PROVE  Clean(d)
<1>1. \A v : /\ Of(d, "archive", v) \subseteq Of(c, "archive", v)
             /\ Of(d, "never", v) \subseteq Of(c, "never", v)
  BY DEF FatesAt, Of
<1> QED  BY <1>1 DEF Clean, Has, Of

\* The archive a commit holds of a version is on top of the version's bump and
\* finalized changelog.
LEMMA ArchiveFollows ==
    ASSUME LogOK, LogClosed, ArchivesFollow, NEW c \in Commits, NEW v \in 0..MaxVersion,
           Has(c, "archive", v)
    PROVE  Has(c, "bump", v) /\ Has(c, "finalize", v)
<1>1. PICK d \in Anc(c) : log[d].kind = "archive" /\ log[d].ver = v  BY DEF Has, Of
<1>2. d \in Commits /\ Has(d, "bump", v) /\ Has(d, "finalize", v)
  BY <1>1, FatesBelow DEF ArchivesFollow
<1> QED  BY <1>1, <1>2, FatesBelow

\* What told a version's story still does on a later commit that holds the
\* fates of the first, and no other archive.
LEMMA TellsOver ==
    ASSUME LogOK, LogGrows, Len(log) \in Nat, Len(log') \in Nat, NEW v \in Version,
           NEW c \in Commits, NEW d, Clean(d)', FatesAt(c) \subseteq FatesAt(d)',
           Has(c, "archive", v)
    PROVE  /\ Has(d, "archive", v)' /\ ArchivedAt(d, v)' = ArchivedAt(c, v)
           /\ \A x \in Commits : Tells(x, c, v) => Tells(x, d, v)'
<1>1. /\ Of(c, "archive", v)' = Of(c, "archive", v) /\ FatesAt(c)' = FatesAt(c)
      /\ ArchivedAt(c, v)' = ArchivedAt(c, v)
      /\ \A x \in Commits : Reopened(x, v)' = Reopened(x, v)
  BY FatesStay
<1>2. Of(c, "archive", v)' \subseteq Of(d, "archive", v)'  BY <1>1 DEF FatesAt, Of
<1>3. PICK e : e \in Of(c, "archive", v)  BY DEF Has, Of
<1>4. Of(d, "archive", v)' = {e} /\ Of(c, "archive", v)' = {e}
  BY <1>1, <1>2, <1>3 DEF Clean
<1>5. Has(d, "archive", v)' /\ ArchivedAt(d, v)' = ArchivedAt(c, v)'
  BY <1>4 DEF Has, Of, ArchivedAt
<1> QED  BY <1>1, <1>5 DEF Tells

\* A settled state stays settled on a later commit that archives its version
\* only if the first does, if somebody's commit came on top by then.
LEMMA SettledOver ==
    ASSUME LogOK, LogOK', LogClosed, LogClosed', LogGrows, Len(log) \in Nat, Len(log') \in Nat,
           ArchivesFollow, NEW c \in Commits, NEW d \in Commits', c \in Anc(d)', Clean(d)',
           NEW s \in State, s.ver # 0, CIVerified \in s.done => s.rc \in Commits,
           Has(d, "archive", s.ver)' => Has(c, "archive", s.ver),
           Has(c, "finalize", s.ver) => Reopened(d, s.ver)',
           Settled(s, c)
    PROVE  Settled(s, d)'
<1>v. s.ver \in Version  BY ReleaseAssumption DEF State, Version
<1> SUFFICES ASSUME Has(d, "archive", s.ver)' PROVE Settled(s, d)'  BY DEF Settled
<1>1. Has(c, "archive", s.ver) /\ Has(c, "finalize", s.ver)  BY ArchiveFollows DEF State
<1>2. FatesAt(c) \subseteq FatesAt(d)'
  <2>1. Anc(c)' \subseteq Anc(d)' /\ FatesAt(c)' = FatesAt(c)  BY FatesStay DEF LogClosed
  <2> QED  BY <2>1 DEF FatesAt
<1>3. CIVerified \in s.done => Tells(s.rc, d, s.ver)'
  BY <1>v, <1>1, <1>2, TellsOver DEF Settled
<1> QED  BY <1>1, <1>3 DEF Settled

\* A state stays settled on the same commit through such a step.
LEMMA SettledKin ==
    ASSUME NEW s, NEW r, NEW c, Kin(s, r), Settled(s, c)'
    PROVE  Settled(r, c)'
BY DEF Settled, Kin

\* A state settled on a commit stays so however the log grows.
LEMMA SettledStays ==
    ASSUME LogOK, LogGrows, Len(log) \in Nat, Len(log') \in Nat,
           NEW c \in Commits, NEW s, s.ver # 0 => s.pin \in Commits,
           CIVerified \in s.done /\ s.ver # 0 => s.rc \in Commits,
           Settled(s, c)
    PROVE  Settled(s, c)'
<1>1. s.ver # 0 => Anc(s.pin)' = Anc(s.pin)  BY CommitStays
<1>2. Anc(c)' = Anc(c) /\ \A k, v : Has(c, k, v)' = Has(c, k, v)  BY CommitStays
<1>3. /\ \A v : ArchivedAt(c, v)' = ArchivedAt(c, v)
      /\ \A v : Reopened(c, v)' = Reopened(c, v)
  BY FatesStay
<1>4. CIVerified \in s.done /\ s.ver # 0 => \A v : Reopened(s.rc, v)' = Reopened(s.rc, v)
  BY FatesStay
<1> QED  BY <1>1, <1>2, <1>3, <1>4 DEF Settled, Tells

\* Every step is one of them or touches none of the three.
LEMMA RepoStep ==
    Structure /\ Next =>
        \/ UNCHANGED repoVars
        \/ Advances \/ GivesBack \/ OwnCommit \/ Pushes \/ CommitAbandoned \/ Others
<1> DEFINE Goal == \/ UNCHANGED repoVars
                   \/ Advances \/ GivesBack \/ OwnCommit \/ Pushes \/ CommitAbandoned \/ Others
<1> SUFFICES ASSUME Structure, Next PROVE Goal  OBVIOUS
<1>t. st \in State /\ origin \in Commits  BY DEF Structure, TypeOK, Memory, RefsOK
<1>1. CASE EnterFresh \/ EnterResume \/ Abandon \/ StepError \/ Crash
  BY <1>1 DEF EnterFresh, EnterResume, Enter, Abandon, StepError, Crash
<1>2. CASE \/ Validate \/ Begin \/ Adopt \/ EntryGuard \/ Record \/ Clear
           \/ Candidate \/ Judge \/ Dispatch \/ Verify \/ Gate \/ Skip
  BY <1>2 DEF Validate, Begin, Adopt, EntryGuard, Record, Clear,
              Candidate, Judge, Dispatch, Verify, Gate, Skip
<1>3. CASE \/ AllTagged \/ AllTagsPushed \/ GitHubRelease \/ PublishPipelines \/ Deploy
           \/ PostReleaseHooks \/ Epilogue \/ DropState
  BY <1>3 DEF AllTagged, AllTagsPushed, GitHubRelease, PublishPipelines, Deploy, PostReleaseHooks,
              Epilogue, DropState
<1>4. ASSUME NEW t \in Tags, Tag(t) \/ PushTag(t) PROVE Goal  BY <1>4 DEF Tag, PushTag
<1>5. CASE Advance
  <2>1. UNCHANGED branch \/ Advances  BY <1>5 DEF Advance, Advances, Goto, Stop, Stopped
  <2>2. UNCHANGED <<log, origin>>  BY <1>5 DEF Advance
  <2> QED  BY <2>1, <2>2 DEF repoVars
<1>6. CASE Discard
  <2>1. UNCHANGED branch \/ GivesBack
    BY <1>6 DEF Discard, GivesBack, TakesBack, Goto, Stop, Stopped
  <2>2. UNCHANGED <<log, origin>>  BY <1>6 DEF Discard
  <2> QED  BY <2>1, <2>2 DEF repoVars
<1>7. CASE Bump
  <2>1. CASE /\ log' = Extend({head}, "bump", st.ver, NoCommit)
             /\ head' = Next1 /\ pc' = "advance"
             /\ st' = [Complete(st, VersionBumped) EXCEPT !.created = @ \cup {Next1}]
             /\ UNCHANGED <<branch, origin, mode, tip, last, pushed, attempted, cand, entry>>
    <3>1. st'.created = st.created \cup {Next1}  BY <1>t, <2>1 DEF Complete, State
    <3> QED  BY <1>7, <2>1, <3>1 DEF OwnCommit, CommitsOwn
  <2>2. CASE UNCHANGED repoVars  BY <2>2
  <2> QED  BY <1>7, <2>1, <2>2, Zenon DEF Bump
<1>8. ASSUME NEW k, NEW c, CommitAs(k, c), UNCHANGED <<branch, origin>> PROVE CommitsOwn(k, c)
  BY <1>t, <1>8 DEF CommitAs, CommitsOwn, State
<1>9. CASE FinalizeChangelog
  <2>1. UNCHANGED log \/ CommitAs("finalize", NoCommit)  BY <1>9 DEF FinalizeChangelog
  <2>2. UNCHANGED <<branch, origin>>  BY <1>9 DEF FinalizeChangelog
  <2> QED  BY <1>8, <1>9, <2>1, <2>2 DEF OwnCommit, repoVars
<1>10. CASE Archive
  <2>1. \/ UNCHANGED log
        \/ CommitAs("archive", cand) /\ ~ArchiveRefuses /\ ArchivedAt(head, st.ver) = NoCommit
    BY <1>10 DEF Archive, ReleaseCommit
  <2>2. UNCHANGED <<branch, origin>>  BY <1>10 DEF Archive
  <2> QED  BY <1>8, <1>10, <2>1, <2>2 DEF OwnCommit, repoVars
<1>11. CASE Push
  <2>1. UNCHANGED repoVars \/ OriginTakes(cand)  BY <1>11, Zenon DEF Push, OriginUnmoved
  <2> QED  BY <1>11, <2>1 DEF Push, Pushes, OriginTakes, IsAncestor
<1>12. CASE PushBranch
  <2>1. UNCHANGED repoVars \/ OriginTakes(branch)
    BY <1>12, Zenon DEF PushBranch, OriginUnmoved
  <2> QED  BY <1>12, <2>1 DEF PushBranch, At, Pushes, OriginTakes, IsAncestor
<1>13. CASE CommitAbandoned  BY <1>13
<1>14. CASE Env
  <2>k. \A k \in ForeignKinds : k \in {"work", "aside"}  BY ReleaseAssumption
  <2>1. ASSUME NEW k \in ForeignKinds, CommitOnBranch(k) PROVE Others
    <3>1. k \in {"work", "aside", "entry", "merge"} /\ {branch} \in SUBSET {branch, origin}
      BY <2>k
    <3> QED  BY <2>1, <3>1 DEF CommitOnBranch, EnvOnly, Others, OthersCommit
  <2>2. ASSUME NEW k \in ForeignKinds, CommitOnOrigin(k) PROVE Others
    BY <2>k, <2>2 DEF CommitOnOrigin, Others, OthersPush
  <2>3. CASE ChangelogAdd
    <3>1. {branch} \in SUBSET {branch, origin}  OBVIOUS
    <3> QED  BY <2>3, <3>1 DEF ChangelogAdd, EnvOnly, Others, OthersCommit
  <2>4. CASE Pull  BY <2>4 DEF Pull, EnvOnly, Others, OthersCommit, OthersPull, IsAncestor
  <2>5. ASSUME NEW v \in Version, NEW t \in Tags, StrayTag(v, t) PROVE UNCHANGED repoVars
    BY <2>5 DEF StrayTag
  <2> QED  BY <1>14, <2>1, <2>2, <2>3, <2>4, <2>5 DEF Env
<1> QED
  BY <1>1, <1>2, <1>3, <1>4, <1>5, <1>6, <1>7, <1>9, <1>10, <1>11, <1>12, <1>13, <1>14
     DEF Next, Operator, Walk

\* Where a step leaves the checkout and the branch's place in it.
LEMMA HeadStep ==
    Structure /\ Next /\ pc' \in Walking =>
        \/ pc \in Walking /\ UNCHANGED <<tip, head, last>>
        \/ Advances \/ GivesBack \/ OwnCommit
        \/ /\ pc = "idle" /\ pc' = "entered" /\ tip' = branch /\ head' = branch /\ loose = 0
           /\ UNCHANGED <<repoVars, st, loose, last, pushed, cand, entry>>
<1> DEFINE Stays == pc \in Walking /\ UNCHANGED <<tip, head, last>>
           Enters == /\ pc = "idle" /\ pc' = "entered" /\ tip' = branch /\ head' = branch
                     /\ loose = 0 /\ UNCHANGED <<repoVars, st, loose, last, pushed, cand, entry>>
           Goal == pc' \notin Walking \/ Stays \/ Advances \/ GivesBack \/ OwnCommit \/ Enters
<1> SUFFICES ASSUME Structure, Next PROVE Goal  OBVIOUS
<1> USE DEF Walking, Places
<1>g. ASSUME NEW l, Goto(l), pc \in Walking PROVE Stays  BY <1>g DEF Goto
<1>z. ASSUME Stopped PROVE pc' \notin Walking  BY <1>z DEF Stopped
<1>s. ASSUME NEW n, NEW k, NEW tried, Stop(n, k, tried), pc \in Walking PROVE Goal
  BY <1>g, <1>z, <1>s DEF Stop
<1>1. CASE EnterFresh \/ EnterResume  BY <1>1 DEF EnterFresh, EnterResume, Enter
<1>2. CASE Abandon \/ CommitAbandoned \/ DropState \/ Crash
  BY <1>2 DEF Abandon, CommitAbandoned, DropState, Crash, Stopped, Goto
<1>3. CASE Validate \/ Begin \/ EntryGuard \/ Clear \/ Epilogue \/ Adopt
  BY <1>g, <1>z, <1>s, <1>3 DEF Validate, Begin, EntryGuard, Clear, Epilogue, Adopt
<1>4. CASE Record \/ Candidate  BY <1>4, Zenon DEF Record, Candidate
<1>5. CASE Advance  BY <1>z, <1>5 DEF Advance, Advances, Stop, Goto
<1>6. CASE Discard  BY <1>z, <1>6 DEF Discard, GivesBack, TakesBack, Goto
<1>7. CASE Judge \/ Push \/ Verify \/ Gate
  <2>1. Stays \/ \E n, k, tried : Stop(n, k, tried)
    BY <1>g, <1>7, Zenon DEF Judge, Push, Verify, Gate
  <2>2. pc \in Walking  BY <1>7 DEF Judge, Push, Verify, Gate
  <2> QED  BY <1>s, <2>1, <2>2
<1>8. CASE Dispatch \/ Skip \/ PushBranch
  <2>1. Stays \/ \E n, k, tried : Stop(n, k, tried)
    BY <1>g, <1>8, Zenon DEF Dispatch, Skip, PushBranch, At
  <2>2. pc \in Walking  BY <1>8 DEF Dispatch, Skip, PushBranch, At
  <2> QED  BY <1>s, <2>1, <2>2
<1>9. CASE Bump \/ FinalizeChangelog \/ Archive
  <2>0. pc \in Walking  BY <1>9 DEF Bump, FinalizeChangelog, Archive, At
  <2>1. OwnCommit \/ UNCHANGED repoVars
    <3>1. ~Advances /\ ~GivesBack /\ ~CommitAbandoned
      BY <1>9 DEF Bump, FinalizeChangelog, Archive, At, Advances, GivesBack, CommitAbandoned
    <3>2. Pushes => UNCHANGED repoVars
      BY <1>9 DEF Bump, FinalizeChangelog, Archive, Pushes, repoVars
    <3>3. Others => UNCHANGED repoVars
      <4>1. Bump => pc' # pc  BY DEF Bump
      <4>2. FinalizeChangelog \/ Archive => pc' # pc
        BY DEF FinalizeChangelog, Archive, At, Stop, Stopped, Goto, CommitAs
      <4> QED  BY <1>9, <4>1, <4>2 DEF Others, procVars
    <3> QED  BY <3>1, <3>2, <3>3, RepoStep
  <2>2. CASE Bump /\ UNCHANGED repoVars
    <3>1. UNCHANGED <<tip, head, last>> \/ (head' = Next1 /\ log' = Extend({head}, "bump", st.ver, NoCommit))
      BY <2>2, Zenon DEF Bump
    <3>2. log' # Extend({head}, "bump", st.ver, NoCommit)
      BY <2>2 DEF repoVars, Extend, Structure, TypeOK, Repository
    <3> QED  BY <2>0, <3>1, <3>2
  <2>3. CASE (FinalizeChangelog \/ Archive) /\ UNCHANGED repoVars
    <3>1. \/ Stays \/ \E n, k, tried : Stop(n, k, tried)
          \/ CommitAs("finalize", NoCommit) \/ CommitAs("archive", cand)
      BY <1>g, <2>0, <2>3, Zenon DEF FinalizeChangelog, Archive, ReleaseCommit
    <3>2. ~CommitAs("finalize", NoCommit) /\ ~CommitAs("archive", cand)
      BY <2>3 DEF CommitAs, repoVars, Extend, Structure, TypeOK, Repository
    <3> QED  BY <1>s, <2>0, <3>1, <3>2
  <2> QED  BY <1>9, <2>1, <2>2, <2>3
<1>10. ASSUME NEW t \in Tags, Tag(t) \/ PushTag(t) PROVE Goal
  BY <1>s, <1>10 DEF Tag, PushTag, At, procVars
<1>11. CASE AllTagged \/ AllTagsPushed \/ GitHubRelease \/ PublishPipelines \/ Deploy
            \/ PostReleaseHooks
  BY <1>g, <1>s, <1>11 DEF AllTagged, AllTagsPushed, GitHubRelease, PublishPipelines, Deploy,
     PostReleaseHooks, At
<1>12. CASE StepError  BY <1>s, <1>12 DEF StepError
<1>13. CASE Env
  BY <1>13 DEF Env, CommitOnBranch, CommitOnOrigin, ChangelogAdd, Pull, StrayTag, EnvOnly, procVars
<1> QED
  BY <1>1, <1>2, <1>3, <1>4, <1>5, <1>6, <1>7, <1>8, <1>9, <1>10, <1>11, <1>12, <1>13
     DEF Next, Operator, Walk

LEMMA Committing ==
    ASSUME Structure, NEW P \in SUBSET Commits, NEW k \in Kinds,
           NEW v \in 0..MaxVersion, NEW c \in Nat, log' = Extend(P, k, v, c),
           NEW b, b = Next1
    PROVE  Adds(P, k, v, c, b)
<1> DEFINE anc == (UNION {Anc(p) : p \in P}) \cup {b}
           rec == [anc |-> anc, kind |-> k, ver |-> v, of |-> c]
<1>1. log \in Seq(CommitRecord) /\ Len(log) \in Nat /\ LogOK
  BY DEF Structure, TypeOK, Repository
<1>2. log' = Append(log, rec)  BY DEF Extend, Next1
<1>r. rec.anc = anc /\ rec.kind = k /\ rec.ver = v /\ rec.of = c  OBVIOUS
<1> HIDE DEF rec
<1>3. /\ Len(log') = b /\ log'[b] = rec
      /\ \A d \in Commits : log'[d] = log[d]
  BY <1>1, <1>2 DEF Next1, Commits
<1>4. /\ b \in Commits' /\ Commits' = Commits \cup {b} /\ b \notin Commits
  BY <1>1, <1>3 DEF Commits, Next1
<1>5. Anc(b)' = anc  BY <1>3, <1>r DEF Anc, Next1
<1>6. log'[b].kind = k /\ log'[b].ver = v /\ log'[b].of = c  BY <1>3, <1>r
<1>7. \A p \in P : Anc(p) \subseteq Commits  BY <1>1 DEF LogOK, Commits
<1>8. \A d \in anc \ {b} : log'[d] = log[d]  BY <1>3, <1>7
<1> HIDE DEF anc
<1>9. FatesAt(b)' = {d \in anc : log'[d].kind \in {"archive", "never"}}  BY <1>5 DEF FatesAt
<1>10. \A w, n : Has(b, w, n)' <=> \E d \in anc : log'[d].kind = w /\ log'[d].ver = n
  BY <1>5 DEF Has, Of
<1>11. \A d : d \in anc <=> d = b \/ \E p \in P : d \in Anc(p)  BY DEF anc
<1>12. \A p \in P : b \notin Anc(p)  BY <1>4, <1>7
<1>13. ASSUME NEW d
       PROVE  d \in FatesAt(b)' <=>
               (d = b /\ k \in {"archive", "never"}) \/ \E p \in P : d \in FatesAt(p)
  BY <1>6, <1>8, <1>9, <1>11, <1>12 DEF FatesAt
<1>14. ASSUME NEW w, NEW n
       PROVE  Has(b, w, n)' <=> (w = k /\ n = v) \/ \E p \in P : Has(p, w, n)
  <2>1. ASSUME NEW d \in anc
        PROVE  log'[d].kind = w /\ log'[d].ver = n <=>
                   \/ d = b /\ w = k /\ n = v
                   \/ \E p \in P : d \in Anc(p) /\ log[d].kind = w /\ log[d].ver = n
    BY <1>6, <1>8, <1>11, <1>12
  <2>2. (\E d \in anc : log'[d].kind = w /\ log'[d].ver = n) <=>
            (w = k /\ n = v) \/ \E p \in P : \E d \in Anc(p) : log[d].kind = w /\ log[d].ver = n
    BY <1>11, <2>1
  <2> QED  BY <1>10, <2>2 DEF Has, Of
<1> QED  BY <1>4, <1>5, <1>6, <1>11, <1>13, <1>14 DEF Adds

LEMMA CommittingOn ==
    ASSUME Structure, NEW p \in Commits, NEW k \in Kinds,
           NEW v \in 0..MaxVersion, NEW c \in Nat, log' = Extend({p}, k, v, c),
           NEW b, b = Next1
    PROVE  AddsOn(p, k, v, c, b)
<1>1. PICK P \in SUBSET Commits : P = {p}  OBVIOUS
<1>2. log' = Extend(P, k, v, c)  BY <1>1
<1>3. Adds(P, k, v, c, b)  BY <1>2, Committing
<1>4. Anc(p) \subseteq Commits /\ LogGrows
  <2>1. log \in Seq(CommitRecord) /\ LogOK /\ TypeOK  BY DEF Structure, TypeOK, Repository
  <2>2. Anc(p) \subseteq Commits  BY <2>1 DEF LogOK, Commits
  <2>3. LogGrows  BY <1>2, <2>1, Extending
  <2> QED  BY <2>2, <2>3
<1>5. \A d : d \in Anc(b)' <=> d \in Anc(p) \cup {b}  BY <1>1, <1>3 DEF Adds
<1>6. Anc(b)' = Anc(p) \cup {b}  BY <1>5
<1>7. \A w, n : Has(b, w, n)' <=> (w = k /\ n = v) \/ Has(p, w, n)  BY <1>1, <1>3 DEF Adds
<1>8. \A d : d \in FatesAt(b)' <=> d \in FatesAt(p) \/ (d = b /\ k \in {"archive", "never"})
  BY <1>1, <1>3 DEF Adds
<1>9. \A d \in Anc(p) : log'[d] = log[d] /\ b # d  BY <1>3, <1>4 DEF LogGrows, Adds
<1>10. /\ b \in Commits' /\ Commits' = Commits \cup {b} /\ b \notin Commits
       /\ log'[b].kind = k /\ log'[b].ver = v /\ log'[b].of = c
  BY <1>3 DEF Adds
<1> QED  BY <1>6, <1>7, <1>8, <1>9, <1>10 DEF AddsOn

\* What the refs of a step have in common, where the proofs need it.
LEMMA Refs ==
    ASSUME Structure, Structure', LogGrows
    PROVE  /\ LogOK /\ LogOK' /\ Len(log) \in Nat /\ Len(log') \in Nat
           /\ branch \in Commits /\ branch' \in Commits' /\ origin \in Commits /\ origin' \in Commits'
           /\ pc \in Walking => head \in Commits /\ tip \in Commits
           /\ pc' \in Walking => head' \in Commits' /\ tip' \in Commits'
           /\ Commits \subseteq Commits'
           /\ st.ver \in 0..MaxVersion /\ cand \in Nat /\ loose \in 0..MaxVersion
           /\ 0 \in 0..MaxVersion /\ NoCommit \in Nat
<1>1. LogOK /\ LogOK' /\ Len(log) \in Nat /\ Len(log') \in Nat
  BY DEF Structure, TypeOK, Repository
<1>2. /\ branch \in Commits /\ branch' \in Commits' /\ origin \in Commits /\ origin' \in Commits'
      /\ pc \in Walking => head \in Commits /\ tip \in Commits
      /\ pc' \in Walking => head' \in Commits' /\ tip' \in Commits'
  BY DEF Structure, RefsOK
<1>3. Commits \subseteq Commits'  BY <1>1 DEF LogGrows, Commits
<1>4. /\ st.ver \in 0..MaxVersion /\ cand \in Nat /\ loose \in 0..MaxVersion
      /\ 0 \in 0..MaxVersion /\ NoCommit \in Nat
  BY ReleaseAssumption DEF Structure, TypeOK, Memory, Outside, State, NoCommit
<1> QED  BY <1>1, <1>2, <1>3, <1>4

\* What a step starts and ends with, whatever the tags say.
LEMMA Footing ==
    ASSUME Structure, Structure', Accounted, Accounted', Next
    PROVE  /\ LogOK /\ LogOK' /\ LogGrows /\ LogClosed /\ LogClosed'
           /\ Len(log) \in Nat /\ Len(log') \in Nat
           /\ branch \in Commits /\ branch' \in Commits' /\ origin \in Commits /\ origin' \in Commits'
           /\ pc \in Walking => head \in Commits /\ tip \in Commits
           /\ pc' \in Walking => head' \in Commits' /\ tip' \in Commits'
           /\ Commits \subseteq Commits'
           /\ st \in State /\ entry \in State /\ step \in Steps /\ st.ver \in 0..MaxVersion
           /\ pc \in Walking => tip \in Anc(branch) /\ tip \in Anc(head)
<1>1. LogGrows  BY LogKept
<1>2. /\ LogClosed /\ LogClosed'
      /\ pc \in Walking => tip \in Anc(branch) /\ tip \in Anc(head)
  BY DEF Accounted, Position
<1>3. st \in State /\ entry \in State /\ step \in Steps  BY DEF Structure, TypeOK, Memory
<1> QED  BY <1>1, <1>2, <1>3, Refs

LEMMA Ground ==
    ASSUME Steady, Structure', Accounted', Next
    PROVE  /\ LogOK /\ LogOK' /\ LogGrows /\ LogClosed /\ LogClosed'
           /\ Len(log) \in Nat /\ Len(log') \in Nat /\ ArchivesFollow
           /\ branch \in Commits /\ branch' \in Commits' /\ origin \in Commits /\ origin' \in Commits'
           /\ pc \in Walking => head \in Commits /\ tip \in Commits
           /\ pc' \in Walking => head' \in Commits' /\ tip' \in Commits'
           /\ Commits \subseteq Commits'
           /\ st \in State /\ entry \in State /\ step \in Steps /\ st.ver \in 0..MaxVersion
           /\ pc \in Walking => tip \in Anc(branch) /\ tip \in Anc(head)
<1>1. Structure /\ Accounted /\ ArchivesFollow  BY DEF Steady, Storied, Kept
<1> QED  BY <1>1, Footing

\* Where every ref of the next state is a commit of this one, it is enough to
\* look at what they hold now.
LEMMA KeptOld ==
    ASSUME LogOK, LogGrows, Len(log) \in Nat, Len(log') \in Nat, ArchivesFollow',
           NEW b \in Commits, NEW o \in Commits, NEW h, NEW t,
           b = branch', o = origin', h = head', t = tip',
           Clean(b), FatesAt(o) \subseteq FatesAt(b),
           o \in Anc(b) \/ log[o].kind \notin {"finalize", "archive"},
           pc' \in Walking =>
               /\ h \in Commits /\ t \in Commits /\ Clean(h) /\ FatesAt(b) \subseteq FatesAt(t)
               /\ b = t \/ \A v \in Version : Has(t, "finalize", v) => Reopened(b, v)
    PROVE  Kept'
<1>1. \A c \in Commits : /\ FatesAt(c)' = FatesAt(c) /\ Clean(c)' = Clean(c) /\ Anc(c)' = Anc(c)
                         /\ log'[c] = log[c]
                         /\ \A v : Reopened(c, v)' = Reopened(c, v)
                         /\ \A v : Has(c, "finalize", v)' = Has(c, "finalize", v)
  BY FatesStay, CommitStays
<1>2. Clean(b)' /\ FatesAt(o)' \subseteq FatesAt(b)'  BY <1>1
<1>3. o \in Anc(b)' \/ log'[o].kind \notin {"finalize", "archive"}  BY <1>1
<1>4. ASSUME pc' \in Walking
      PROVE  /\ Clean(h)' /\ FatesAt(b)' \subseteq FatesAt(t)'
             /\ b = t \/ \A v \in Version : Has(t, "finalize", v)' => Reopened(b, v)'
  BY <1>1, <1>4
<1> QED  BY <1>2, <1>3, <1>4 DEF Kept

\* Every archive is still on top of its version's bump and changelog.
LEMMA ArchivesFollowKept ==
    ASSUME Steady, Structure', Accounted', Next
    PROVE  ArchivesFollow'
<1>g. /\ LogOK /\ LogOK' /\ LogGrows /\ LogClosed' /\ ArchivesFollow
      /\ Len(log) \in Nat /\ Len(log') \in Nat /\ st \in State
      /\ pc \in Walking => head \in Commits /\ tip \in Commits
  BY Ground
<1> DEFINE Follows(d) ==
               \A n \in 0..MaxVersion : log'[d].kind = "archive" /\ log'[d].ver = n =>
                   Has(d, "bump", n)' /\ Has(d, "finalize", n)'
<1>1. ASSUME NEW d \in Commits PROVE Follows(d)  BY <1>g, CommitStays DEF ArchivesFollow
<1>0. ASSUME \A d \in Commits' : Follows(d) PROVE ArchivesFollow'
  BY <1>0 DEF ArchivesFollow
<1>2. CASE Commits' = Commits  BY <1>0, <1>1, <1>2
<1>3. ASSUME NEW P \in SUBSET Commits, NEW k \in Kinds, NEW v \in 0..MaxVersion, NEW c \in Nat,
             log' = Extend(P, k, v, c),
             k = "archive" => \E p \in P : Has(p, "bump", v) /\ Has(p, "finalize", v)
      PROVE  ArchivesFollow'
  <2>1. PICK b : b = Next1  OBVIOUS
  <2>2. /\ Commits' = Commits \cup {b} /\ log'[b].kind = k /\ log'[b].ver = v
        /\ \A w, n : Has(b, w, n)' <=> (w = k /\ n = v) \/ \E p \in P : Has(p, w, n)
    <3>1. Structure  BY DEF Steady
    <3>2. Adds(P, k, v, c, b)  BY <1>3, <2>1, <3>1, Committing
    <3> QED  BY <3>2 DEF Adds
  <2>3. Follows(b)  BY <1>3, <2>2
  <2> HIDE DEF Follows
  <2> QED  BY <1>0, <1>1, <2>2, <2>3
<1>c. /\ {"bump", "finalize", "archive", "never", "work", "aside", "entry", "merge"} \subseteq Kinds
      /\ NoCommit \in Nat /\ 0 \in 0..MaxVersion /\ cand \in Nat /\ loose \in 0..MaxVersion
      /\ st.ver \in 0..MaxVersion /\ branch \in Commits /\ origin \in Commits
  BY <1>g, Refs DEF Kinds, Steady
<1>4. CASE OwnCommit
  <2>1. ASSUME NEW k \in {"bump", "finalize"}, CommitsOwn(k, NoCommit), pc \in Walking PROVE ArchivesFollow'
    BY <1>c, <1>g, <1>3, <2>1 DEF CommitsOwn
  <2>2. CASE (Bump /\ CommitsOwn("bump", NoCommit)) \/ (FinalizeChangelog /\ CommitsOwn("finalize", NoCommit))
    BY <2>1, <2>2 DEF Bump, FinalizeChangelog, At, Walking, Places
  <2>3. CASE Archive /\ CommitsOwn("archive", cand)
    <3>1. pc = "walk" /\ step = ReleaseArchived /\ pc \in Walking
      BY <2>3 DEF Archive, At, Walking, Places
    <3>2. {Committed, ChangelogFinalized} \subseteq st.done
      <4>1. Committed \in st.done /\ 4..(step - 1) \subseteq st.done
        BY <3>1, StepsAre DEF Steady, Storied, Holding, PastPush, PastGate
      <4>2. ChangelogFinalized \in 4..(step - 1)  BY <3>1, StepsAre
      <4> QED  BY <4>1, <4>2
    <3>3. head = tip /\ Told(st, tip)
      BY <3>1 DEF Steady, Accounted, Position, Recorded, Standing
    <3>4. st.ver # 0  BY <3>1 DEF Steady, Storied, Holding
    <3>5. Has(head, "bump", st.ver) /\ Has(head, "finalize", st.ver)
      BY <3>2, <3>3, <3>4, StepsAre DEF Told, Effect
    <3> QED  BY <1>c, <1>g, <1>3, <2>3, <3>1, <3>5 DEF CommitsOwn
  <2>4. \/ (Bump /\ CommitsOwn("bump", NoCommit)) \/ (FinalizeChangelog /\ CommitsOwn("finalize", NoCommit))
        \/ Archive /\ CommitsOwn("archive", cand)
    BY <1>4 DEF OwnCommit
  <2> QED  BY <2>2, <2>3, <2>4
<1>5. CASE CommitAbandoned  BY <1>c, <1>3, <1>5 DEF CommitAbandoned
<1>6. CASE Others
  <2>1. CASE OthersCommit  BY <1>c, <1>3, <2>1 DEF OthersCommit
  <2>2. CASE OthersPush  BY <1>c, <1>3, <2>2 DEF OthersPush
  <2>3. CASE OthersPull  BY <1>2, <2>3 DEF OthersPull, Commits
  <2> QED  BY <1>6, <2>1, <2>2, <2>3 DEF Others
<1>7. CASE UNCHANGED repoVars \/ Advances \/ GivesBack \/ Pushes
  BY <1>2, <1>7 DEF repoVars, Advances, GivesBack, Pushes, Commits
<1> QED  BY <1>4, <1>5, <1>6, <1>7, RepoStep DEF Steady

\* A step that adds no commit keeps everybody where they belong.
LEMMA KeptQuiet ==
    ASSUME Steady, Structure', Accounted', Next, UNCHANGED log
    PROVE  Kept'
<1>g. /\ LogOK /\ LogGrows /\ LogClosed /\ Len(log) \in Nat /\ Len(log') \in Nat
      /\ branch \in Commits /\ origin \in Commits
      /\ pc \in Walking => head \in Commits /\ tip \in Commits
      /\ pc \in Walking => tip \in Anc(branch) /\ tip \in Anc(head)
  BY Ground
<1>k. Kept  BY DEF Steady, Storied
<1>a. ArchivesFollow'  BY ArchivesFollowKept
<1>b. branch \in Anc(branch) /\ origin \in Anc(origin)  BY <1>g DEF LogOK
<1>w. ASSUME NEW b \in Commits, NEW o \in Commits, NEW h, NEW t,
             b = branch', o = origin', h = head', t = tip',
             Clean(b), FatesAt(o) \subseteq FatesAt(b),
             o \in Anc(b) \/ log[o].kind \notin {"finalize", "archive"},
             pc' \in Walking =>
                 /\ h \in Commits /\ t \in Commits /\ Clean(h) /\ FatesAt(b) \subseteq FatesAt(t)
                 /\ b = t \/ \A v \in Version : Has(t, "finalize", v) => Reopened(b, v)
      PROVE  Kept'
  BY <1>a, <1>g, <1>w, KeptOld
<1>h. \/ pc' \notin Walking
      \/ pc \in Walking /\ UNCHANGED <<tip, head, last>>
      \/ Advances \/ GivesBack
      \/ /\ pc = "idle" /\ pc' = "entered" /\ tip' = branch /\ head' = branch /\ loose = 0
         /\ UNCHANGED <<repoVars, st, loose, last, pushed, cand, entry>>
  <2>1. ~OwnCommit
    <3>2. ASSUME NEW k, NEW c, CommitsOwn(k, c) PROVE FALSE
      BY <3>2, <1>g DEF CommitsOwn, Extend, Structure, Steady, TypeOK, Repository
    <3> QED  BY <3>2 DEF OwnCommit
  <2> QED  BY <2>1, HeadStep DEF Steady
<1>1. CASE UNCHANGED <<branch, origin>>
  <2>2. PICK h, t : h = head' /\ t = tip'  OBVIOUS
  <2>3. Clean(branch) /\ FatesAt(origin) \subseteq FatesAt(branch)
        /\ (origin \in Anc(branch) \/ log[origin].kind \notin {"finalize", "archive"})
    BY <1>k DEF Kept
  <2>4. ASSUME pc' \in Walking
        PROVE  /\ h \in Commits /\ t \in Commits /\ Clean(h) /\ FatesAt(branch) \subseteq FatesAt(t)
               /\ branch = t \/ \A v \in Version : Has(t, "finalize", v) => Reopened(branch, v)
    <3>1. CASE pc \in Walking /\ UNCHANGED <<tip, head, last>>
      BY <1>g, <1>k, <2>2, <3>1 DEF Kept
    <3>2. CASE h = branch /\ t = branch  BY <1>g, <2>3, <3>2
    <3>3. ~Advances  BY <1>1 DEF Advances
    <3>4. CASE GivesBack
      <4>1. t = branch /\ h = head /\ pc \in Walking
        BY <1>1, <2>2, <3>4 DEF GivesBack, Walking, Places
      <4> QED  BY <1>g, <1>k, <4>1 DEF Kept
    <3> QED  BY <1>h, <2>2, <2>4, <3>1, <3>2, <3>3, <3>4
  <2> QED  BY <1>1, <1>g, <1>w, <2>2, <2>3, <2>4
<1>2. CASE Advances
  <2>1. pc \in Walking /\ branch = tip  BY <1>2 DEF Advances, Walking, Places
  <2>2. /\ FatesAt(branch) \subseteq FatesAt(head) /\ Anc(branch) \subseteq Anc(head)
    BY <1>g, <2>1, FatesBelow
  <2>3. branch' = head /\ tip' = head /\ head' = head /\ origin' = origin
    BY <1>2 DEF Advances
  <2>4. /\ Clean(head) /\ FatesAt(origin) \subseteq FatesAt(head)
        /\ origin \in Anc(head) \/ log[origin].kind \notin {"finalize", "archive"}
    BY <1>k, <2>1, <2>2 DEF Kept
  <2> QED  BY <1>g, <1>w, <2>1, <2>3, <2>4
<1>3. CASE GivesBack
  <2>1. /\ pc \in Walking /\ branch = tip /\ last # NoCommit /\ ~PastPush
    BY <1>3 DEF GivesBack, Walking, Places, PastPush
  <2>2. /\ Anc(tip) \subseteq Anc(last) \cup {tip}
        /\ log[tip].kind \notin {"finalize", "archive", "never"}
    BY <2>1 DEF Steady, Storied, Backing
  <2>3. last \in Anc(tip)  BY <2>1 DEF Steady, Accounted, Position
  <2>4. last \in Commits /\ FatesAt(last) \subseteq FatesAt(branch)
    BY <1>g, <2>1, <2>3, FatesBelow
  <2>5. FatesAt(branch) \subseteq FatesAt(last)  BY <2>1, <2>2 DEF FatesAt
  <2>6. /\ Clean(last) /\ FatesAt(origin) \subseteq FatesAt(last) /\ Clean(head)
    BY <1>k, <2>1, <2>4, <2>5, CleanWithin DEF Kept
  <2>7. origin \in Anc(last) \/ log[origin].kind \notin {"finalize", "archive"}
    BY <1>k, <2>1, <2>2 DEF Kept
  <2>8. branch' = last /\ tip' = last /\ head' = head /\ origin' = origin
    BY <1>3 DEF GivesBack
  <2> QED  BY <1>g, <1>w, <2>1, <2>4, <2>6, <2>7, <2>8
<1>4. CASE Pushes
  <2>1. pc \in {"push", "walk"} /\ pc \in Walking  BY <1>4 DEF Pushes, Walking, Places
  <2>2. PICK o : o = origin'  OBVIOUS
  <2>3. o \in {tip, branch} /\ branch' = branch
    BY <1>4, <2>2 DEF Pushes, Steady, Accounted, Bumped
  <2>4. /\ o \in Commits /\ o \in Anc(branch) /\ FatesAt(o) \subseteq FatesAt(branch)
    BY <1>b, <1>g, <2>1, <2>3, FatesBelow
  <2>5. PICK h, t : h = head' /\ t = tip'  OBVIOUS
  <2>6. pc' \in Walking => h = head /\ t = tip  BY <1>h, <2>1, <2>5 DEF Advances, GivesBack
  <2>7. Clean(branch)  BY <1>k DEF Kept
  <2>8. pc' \in Walking =>
               /\ h \in Commits /\ t \in Commits /\ Clean(h) /\ FatesAt(branch) \subseteq FatesAt(t)
               /\ branch = t \/ \A v \in Version : Has(t, "finalize", v) => Reopened(branch, v)
    BY <1>g, <1>k, <2>1, <2>6 DEF Kept
  <2> QED  BY <1>g, <1>w, <2>2, <2>3, <2>4, <2>5, <2>7, <2>8
<1>5. CASE OthersPull /\ Others
  <2>1. /\ branch' = origin /\ origin' = origin /\ branch \in Anc(origin) /\ origin \notin Anc(branch)
        /\ UNCHANGED procVars
    BY <1>5 DEF OthersPull, Others
  <2>2. FatesAt(branch) \subseteq FatesAt(origin) /\ Anc(branch) \subseteq Anc(origin)
    BY <1>g, <2>1, FatesBelow
  <2>3. FatesAt(branch) = FatesAt(origin)  BY <1>k, <2>2 DEF Kept
  <2>4. Clean(origin)  BY <1>k, <2>3, CleanWithin DEF Kept
  <2>5. log[origin].kind \notin {"finalize", "archive"}  BY <1>k, <2>1 DEF Kept
  <2>6. pc' = pc /\ head' = head /\ tip' = tip  BY <2>1 DEF procVars
  <2>7. ASSUME pc \in Walking, NEW v \in Version, Has(tip, "finalize", v)
        PROVE  Reopened(origin, v)
    <3>1. tip \in Anc(origin)  BY <1>g, <2>2, <2>7
    <3>2. Has(origin, "finalize", v)  BY <1>g, <2>7, <3>1, FatesBelow
    <3>3. origin # NoCommit  BY <1>g DEF Commits, NoCommit
    <3> QED  BY <1>b, <2>5, <3>2, <3>3 DEF Reopened
  <2>8. pc' \in Walking =>
               /\ head \in Commits /\ tip \in Commits /\ Clean(head) /\ FatesAt(origin) \subseteq FatesAt(tip)
               /\ \A v \in Version : Has(tip, "finalize", v) => Reopened(origin, v)
    BY <1>g, <1>k, <2>3, <2>6, <2>7 DEF Kept
  <2> QED  BY <1>b, <1>g, <1>w, <2>1, <2>4, <2>6, <2>8
<1>6. ASSUME NEW P, NEW k, NEW v, NEW c, log' = Extend(P, k, v, c) PROVE FALSE
  BY <1>6, <1>g DEF Extend, Structure, Steady, TypeOK, Repository
<1>7. ~OwnCommit /\ ~CommitAbandoned /\ ~OthersCommit /\ ~OthersPush
  BY <1>6 DEF OwnCommit, CommitsOwn, CommitAbandoned, OthersCommit, OthersPush
<1> QED  BY <1>1, <1>2, <1>3, <1>4, <1>5, <1>7, RepoStep DEF Others, Steady, repoVars

\* What a commit the release makes adds to its checkout.
LEMMA KeptOwn ==
    ASSUME Steady, Structure', Accounted', Next, OwnCommit
    PROVE  Kept'
<1>g. /\ LogOK /\ LogGrows /\ LogClosed /\ Len(log) \in Nat /\ Len(log') \in Nat
      /\ branch \in Commits /\ origin \in Commits
      /\ pc \in Walking => head \in Commits /\ tip \in Commits
  BY Ground
<1>k. Kept  BY DEF Steady, Storied
<1>a. ArchivesFollow'  BY ArchivesFollowKept
<1>o. \A c \in Commits : /\ FatesAt(c)' = FatesAt(c) /\ Clean(c)' = Clean(c) /\ Anc(c)' = Anc(c)
                         /\ log'[c] = log[c]
                         /\ \A v : Reopened(c, v)' = Reopened(c, v)
                         /\ \A v : Has(c, "finalize", v)' = Has(c, "finalize", v)
  BY <1>g, FatesStay, CommitStays
<1>1. PICK b : b = Next1  OBVIOUS
<1>2. /\ pc \in Walking /\ UNCHANGED <<branch, origin, tip>> /\ head' = b
      /\ pc' \in Walking
  BY <1>1 DEF OwnCommit, CommitsOwn, Bump, FinalizeChangelog, Archive, At, Walking, Places
<1>3. Clean(b)'
  <2>1. ASSUME NEW k \in Kinds, NEW c \in Nat, log' = Extend({head}, k, st.ver, c)
        PROVE  /\ log'[b].kind = k /\ log'[b].ver = st.ver
               /\ b \notin Anc(head) /\ \A d \in Anc(head) : log'[d] = log[d]
               /\ Anc(b)' = Anc(head) \cup {b}
    <3>1. Structure /\ st.ver \in 0..MaxVersion /\ head \in Commits
      BY <1>g, <1>2, Ground DEF Steady
    <3>2. AddsOn(head, k, st.ver, c, b)  BY <1>1, <2>1, <3>1, CommittingOn
    <3> QED  BY <3>2 DEF AddsOn
  <2>2. Clean(head)  BY <1>2, <1>k DEF Kept
  <2>3. ASSUME NEW k \in {"bump", "finalize"}, log' = Extend({head}, k, st.ver, NoCommit)
        PROVE  Clean(b)'
    <3>1. /\ log'[b].kind = k /\ Anc(b)' = Anc(head) \cup {b}
          /\ \A d \in Anc(head) : log'[d] = log[d]
      BY <2>1, <2>3 DEF Kinds, NoCommit
    <3>2. \A v : Of(b, "archive", v)' = Of(head, "archive", v) /\ Of(b, "never", v)' = Of(head, "never", v)
      BY <3>1 DEF Of
    <3> QED  BY <2>2, <3>2 DEF Clean, Has, Of
  <2>4. ASSUME log' = Extend({head}, "archive", st.ver, cand), ~ArchiveRefuses,
               ArchivedAt(head, st.ver) = NoCommit
        PROVE  Clean(b)'
    <3>1. cand \in Nat /\ "archive" \in Kinds  BY Refs, <1>g DEF Kinds, Steady
    <3>2. /\ log'[b].kind = "archive" /\ log'[b].ver = st.ver /\ Anc(b)' = Anc(head) \cup {b}
          /\ \A d \in Anc(head) : log'[d] = log[d]
      BY <2>1, <2>4, <3>1
    <3>3. ~Has(head, "never", st.ver)  BY <2>4 DEF ArchiveRefuses
    <3>4. ~Has(head, "archive", st.ver)
      BY <1>g, <1>2, <2>4, ArchivedNames DEF Steady, Accounted
    <3>5. ASSUME NEW v
          PROVE  /\ Of(b, "archive", v)' = IF v = st.ver THEN {b} ELSE Of(head, "archive", v)
                 /\ Of(b, "never", v)' = Of(head, "never", v)
      <4>1. Of(b, "never", v)' = Of(head, "never", v)  BY <3>2 DEF Of
      <4>2. CASE v = st.ver  BY <3>2, <3>4, <4>1, <4>2 DEF Of, Has
      <4>3. CASE v # st.ver  BY <3>2, <4>1, <4>3 DEF Of
      <4> QED  BY <4>2, <4>3, <4>1
    <3> QED  BY <2>2, <3>3, <3>5 DEF Clean, Has, Of
  <2> QED  BY <2>3, <2>4 DEF OwnCommit, CommitsOwn
<1>4. PICK r, o, t : r = branch /\ o = origin /\ t = tip  OBVIOUS
<1>5. /\ Clean(r)' /\ FatesAt(o)' \subseteq FatesAt(r)'
      /\ o \in Anc(r)' \/ log'[o].kind \notin {"finalize", "archive"}
      /\ FatesAt(r)' \subseteq FatesAt(t)'
      /\ r = t \/ \A v \in Version : Has(t, "finalize", v)' => Reopened(r, v)'
  BY <1>g, <1>k, <1>o, <1>2, <1>4 DEF Kept
<1>6. branch' = r /\ origin' = o /\ tip' = t  BY <1>2, <1>4
<1> QED  BY <1>a, <1>2, <1>3, <1>5, <1>6 DEF Kept

\* What a commit on the branch or on origin adds, whoever makes it.
LEMMA KeptOthers ==
    ASSUME Steady, Structure', Accounted', Next,
           CommitAbandoned \/ (Others /\ (OthersCommit \/ OthersPush))
    PROVE  Kept'
<1>g. /\ LogOK /\ LogGrows /\ LogClosed /\ Len(log) \in Nat /\ Len(log') \in Nat
      /\ branch \in Commits /\ origin \in Commits
      /\ pc \in Walking => head \in Commits /\ tip \in Commits
      /\ pc \in Walking => tip \in Anc(branch) /\ tip \in Anc(head)
      /\ Structure
  BY Ground DEF Steady
<1>k. Kept  BY DEF Steady, Storied
<1>a. ArchivesFollow'  BY ArchivesFollowKept
<1>c. /\ {"work", "aside", "entry", "merge", "never"} \subseteq Kinds /\ loose \in 0..MaxVersion
      /\ 0 \in 0..MaxVersion /\ NoCommit \in Nat
  BY <1>g, Refs DEF Kinds
<1>o. \A c \in Commits : /\ FatesAt(c)' = FatesAt(c) /\ Clean(c)' = Clean(c) /\ Anc(c)' = Anc(c)
                         /\ log'[c] = log[c]
                         /\ \A v : Reopened(c, v)' = Reopened(c, v)
                         /\ \A k, v : Has(c, k, v)' = Has(c, k, v) /\ Of(c, k, v)' = Of(c, k, v)
  BY <1>g, FatesStay, CommitStays
<1>1. PICK b, r, o, h, t : b = Next1 /\ r = branch /\ o = origin /\ h = head /\ t = tip
  OBVIOUS
<1>2. /\ Clean(r) /\ FatesAt(o) \subseteq FatesAt(r)
      /\ o \in Anc(r) \/ log[o].kind \notin {"finalize", "archive"}
      /\ pc \in Walking =>
             /\ Clean(h) /\ FatesAt(r) \subseteq FatesAt(t)
             /\ r = t \/ \A v \in Version : Has(t, "finalize", v) => Reopened(r, v)
  BY <1>1, <1>k DEF Kept
<1>3. CASE CommitAbandoned
  <2>1. AddsOn(r, "never", loose, NoCommit, b)
    <3>1. log' = Extend({r}, "never", loose, NoCommit) /\ r \in Commits
      BY <1>1, <1>3, <1>g DEF CommitAbandoned
    <3> QED  BY <1>1, <1>c, <1>g, <3>1, CommittingOn
  <2>2. branch' = b /\ origin' = o /\ pc' \notin Walking /\ pc \notin Walking
    BY <1>1, <1>3 DEF CommitAbandoned, Goto, Walking, Places
  <2>3. /\ Anc(b)' = Anc(r) \cup {b} /\ b \notin Anc(r) /\ log'[b].kind = "never" /\ log'[b].ver = loose
        /\ \A d \in Anc(r) : log'[d] = log[d]
    BY <2>1 DEF AddsOn
  <2>4. ASSUME NEW v
        PROVE  /\ Of(b, "archive", v)' = Of(r, "archive", v)
               /\ Of(b, "never", v)' = {} <=> Of(r, "never", v) = {} /\ v # loose
    <3>1. Of(b, "archive", v)' = Of(r, "archive", v)  BY <2>3 DEF Of
    <3>2. Of(b, "never", v)' = Of(r, "never", v) \cup (IF v = loose THEN {b} ELSE {})
      BY <2>3 DEF Of
    <3> QED  BY <3>1, <3>2
  <2>5. loose # 0 => ~Has(r, "archive", loose)  BY <1>1 DEF Steady, Storied, Labelled
  <2>6. Clean(b)'
    <3>1. \A v \in Version : v # 0  BY ReleaseAssumption DEF Version
    <3> QED  BY <1>2, <2>4, <2>5, <3>1 DEF Clean, Has, Of
  <2>7. FatesAt(o)' \subseteq FatesAt(b)'  BY <1>1, <1>2, <1>g, <1>o, <2>1 DEF AddsOn
  <2>8. o \in Anc(b)' \/ log'[o].kind \notin {"finalize", "archive"}
    BY <1>1, <1>2, <1>g, <1>o, <2>3
  <2> QED  BY <1>a, <2>2, <2>6, <2>7, <2>8 DEF Kept
<1>4. CASE Others /\ OthersPush
  <2>0. PICK k \in {"work", "aside"} : log' = Extend({origin}, k, 0, NoCommit)
    BY <1>4 DEF OthersPush
  <2>1. AddsOn(o, k, 0, NoCommit, b)
    <3>1. log' = Extend({o}, k, 0, NoCommit) /\ o \in Commits /\ k \in Kinds
      BY <1>1, <1>c, <1>g, <2>0
    <3> QED  BY <1>1, <1>c, <1>g, <3>1, CommittingOn
  <2>2. branch' = r /\ origin' = b /\ head' = h /\ tip' = t /\ pc' = pc
    BY <1>1, <1>4 DEF Others, OthersPush, procVars
  <2>3. /\ \A d : d \in FatesAt(b)' <=> d \in FatesAt(o)
        /\ log'[b].kind \notin {"finalize", "archive"}
    BY <2>0, <2>1 DEF AddsOn
  <2>4. Clean(r)' /\ FatesAt(b)' \subseteq FatesAt(r)'  BY <1>1, <1>2, <1>g, <1>o, <2>3
  <2>5. pc \in Walking =>
             /\ Clean(h)' /\ FatesAt(r)' \subseteq FatesAt(t)'
             /\ r = t \/ \A v \in Version : Has(t, "finalize", v)' => Reopened(r, v)'
    BY <1>1, <1>2, <1>g, <1>o
  <2> QED  BY <1>a, <2>2, <2>3, <2>4, <2>5 DEF Kept
<1>5. CASE Others /\ OthersCommit
  <2>0. PICK P \in SUBSET {branch, origin}, k \in {"work", "aside", "entry", "merge"} :
            branch \in P /\ log' = Extend(P, k, 0, NoCommit)
    BY <1>5 DEF OthersCommit
  <2>1. Adds(P, k, 0, NoCommit, b)
    <3>1. log' = Extend(P, k, 0, NoCommit) /\ P \in SUBSET Commits /\ k \in Kinds
      BY <1>c, <1>g, <2>0
    <3> QED  BY <1>1, <1>c, <1>g, <3>1, Committing
  <2>2. branch' = b /\ origin' = o /\ head' = h /\ tip' = t /\ pc' = pc
    BY <1>1, <1>5 DEF Others, OthersCommit, procVars
  <2>p. r \in P /\ \A p \in P : p \in {r, o}  BY <1>1, <2>0
  <2>3. /\ \A d : d \in FatesAt(b)' <=> \E p \in P : d \in FatesAt(p)
        /\ \A d : d \in Anc(b)' <=> d = b \/ \E p \in P : d \in Anc(p)
        /\ log'[b].kind \notin {"finalize", "archive"}
        /\ \A v : Has(b, "finalize", v)' <=> \E p \in P : Has(p, "finalize", v)
    BY <2>0, <2>1 DEF Adds
  <2>4. \A d : d \in FatesAt(b)' <=> d \in FatesAt(r)  BY <1>2, <2>3, <2>p
  <2>5. FatesAt(b)' = FatesAt(r)'  BY <1>1, <1>g, <1>o, <2>4
  <2>6. Clean(b)'
    <3>1. Clean(r)'  BY <1>1, <1>2, <1>g, <1>o
    <3>2. ASSUME NEW v
          PROVE  Of(b, "archive", v)' = Of(r, "archive", v)' /\ Of(b, "never", v)' = Of(r, "never", v)'
      BY <2>5 DEF FatesAt, Of
    <3> QED  BY <3>1, <3>2 DEF Clean, Has, Of
  <2>7. FatesAt(o)' \subseteq FatesAt(b)'  BY <1>1, <1>2, <1>g, <1>o, <2>4
  <2>8. o \in Anc(b)' \/ log'[o].kind \notin {"finalize", "archive"}
    BY <1>1, <1>2, <1>g, <1>o, <2>3, <2>p
  <2>9. ASSUME pc \in Walking
        PROVE  /\ Clean(h)' /\ FatesAt(b)' \subseteq FatesAt(t)'
               /\ \A v \in Version : Has(t, "finalize", v)' => Reopened(b, v)'
    <3>1. Clean(h)' /\ FatesAt(b)' \subseteq FatesAt(t)'
      BY <1>1, <1>2, <1>g, <1>o, <2>4, <2>9
    <3>2. ASSUME NEW v \in Version, Has(t, "finalize", v)' PROVE Reopened(b, v)'
      <4>1. Has(t, "finalize", v)  BY <1>1, <1>g, <1>o, <2>9, <3>2
      <4>2. Has(r, "finalize", v)  BY <1>1, <1>g, <2>9, <4>1, FatesBelow
      <4>3. Has(b, "finalize", v)' /\ b \in Anc(b)'  BY <2>3, <2>p, <4>2
      <4>4. b # NoCommit  BY <1>1, <1>g DEF Next1, NoCommit
      <4> QED  BY <2>3, <4>3, <4>4 DEF Reopened
    <3> QED  BY <3>1, <3>2
  <2> QED  BY <1>a, <2>2, <2>3, <2>6, <2>7, <2>8, <2>9 DEF Kept
<1> QED  BY <1>3, <1>4, <1>5

\* Every step keeps everybody where they belong.
LEMMA KeptKept ==
    ASSUME Steady, Structure', Accounted', Next
    PROVE  Kept'
<1>1. CASE UNCHANGED log  BY <1>1, KeptQuiet
<1>2. \/ UNCHANGED log \/ OwnCommit \/ CommitAbandoned
      \/ Others /\ (OthersCommit \/ OthersPush)
  BY RepoStep DEF Steady, repoVars, Advances, GivesBack, Pushes, Others, OthersPull
<1> QED  BY <1>1, <1>2, KeptOwn, KeptOthers

\* Every step keeps the command's record of whether its candidate is on origin.
LEMMA PushedKept ==
    Structure /\ Placed /\ (pushed <=> PastPush) /\ Next =>
        (pushed' <=> PastPush') /\ (pushed /\ pc' \in Walking => pushed')
<1> DEFINE Goal == (pushed' <=> PastPush') /\ (pushed /\ pc' \in Walking => pushed')
<1> SUFFICES ASSUME Structure, Placed, pushed <=> PastPush, Next PROVE Goal  OBVIOUS
<1> USE StepsAre
<1>t. pushed \in BOOLEAN /\ step \in Steps  BY DEF Structure, TypeOK, Flags, Memory
<1>z. ASSUME Stopped PROVE Goal  BY <1>z DEF Stopped, PastPush, Walking
<1>s. ASSUME NEW n, NEW k, NEW tried, Stop(n, k, tried) PROVE Goal
  BY <1>t, <1>z, <1>s DEF Stop, Unreached, Goto, PastPush
<1>q. ASSUME ~PastPush, UNCHANGED pushed, pc' \notin {"verify", "gate", "walk", "pushtags", "epilogue"},
             pc' \in {"advance", "record"} => step' = Committed
      PROVE  Goal
  BY <1>q DEF PastPush
<1>p. ASSUME PastPush, UNCHANGED pushed,
             \/ pc' \in {"verify", "gate", "walk", "pushtags", "epilogue"}
             \/ pc' \in {"advance", "record"} /\ step' # Committed
      PROVE  Goal
  BY <1>p DEF PastPush
<1>1. CASE EnterFresh \/ EnterResume
  BY <1>q, <1>1 DEF EnterFresh, EnterResume, Enter, PastPush
<1>2. CASE Abandon  BY <1>q, <1>2 DEF Abandon, PastPush
<1>3. CASE CommitAbandoned  BY <1>q, <1>3 DEF CommitAbandoned, Goto, PastPush
<1>4. CASE Validate \/ Begin \/ Adopt
  BY <1>q, <1>z, <1>4 DEF Validate, Begin, Adopt, Goto, PastPush
<1>5. CASE EntryGuard  BY <1>q, <1>s, <1>5 DEF EntryGuard, Goto, PastPush
<1>6. CASE Clear \/ Epilogue \/ DropState \/ Crash
  BY <1>z, <1>6 DEF Clear, Epilogue, DropState, Crash
<1>7. CASE Bump
  <2>1. pc = "bump" /\ step' = Committed /\ UNCHANGED pushed /\ pc' \in {"candidate", "advance"}
    BY <1>7, Zenon DEF Bump
  <2> QED  BY <1>q, <2>1 DEF PastPush
<1>8. CASE Advance
  <2>1. \/ pc' = "record" /\ UNCHANGED <<step, pushed>>
        \/ \E n, k, tried : Stop(n, k, tried)
    BY <1>8, Zenon DEF Advance, Goto
  <2>2. pc = "advance"  BY <1>8 DEF Advance
  <2> QED  BY <1>s, <2>1, <2>2 DEF PastPush
<1>9. CASE Record
  <2>1. pc = "record" /\ UNCHANGED pushed  BY <1>9 DEF Record
  <2>2. step = Committed => pc' = "candidate"  BY <1>9 DEF Record
  <2>3. step # Committed => pc' \in {"verify", "gate", "walk", "epilogue"}
    BY <1>9 DEF Record
  <2> QED  BY <2>1, <2>2, <2>3 DEF PastPush
<1>10. CASE Discard
  <2>1. pc = "discard" /\ (Stopped \/ (pc' = "clear" /\ UNCHANGED pushed))
    BY <1>10 DEF Discard, Goto
  <2> QED  BY <1>z, <2>1 DEF PastPush
<1>11. CASE Candidate
  <2>1. /\ pc = "candidate"
        /\ \/ pc' = "gate" /\ pushed' = TRUE
           \/ pc' \in {"discard", "judge"} /\ UNCHANGED pushed
    BY <1>11, Zenon DEF Candidate
  <2> QED  BY <2>1 DEF PastPush
<1>12. CASE Judge
  <2>1. /\ pc = "judge"
        /\ \/ pc' = "push" /\ UNCHANGED pushed
           \/ pc' = "record" /\ pushed' = TRUE /\ UNCHANGED step
           \/ \E n, k, tried : Stop(n, k, tried)
    BY <1>12, Zenon DEF Judge, Goto
  <2> QED  BY <1>s, <2>1 DEF PastPush, Placed
<1>13. CASE Push
  <2>1. /\ pc = "push"
        /\ \/ pc' = "record" /\ pushed' = TRUE /\ UNCHANGED step
           \/ \E n, k, tried : Stop(n, k, tried)
    BY <1>13, Zenon DEF Push
  <2> QED  BY <1>s, <2>1 DEF PastPush, Placed
<1>14. CASE Dispatch
  <2>1. /\ pc = "verify"
        /\ \/ pc' = "verify" /\ UNCHANGED pushed
           \/ \E n, k, tried : Stop(n, k, tried)
    BY <1>14, Zenon DEF Dispatch, Goto
  <2> QED  BY <1>s, <2>1 DEF PastPush
<1>15. CASE Verify
  <2>1. /\ pc = "verify"
        /\ \/ pc' = "record" /\ step' = CIVerified /\ UNCHANGED pushed
           \/ \E n, k, tried : Stop(n, k, tried)
    BY <1>15, Zenon DEF Verify
  <2>2. pushed = TRUE  BY <1>t, <2>1 DEF PastPush
  <2>3. CIVerified # Committed  OBVIOUS
  <2> QED  BY <1>s, <2>1, <2>2, <2>3 DEF PastPush
<1>16. CASE Gate
  <2>1. /\ pc = "gate"
        /\ \/ pc' = "walk" /\ UNCHANGED pushed
           \/ \E n, k, tried : Stop(n, k, tried)
    BY <1>16, Zenon DEF Gate
  <2> QED  BY <1>s, <2>1 DEF PastPush
<1>17. CASE Skip
  <2>1. pc = "walk" /\ pc' \in {"walk", "epilogue"} /\ UNCHANGED pushed
    BY <1>17 DEF Skip, Goto
  <2> QED  BY <2>1 DEF PastPush
<1>w. ASSUME pc = "walk",
             \/ pc' \in {"record", "advance", "epilogue", "pushtags"} /\ UNCHANGED <<step, pushed>>
             \/ \E n, k, tried : Stop(n, k, tried)
      PROVE  Goal
  <2>1. step # Committed /\ pushed = TRUE  BY <1>t, <1>w DEF PastPush, Placed
  <2> QED  BY <1>s, <1>w, <2>1 DEF PastPush
<1>18. CASE FinalizeChangelog \/ Archive
  BY <1>w, <1>18, Zenon DEF FinalizeChangelog, Archive, CommitAs, At, Goto
<1>19. CASE AllTagged \/ GitHubRelease \/ PublishPipelines \/ Deploy \/ PostReleaseHooks
  BY <1>w, <1>19, Zenon DEF AllTagged, GitHubRelease, PublishPipelines, Deploy, PostReleaseHooks,
     At, Goto
<1>20. CASE PushBranch
  <2>1. /\ pc = "walk"
        /\ \/ pc' = "pushtags" /\ UNCHANGED <<step, pushed>>
           \/ \E n, k, tried : Stop(n, k, tried)
    BY <1>20, Zenon DEF PushBranch, At
  <2> QED  BY <1>w, <2>1
<1>21. CASE AllTagsPushed  BY <1>21 DEF AllTagsPushed, Goto, PastPush, Placed
<1>22. ASSUME NEW t \in Tags, Tag(t) \/ PushTag(t) PROVE Goal
  BY <1>s, <1>22 DEF Tag, PushTag, procVars, PastPush
<1>23. CASE StepError  BY <1>s, <1>23 DEF StepError
<1>24. CASE Env
  BY <1>24 DEF Env, CommitOnBranch, CommitOnOrigin, ChangelogAdd, Pull, StrayTag, EnvOnly,
     procVars, PastPush
<1> QED
  BY <1>1, <1>2, <1>3, <1>4, <1>5, <1>6, <1>7, <1>8, <1>9, <1>10, <1>11, <1>12, <1>13, <1>14,
     <1>15, <1>16, <1>17, <1>18, <1>19, <1>20, <1>21, <1>22, <1>23, <1>24 DEF Next, Operator, Walk

\* How a command comes to them, and to advancing the branch.
LEMMA Arrives ==
    Structure /\ Placed /\ Next =>
        /\ Early' => \/ Early /\ UNCHANGED last
                     \/ pc = "idle" /\ UNCHANGED last
                     \/ last' = NoCommit
        /\ pc' = "advance" => \/ UNCHANGED <<procVars, st>>
                              \/ Bump
                              \/ (FinalizeChangelog \/ Archive) /\ UNCHANGED step
<1> DEFINE Goal ==
        /\ Early' => \/ Early /\ UNCHANGED last
                     \/ pc = "idle" /\ UNCHANGED last
                     \/ last' = NoCommit
        /\ pc' = "advance" => \/ UNCHANGED <<procVars, st>>
                              \/ Bump
                              \/ (FinalizeChangelog \/ Archive) /\ UNCHANGED step
<1> SUFFICES ASSUME Structure, Placed, Next PROVE Goal  OBVIOUS
<1> USE StepsAre DEF Early
<1>z. ASSUME Stopped PROVE Goal  BY <1>z DEF Stopped
<1>s. ASSUME NEW n, NEW k, NEW tried, Stop(n, k, tried) PROVE Goal
  BY <1>z, <1>s DEF Stop, Goto
<1>l. ASSUME pc' \in Places \ {"entered", "prepared", "guard", "bump", "clear", "advance"} PROVE Goal
  BY <1>l
<1>u. ASSUME UNCHANGED <<procVars, st>> PROVE Goal  BY <1>u DEF procVars
<1>1. CASE EnterFresh \/ EnterResume  BY <1>1 DEF EnterFresh, EnterResume, Enter
<1>2. CASE Abandon \/ CommitAbandoned
  BY <1>l, <1>2 DEF Abandon, CommitAbandoned, Goto, Places
<1>3. CASE Validate \/ Begin \/ Adopt
  <2>1. pc \in {"entered", "prepared"} /\ (Stopped \/ (pc' \in {"prepared", "guard"} /\ UNCHANGED last))
    BY <1>3, Zenon DEF Validate, Begin, Adopt, Goto
  <2> QED  BY <1>z, <2>1
<1>4. CASE EntryGuard  BY <1>s, <1>4 DEF EntryGuard, Goto
<1>5. CASE Bump
  <2>1. pc = "bump" /\ UNCHANGED last /\ pc' \in {"candidate", "advance"}
    BY <1>5, Zenon DEF Bump
  <2> QED  BY <1>5, <2>1
<1>6. CASE Clear \/ Epilogue \/ DropState \/ Crash
  BY <1>z, <1>6 DEF Clear, Epilogue, DropState, Crash
<1>7. CASE Advance  BY <1>s, <1>7 DEF Advance, Goto
<1>8. CASE Discard  BY <1>z, <1>8 DEF Discard, Goto
<1>9. CASE Record  BY <1>9 DEF Record
<1>10. CASE Candidate \/ Gate \/ Skip
  <2>1. pc' \in {"gate", "judge", "walk", "epilogue", "discard"} \/ \E n, k, tried : Stop(n, k, tried)
    BY <1>10, Zenon DEF Candidate, Gate, Skip, Goto
  <2> QED  BY <1>l, <1>s, <2>1 DEF Places
<1>11. CASE Judge \/ Push \/ Dispatch \/ Verify
  <2>1. pc' \in {"push", "record", "verify"} \/ \E n, k, tried : Stop(n, k, tried)
    BY <1>11, Zenon DEF Judge, Push, Dispatch, Verify, Goto
  <2> QED  BY <1>l, <1>s, <2>1 DEF Places
<1>12. CASE FinalizeChangelog \/ Archive
  <2>1. \/ pc' = "record" \/ \E n, k, tried : Stop(n, k, tried)
        \/ pc' = "advance" /\ UNCHANGED step
    BY <1>12, Zenon DEF FinalizeChangelog, Archive, CommitAs, Goto
  <2>2. step # Committed  BY <1>12 DEF FinalizeChangelog, Archive, At
  <2> QED  BY <1>l, <1>s, <1>12, <2>1, <2>2 DEF Places
<1>13. ASSUME NEW t \in Tags, Tag(t) \/ PushTag(t) PROVE Goal
  BY <1>s, <1>u, <1>13 DEF Tag, PushTag
<1>14. CASE \/ AllTagged \/ AllTagsPushed \/ GitHubRelease \/ PublishPipelines \/ Deploy
            \/ PostReleaseHooks \/ PushBranch
  <2>1. pc' \in {"record", "epilogue", "pushtags"} \/ \E n, k, tried : Stop(n, k, tried)
    BY <1>14, Zenon DEF AllTagged, AllTagsPushed, GitHubRelease, PublishPipelines, Deploy,
       PostReleaseHooks, PushBranch, Goto
  <2> QED  BY <1>l, <1>s, <2>1 DEF Places
<1>15. CASE StepError  BY <1>s, <1>15 DEF StepError
<1>16. CASE Env
  BY <1>u, <1>16 DEF Env, CommitOnBranch, CommitOnOrigin, ChangelogAdd, Pull, StrayTag, EnvOnly
<1> QED
  BY <1>1, <1>2, <1>3, <1>4, <1>5, <1>6, <1>7, <1>8, <1>9, <1>10, <1>11, <1>12, <1>13, <1>14,
     <1>15, <1>16 DEF Next, Operator, Walk

\* Every step keeps what a discard would take back.
LEMMA BackingKept ==
    ASSUME Structure, Structure', Accounted, Accounted', Backing, Next
    PROVE  Backing'
<1> USE StepsAre
<1>g. /\ LogOK /\ LogGrows /\ LogClosed /\ Len(log) \in Nat /\ Len(log') \in Nat
      /\ pc \in Walking => head \in Commits /\ tip \in Commits
      /\ pc \in Walking => tip \in Anc(branch) /\ tip \in Anc(head)
      /\ st \in State
  BY Footing
<1>b. Backing /\ Structure /\ Placed /\ Position  BY DEF Accounted
<1>1. (pushed' <=> PastPush') /\ (pushed /\ pc' \in Walking => pushed')
  BY <1>b, PushedKept DEF Backing
<1>2. Early' => last' = NoCommit
  <2>1. Early => last = NoCommit  BY <1>b DEF Backing, Early
  <2>2. pc = "idle" => last = NoCommit  BY <1>b DEF Position, Walking
  <2> QED  BY <1>b, <2>1, <2>2, Arrives
<1>3. ASSUME pc' \in Walking, last' # NoCommit, ~pushed'
      PROVE  /\ (Anc(tip) \subseteq Anc(last) \cup {tip})'
             /\ (log[tip].kind \notin {"finalize", "archive", "never"})'
  <2>1. ~pushed  BY <1>1, <1>3
  <2>2. CASE pc \in Walking /\ UNCHANGED <<tip, last>>
    <3>1. PICK t, l : t = tip /\ l = last  OBVIOUS
    <3>2. last \in Anc(tip) /\ Anc(tip) \subseteq Anc(last) \cup {tip}
          /\ log[tip].kind \notin {"finalize", "archive", "never"}
      BY <1>b, <1>3, <2>1, <2>2 DEF Backing, Position
    <3>3. t \in Commits /\ l \in Commits  BY <1>g, <2>2, <3>1, <3>2, FatesBelow
    <3>4. Anc(t)' = Anc(t) /\ Anc(l)' = Anc(l) /\ log'[t] = log[t]
      BY <1>g, <3>3, CommitStays
    <3>5. tip' = t /\ last' = l  BY <2>2, <3>1
    <3> QED  BY <3>1, <3>2, <3>4, <3>5
  <2>3. CASE Advances
    <3>1. step = Committed /\ pc = "advance" /\ head # tip
      BY <1>b, <2>1, <2>3 DEF Advances, Backing, PastPush
    <3>2. Anc(head) \subseteq Anc(tip) \cup {head} /\ log[head].kind = "bump"
      BY <1>b, <3>1 DEF Backing
    <3> QED  BY <2>3, <3>2 DEF Advances, Anc
  <2>4. CASE GivesBack  BY <1>3, <2>4 DEF GivesBack
  <2>5. CASE OwnCommit
    <3>1. pc \in Walking /\ UNCHANGED <<tip, last>>
      BY <2>5 DEF OwnCommit, CommitsOwn, Bump, FinalizeChangelog, Archive, At, Walking, Places
    <3> QED  BY <2>2, <3>1
  <2>6. CASE pc = "idle" /\ UNCHANGED last  BY <1>3, <1>b, <2>6 DEF Position, Walking
  <2> QED  BY <1>3, <1>b, <2>2, <2>3, <2>4, <2>5, <2>6, HeadStep
<1>4. ASSUME pc' = "advance", step' = Committed
      PROVE  /\ (Anc(head) \subseteq Anc(tip) \cup {head})'
             /\ (head # tip => log[head].kind = "bump")'
  <2>1. CASE UNCHANGED <<procVars, st>>
    <3>1. PICK h, t : h = head /\ t = tip  OBVIOUS
    <3>2. /\ pc \in Walking /\ Anc(h) \subseteq Anc(t) \cup {h} /\ (h # t => log[h].kind = "bump")
          /\ head' = h /\ tip' = t
      BY <1>4, <1>b, <2>1, <3>1 DEF Backing, procVars, Walking, Places
    <3>3. Anc(t)' = Anc(t) /\ Anc(h)' = Anc(h) /\ log'[h] = log[h]
      BY <1>g, <3>1, <3>2, CommitStays
    <3> QED  BY <3>2, <3>3
  <2>2. CASE Bump
    <3>1. pc = "bump" /\ pc \in Walking /\ head = tip
      BY <1>b, <2>2 DEF Bump, Position, Walking, Places
    <3>2. PICK b, h : b = Next1 /\ h = head  OBVIOUS
    <3>3. /\ UNCHANGED tip
          /\ \/ UNCHANGED head
             \/ log' = Extend({head}, "bump", st.ver, NoCommit) /\ head' = Next1
      BY <1>4, <2>2, Zenon DEF Bump
    <3>4. CASE UNCHANGED head  BY <3>1, <3>3, <3>4
    <3>5. CASE log' = Extend({head}, "bump", st.ver, NoCommit) /\ head' = Next1
      <4>1. AddsOn(h, "bump", st.ver, NoCommit, b)
        <5>1. st.ver \in 0..MaxVersion /\ "bump" \in Kinds /\ NoCommit \in Nat
          BY <1>g DEF State, Kinds, NoCommit
        <5>2. log' = Extend({h}, "bump", st.ver, NoCommit) /\ h \in Commits
          BY <1>g, <3>1, <3>2, <3>5
        <5> QED  BY <1>b, <3>2, <5>1, <5>2, CommittingOn
      <4>2. Anc(b)' = Anc(h) \cup {b} /\ log'[b].kind = "bump"  BY <4>1 DEF AddsOn
      <4>3. Anc(h)' = Anc(h)  BY <1>g, <3>1, <3>2, CommitStays
      <4>4. head' = b /\ tip' = h  BY <3>1, <3>2, <3>3, <3>5
      <4> QED  BY <4>2, <4>3, <4>4
    <3> QED  BY <3>3, <3>4, <3>5
  <2>3. ~((FinalizeChangelog \/ Archive) /\ UNCHANGED step)
    BY <1>4 DEF FinalizeChangelog, Archive, At
  <2> QED  BY <1>4, <1>b, <2>1, <2>2, <2>3, Arrives
<1> QED  BY <1>1, <1>2, <1>3, <1>4 DEF Backing, Early

\* Every step keeps what the walk has recorded and holds.
LEMMA HoldingKept ==
    ASSUME Structure, Structure', Accounted, Accounted', Shipping, Holding, Next
    PROVE  Holding'
<1> USE StepsAre
<1>g. /\ LogOK /\ LogGrows /\ LogClosed /\ Len(log) \in Nat /\ Len(log') \in Nat
      /\ branch \in Commits
      /\ pc \in Walking => head \in Commits /\ tip \in Commits
      /\ pc \in Walking => tip \in Anc(branch) /\ tip \in Anc(head)
      /\ st \in State /\ step \in Steps
  BY Footing
<1>b. Holding /\ Structure /\ Placed /\ Position /\ Shipping  BY DEF Accounted
<1>p. pc \in Walking /\ pc # "clear" /\ st.ver # 0 => st.pin \in Commits
  <2>1. pc \in Walking /\ pc # "clear" /\ st.ver # 0 => st.pin \in Anc(tip)
    BY <1>b DEF Shipping, Pinned, Standing
  <2> QED  BY <1>g, <2>1, FatesBelow
<1>v. pc \in Walking /\ ~(pc \in {"entered", "prepared"} /\ mode = "fresh") => st.ver # 0
  BY <1>b DEF Holding
<1>z. ASSUME Stopped PROVE Holding'
  BY <1>z DEF Stopped, Holding, Walking, PastPush, PastGate, Waiting
<1>i. ASSUME pc' \notin Walking PROVE Holding'
  BY <1>i DEF Holding, Walking, Places, PastPush, PastGate, Waiting
<1>e. ASSUME pc' \in {"entered", "prepared", "guard", "bump", "discard", "clear"},
             st'.ver # 0 \/ (pc' \in {"entered", "prepared"} /\ mode' = "fresh")
      PROVE  Holding'
  BY <1>e DEF Holding, PastPush, PastGate, Waiting
<1>s. ASSUME NEW n, NEW k, NEW tried, Stop(n, k, tried), st.ver # 0 PROVE Holding'
  BY <1>e, <1>z, <1>s DEF Stop, Goto
<1>a. ASSUME PastGate, UNCHANGED head, st'.pin = st.pin, st.created \subseteq st'.created
      PROVE  (Anc(head) \ Anc(st.pin) \subseteq st.created)'
  <2>1. pc \in Walking /\ pc \notin {"clear", "entered", "prepared"}
    BY <1>a DEF PastGate, Walking, Places
  <2>2. PICK h, p : h = head /\ p = st.pin  OBVIOUS
  <2>3. Anc(h)' = Anc(h) /\ Anc(p)' = Anc(p)  BY <1>g, <1>p, <1>v, <2>1, <2>2, CommitStays
  <2>4. Anc(h) \ Anc(p) \subseteq st.created  BY <1>a, <1>b, <2>2 DEF Holding
  <2>5. head' = h /\ st'.pin = p  BY <1>a, <2>2
  <2> QED  BY <1>a, <2>3, <2>4, <2>5
<1>u. ASSUME UNCHANGED procVars, st'.ver = st.ver, st'.done = st.done, st'.rc = st.rc,
             st'.pin = st.pin, st'.created = st.created
      PROVE  Holding'
  <2>1. PastGate' <=> PastGate  BY <1>u DEF procVars, PastGate
  <2>2. (PastPush' <=> PastPush) /\ (Waiting' <=> Waiting)
    BY <1>u DEF procVars, PastPush, Waiting
  <2>3. UNCHANGED head  BY <1>u DEF procVars
  <2>4. PastGate' => (Anc(head) \ Anc(st.pin) \subseteq st.created)'
    BY <1>a, <1>u, <2>1, <2>3
  <2>5. UNCHANGED <<pc, mode, step, tip, cand>>  BY <1>u DEF procVars
  <2> QED  BY <1>b, <1>u, <2>1, <2>2, <2>4, <2>5 DEF Holding
<1>x. ASSUME UNCHANGED <<procVars, st>> PROVE Holding'  BY <1>u, <1>x
<1>w. ASSUME PastGate, pc # "advance" \/ head = head', pc' \in {"record", "pushtags"},
             UNCHANGED <<st, step, head, cand>>
      PROVE  Holding'
  <2>1. pc \in Walking /\ pc \notin {"clear", "entered", "prepared"} /\ PastPush
    BY <1>w DEF PastGate, Walking, Places, PastPush
  <2>2. step \in ChangelogFinalized..PostReleaseHooksRun
    BY <1>b, <1>w, <1>g DEF PastGate, Placed
  <2>3. step # Committed /\ step \notin {CandidatePushed, CIVerified}  BY <2>2
  <2>4. (Anc(head) \ Anc(st.pin) \subseteq st.created)'  BY <1>a, <1>w
  <2>5. /\ st.ver # 0 /\ Committed \in st.done /\ CIVerified \in st.done /\ st.rc = cand
        /\ 4..(step - 1) \subseteq st.done
    BY <1>b, <1>v, <1>w, <2>1 DEF Holding
  <2> QED  BY <1>w, <2>3, <2>4, <2>5 DEF Holding, PastPush, PastGate, Waiting
<1>h. pc = "walk" => /\ PastGate /\ pc \in Walking /\ st.ver # 0
                     /\ step \in ChangelogFinalized..PostReleaseHooksRun
                     /\ CIVerified \in st.done /\ Committed \in st.done /\ st.rc = cand
                     /\ 4..(step - 1) \subseteq st.done
  BY <1>b, <1>v DEF PastGate, PastPush, Walking, Places, Holding, Placed
<1>c. ASSUME NEW k \in Kinds, NEW c \in Nat, CommitAs(k, c), UNCHANGED step, At(step)
      PROVE  Holding'
  <2>1. /\ pc = "walk" /\ step \notin st.done /\ st.ver # 0
        /\ PastGate /\ pc \in Walking /\ step \in ChangelogFinalized..PostReleaseHooksRun
    BY <1>c, <1>h DEF At
  <2>2. PICK b, h, p : b = Next1 /\ h = head /\ p = st.pin  OBVIOUS
  <2>3. AddsOn(h, k, st.ver, c, b)
    <3>1. log' = Extend({h}, k, st.ver, c) /\ h \in Commits /\ st.ver \in 0..MaxVersion
      BY <1>c, <1>g, <2>1, <2>2 DEF CommitAs, State
    <3> QED  BY <1>b, <2>2, <3>1, CommittingOn
  <2>4. Anc(b)' = Anc(h) \cup {b}  BY <2>3 DEF AddsOn
  <2>5. Anc(p)' = Anc(p)  BY <1>g, <1>p, <2>1, <2>2, CommitStays
  <2>6. Anc(h) \ Anc(p) \subseteq st.created  BY <1>b, <2>1, <2>2 DEF Holding
  <2>7. st' = [st EXCEPT !.created = @ \cup {b}]  BY <1>c, <2>2 DEF CommitAs
  <2>8. /\ st'.ver = st.ver /\ st'.done = st.done /\ st'.rc = st.rc /\ st'.pin = p
        /\ st'.created = st.created \cup {b}
    BY <1>g, <2>2, <2>7 DEF State
  <2>9. head' = b /\ pc' = "advance" /\ UNCHANGED <<step, cand>>  BY <1>c, <2>2 DEF CommitAs
  <2>10. (Anc(head) \ Anc(st.pin) \subseteq st.created)'  BY <2>4, <2>5, <2>6, <2>8, <2>9
  <2>11. /\ Committed \in st.done /\ CIVerified \in st.done /\ st.rc = cand
         /\ 4..(step - 1) \subseteq st.done
    BY <1>h, <2>1
  <2>12. ~Waiting' /\ ~(pc' = "record")  BY <2>9 DEF Waiting
  <2> QED  BY <2>1, <2>8, <2>9, <2>10, <2>11, <2>12 DEF Holding
<1>1. CASE EnterFresh \/ EnterResume
  BY <1>e, <1>1 DEF EnterFresh, EnterResume, Enter, InProgress
<1>2. CASE Abandon \/ CommitAbandoned \/ DropState
  BY <1>i, <1>2 DEF Abandon, CommitAbandoned, DropState, Goto, Stopped, Walking
<1>3. CASE Validate  BY <1>e, <1>z, <1>3 DEF Validate, Goto
<1>4. CASE Begin
  <2>1. \/ Stopped
        \/ pc' = "guard" /\ st' = [NoState EXCEPT !.ver = VersionOf(head) + 1, !.pin = head]
    BY <1>4 DEF Begin, Goto
  <2>2. VersionOf(head) + 1 # 0
    BY <1>4, <1>b, ReleaseAssumption DEF Begin, Structure, RefsOK, Version
  <2> QED  BY <1>e, <1>z, <2>1, <2>2 DEF NoState
<1>5. CASE Adopt
  <2>1. Stopped \/ (pc' = "guard" /\ st'.ver = st.ver)  BY <1>5, <1>g DEF Adopt, State
  <2>2. st.ver # 0  BY <1>5, <1>v DEF Adopt, Walking, Places
  <2> QED  BY <1>e, <1>z, <2>1, <2>2
<1>6. CASE EntryGuard  BY <1>e, <1>s, <1>v, <1>6 DEF EntryGuard, Goto, Walking, Places
<1>7. CASE Bump
  <2>1. st.ver # 0  BY <1>7, <1>v DEF Bump, Walking, Places
  <2>2. CASE ~BumpOwed /\ pc' = "candidate" /\ UNCHANGED st
    BY <2>1, <2>2 DEF BumpOwed, Holding, PastPush, PastGate, Waiting
  <2>3. CASE BumpOwed /\ pc' = "advance" /\ step' = Committed
             /\ st'.ver = st.ver /\ st'.done = st.done \cup {VersionBumped}
    BY <2>1, <2>3 DEF BumpOwed, Holding, PastPush, PastGate, Waiting
  <2>4. st' = Complete(st, VersionBumped) \/ st' = [Complete(st, VersionBumped) EXCEPT !.created = @ \cup {Next1}]
        => st'.ver = st.ver /\ st'.done = st.done \cup {VersionBumped}
    BY <1>g DEF Complete, State
  <2>5. \/ ~BumpOwed /\ pc' = "candidate" /\ UNCHANGED st
        \/ /\ BumpOwed /\ pc' = "advance" /\ step' = Committed
           /\ \/ st' = Complete(st, VersionBumped)
              \/ st' = [Complete(st, VersionBumped) EXCEPT !.created = @ \cup {Next1}]
    BY <1>7, Zenon DEF Bump
  <2> QED  BY <2>2, <2>3, <2>4, <2>5
<1>8. CASE Advance
  <2>0. st.ver # 0 /\ pc = "advance"  BY <1>8, <1>v DEF Advance, Walking, Places
  <2>1. \/ \E n, k, tried : Stop(n, k, tried)
        \/ pc' = "record" /\ UNCHANGED <<st, step, head, cand>>
    BY <1>8, Zenon DEF Advance, Goto
  <2>2. CASE step = Committed /\ pc' = "record" /\ UNCHANGED <<st, step, head, cand>>
    BY <2>0, <2>2 DEF Holding, PastPush, PastGate, Waiting
  <2>3. CASE step # Committed /\ pc' = "record" /\ UNCHANGED <<st, step, head, cand>>
    <3>1. PastGate  BY <1>b, <2>0, <2>3 DEF Placed, PastGate
    <3> QED  BY <1>w, <2>3, <3>1
  <2> QED  BY <1>s, <2>0, <2>1, <2>2, <2>3
<1>9. CASE Record
  <2>0. st.ver # 0 /\ pc = "record"  BY <1>9, <1>v DEF Record, Walking, Places
  <2>1. /\ st' = Complete(st, step) /\ UNCHANGED <<tip, head, cand>>  BY <1>9 DEF Record
  <2>2. /\ st'.ver = st.ver /\ st'.done = st.done \cup {step} /\ st'.rc = st.rc
        /\ st'.pin = st.pin /\ st'.created = st.created
    BY <1>g, <2>1 DEF Complete, State
  <2>3. CASE step = Committed
    <3>1. pc' = "candidate"  BY <1>9, <2>3 DEF Record
    <3> QED  BY <2>0, <2>2, <2>3, <3>1 DEF Holding, PastPush, PastGate, Waiting
  <2>4. CASE step = CandidatePushed
    <3>1. pc' = "verify" /\ step' = step  BY <1>9, <2>4 DEF Record
    <3>2. cand = tip /\ CIVerified \notin st.done /\ Committed \in st.done
      BY <1>b, <2>0, <2>4 DEF Holding, Waiting, PastPush
    <3> QED  BY <2>0, <2>1, <2>2, <2>4, <3>1, <3>2 DEF Holding, PastPush, PastGate, Waiting
  <2>5. CASE step = CIVerified
    <3>1. pc' = "gate" /\ step' = step  BY <1>9, <2>5 DEF Record
    <3>2. st.rc = cand /\ Committed \in st.done
      BY <1>b, <2>0, <2>5 DEF Holding, Waiting, PastPush
    <3> QED  BY <2>0, <2>1, <2>2, <2>5, <3>1, <3>2 DEF Holding, PastPush, PastGate, Waiting
  <2>6. CASE step >= ChangelogFinalized
    <3>0. PastGate  BY <2>0, <2>6 DEF PastGate
    <3>1. /\ Committed \in st.done /\ CIVerified \in st.done /\ st.rc = cand
          /\ 4..(step - 1) \subseteq st.done
      BY <1>b, <2>0, <2>6, <3>0 DEF Holding, PastPush
    <3>2. (Anc(head) \ Anc(st.pin) \subseteq st.created)'  BY <1>a, <2>1, <2>2, <3>0
    <3>3. \/ pc' = "epilogue"
          \/ pc' = "walk" /\ step' = step + 1
      BY <1>9, <2>6 DEF Record
    <3>4. 4..((step + 1) - 1) \subseteq st.done \cup {step}  BY <1>g, <3>1
    <3>5. CASE pc' = "epilogue"
      BY <2>0, <2>1, <2>2, <3>1, <3>5 DEF Holding, PastPush, PastGate, Waiting
    <3>6. CASE pc' = "walk" /\ step' = step + 1
      BY <2>0, <2>1, <2>2, <3>1, <3>2, <3>4, <3>6 DEF Holding, PastPush, PastGate, Waiting
    <3> QED  BY <3>3, <3>5, <3>6
  <2>7. step # VersionBumped  BY <1>b, <2>0 DEF Placed
  <2> QED  BY <1>g, <2>3, <2>4, <2>5, <2>6, <2>7
<1>10. CASE Discard
  <2>1. st.ver # 0  BY <1>10, <1>v DEF Discard, Walking, Places
  <2> QED  BY <1>e, <1>z, <1>10, <2>1 DEF Discard, Goto
<1>11. CASE Clear \/ Epilogue \/ Crash  BY <1>z, <1>11 DEF Clear, Epilogue, Crash
<1>12. CASE Candidate
  <2>0. st.ver # 0 /\ Committed \in st.done
    BY <1>12, <1>b, <1>v DEF Candidate, Walking, Places, Holding
  <2>1. CASE pc' = "gate" /\ cand' = st.rc /\ CIVerified \in st.done /\ UNCHANGED st
    BY <2>0, <2>1 DEF Holding, PastPush, PastGate, Waiting
  <2>2. CASE pc' = "discard" /\ UNCHANGED st  BY <1>e, <2>0, <2>2
  <2>3. CASE /\ pc' = "judge" /\ cand' = tip /\ tip' = tip /\ CIVerified \notin st.done
             /\ st'.ver = st.ver /\ st'.done = st.done
    BY <2>0, <2>3 DEF Holding, PastPush, PastGate, Waiting
  <2>4. st' = [st EXCEPT !.rc = tip] => st'.ver = st.ver /\ st'.done = st.done
    BY <1>g DEF State
  <2>5. \/ pc' = "gate" /\ cand' = st.rc /\ CIVerified \in st.done /\ UNCHANGED st
        \/ pc' = "discard" /\ UNCHANGED st
        \/ /\ pc' = "judge" /\ cand' = tip /\ tip' = tip /\ CIVerified \notin st.done
           /\ st' = [st EXCEPT !.rc = tip]
    BY <1>12, Zenon DEF Candidate, RecordedCandidate
  <2> QED  BY <2>1, <2>2, <2>3, <2>4, <2>5
<1>13. CASE Judge
  <2>0. /\ st.ver # 0 /\ Committed \in st.done /\ cand = tip /\ CIVerified \notin st.done
        /\ step = CandidatePushed
    BY <1>13, <1>b, <1>v DEF Judge, Walking, Places, Holding, Waiting, Placed
  <2>1. \/ \E n, k, tried : Stop(n, k, tried)
        \/ pc' = "push" /\ UNCHANGED <<step, tip, cand>> /\ (st' = st \/ st' = [st EXCEPT !.runall = cand])
        \/ pc' = "record" /\ UNCHANGED <<step, tip, cand, st>>
    BY <1>13, Zenon DEF Judge, Goto
  <2>2. st' = [st EXCEPT !.runall = cand] => st'.ver = st.ver /\ st'.done = st.done
    BY <1>g DEF State
  <2>3. CASE /\ pc' \in {"push", "record"} /\ UNCHANGED <<step, tip, cand>>
             /\ st'.ver = st.ver /\ st'.done = st.done
    BY <2>0, <2>3 DEF Holding, PastPush, PastGate, Waiting
  <2> QED  BY <1>s, <2>0, <2>1, <2>2, <2>3
<1>14. CASE Push
  <2>0. /\ st.ver # 0 /\ Committed \in st.done /\ cand = tip /\ CIVerified \notin st.done
        /\ step = CandidatePushed
    BY <1>14, <1>b, <1>v DEF Push, Walking, Places, Holding, Waiting, Placed
  <2>1. \/ \E n, k, tried : Stop(n, k, tried)
        \/ pc' = "record" /\ UNCHANGED <<step, tip, cand, st>>
    BY <1>14, Zenon DEF Push
  <2>2. CASE pc' = "record" /\ UNCHANGED <<step, tip, cand, st>>
    BY <2>0, <2>2 DEF Holding, PastPush, PastGate, Waiting
  <2> QED  BY <1>s, <2>0, <2>1, <2>2
<1>15. CASE Dispatch
  <2>0. st.ver # 0 /\ pc = "verify"  BY <1>15, <1>v DEF Dispatch, Walking, Places
  <2>1. \/ \E n, k, tried : Stop(n, k, tried)
        \/ Goto("verify") /\ st' = [st EXCEPT !.runall = NoCommit]
    BY <1>15, Zenon DEF Dispatch
  <2>2. CASE Goto("verify") /\ st' = [st EXCEPT !.runall = NoCommit]
    <3>1. UNCHANGED procVars  BY <2>0, <2>2 DEF Goto, procVars
    <3>2. /\ st'.ver = st.ver /\ st'.done = st.done /\ st'.rc = st.rc
          /\ st'.pin = st.pin /\ st'.created = st.created
      BY <1>g, <2>2 DEF State
    <3> QED  BY <1>u, <3>1, <3>2
  <2> QED  BY <1>s, <2>0, <2>1, <2>2
<1>16. CASE Verify
  <2>0. /\ st.ver # 0 /\ Committed \in st.done /\ cand = tip /\ CIVerified \notin st.done
    BY <1>16, <1>b, <1>v DEF Verify, Walking, Places, Holding, Waiting, PastPush
  <2>1. \/ \E n, k, tried : Stop(n, k, tried)
        \/ /\ pc' = "record" /\ step' = CIVerified /\ st' = [st EXCEPT !.rc = cand]
           /\ UNCHANGED <<tip, cand>>
    BY <1>16, Zenon DEF Verify
  <2>2. st' = [st EXCEPT !.rc = cand] => st'.ver = st.ver /\ st'.done = st.done /\ st'.rc = cand
    BY <1>g DEF State
  <2>3. CASE /\ pc' = "record" /\ step' = CIVerified /\ st'.rc = cand /\ st'.ver = st.ver
             /\ st'.done = st.done /\ UNCHANGED <<tip, cand>>
    BY <2>0, <2>3 DEF Holding, PastPush, PastGate, Waiting
  <2> QED  BY <1>s, <2>0, <2>1, <2>2, <2>3
<1>17. CASE Gate
  <2>0. /\ st.ver # 0 /\ Committed \in st.done /\ CIVerified \in st.done /\ st.rc = cand
        /\ pc \in Walking /\ pc = "gate"
    BY <1>17, <1>b, <1>v DEF Gate, Walking, Places, Holding, PastPush
  <2>1. \/ \E n, k, tried : Stop(n, k, tried)
        \/ /\ pc' = "walk" /\ step' = ChangelogFinalized /\ Foreign = {}
           /\ UNCHANGED <<st, head, cand>>
    BY <1>17, Zenon DEF Gate
  <2>2. CASE /\ pc' = "walk" /\ step' = ChangelogFinalized /\ Foreign = {}
             /\ UNCHANGED <<st, head, cand>>
    <3>1. head = tip /\ Anc(head) \subseteq Anc(branch)
      BY <1>b, <1>g, <2>0, FatesBelow DEF Position
    <3>2. Anc(head) \ Anc(st.pin) \subseteq st.created  BY <2>2, <3>1 DEF Foreign
    <3>3. PICK h, p : h = head /\ p = st.pin  OBVIOUS
    <3>4. Anc(h)' = Anc(h) /\ Anc(p)' = Anc(p)  BY <1>g, <1>p, <2>0, <3>3, CommitStays
    <3>5. (Anc(head) \ Anc(st.pin) \subseteq st.created)'  BY <2>2, <3>2, <3>3, <3>4
    <3>6. 4..(step' - 1) \subseteq st.done  BY <2>0, <2>2
    <3> QED  BY <2>0, <2>2, <3>5, <3>6 DEF Holding, PastPush, PastGate, Waiting
  <2> QED  BY <1>s, <2>0, <2>1, <2>2
<1>18. CASE Skip
  <2>0. pc = "walk" /\ step \in st.done /\ UNCHANGED <<st, head, cand>>
    BY <1>18 DEF Skip, Goto
  <2>1. (Anc(head) \ Anc(st.pin) \subseteq st.created)'  BY <1>a, <1>h, <2>0
  <2>2. pc' = "epilogue" \/ (pc' = "walk" /\ step' = step + 1)  BY <1>18 DEF Skip, Goto
  <2>3. 4..((step + 1) - 1) \subseteq st.done  BY <1>h, <1>g, <2>0
  <2> QED  BY <1>h, <2>0, <2>1, <2>2, <2>3 DEF Holding, PastPush, PastGate, Waiting
<1>19. CASE FinalizeChangelog \/ Archive
  <2>1. \/ \E n, k, tried : Stop(n, k, tried)
        \/ Goto("record") /\ UNCHANGED st
        \/ CommitAs("finalize", NoCommit) /\ UNCHANGED step
        \/ CommitAs("archive", cand) /\ UNCHANGED step
    BY <1>19, Zenon DEF FinalizeChangelog, Archive, ReleaseCommit
  <2>2. At(step) /\ pc = "walk"  BY <1>19 DEF FinalizeChangelog, Archive, At
  <2>3. {"finalize", "archive"} \subseteq Kinds /\ NoCommit \in Nat /\ cand \in Nat
    BY <1>b DEF Structure, TypeOK, Memory, Kinds, NoCommit
  <2> QED  BY <1>c, <1>h, <1>s, <1>w, <2>1, <2>2, <2>3 DEF Goto
<1>20. CASE AllTagged \/ AllTagsPushed \/ GitHubRelease \/ PublishPipelines \/ Deploy
  <2>1. \/ \E n, k, tried : Stop(n, k, tried)
        \/ Goto("record") /\ UNCHANGED st
    BY <1>20, Zenon DEF AllTagged, AllTagsPushed, GitHubRelease, PublishPipelines, Deploy
  <2>2. PastGate /\ pc \in {"walk", "pushtags"}
    BY <1>20 DEF AllTagged, AllTagsPushed, GitHubRelease, PublishPipelines, Deploy, At, PastGate
  <2>3. st.ver # 0  BY <1>v, <2>2 DEF Walking, Places
  <2> QED  BY <1>s, <1>w, <2>1, <2>2, <2>3 DEF Goto
<1>21. CASE PostReleaseHooks
  <2>1. pc = "walk"  BY <1>21 DEF PostReleaseHooks, At
  <2>2. \/ Goto("record") /\ UNCHANGED st
        \/ Goto("epilogue") /\ st' = Fail(st, PostReleaseHooksRun)
    BY <1>21 DEF PostReleaseHooks
  <2>3. CASE Goto("epilogue") /\ st' = Fail(st, PostReleaseHooksRun)
    <3>1. st'.ver = st.ver /\ st'.done = st.done \ {PostReleaseHooksRun}
      BY <1>g, <2>3 DEF Fail, State
    <3>2. pc' = "epilogue"  BY <2>3 DEF Goto
    <3> QED  BY <1>h, <2>1, <3>1, <3>2 DEF Holding, PastPush, PastGate, Waiting
  <2> QED  BY <1>h, <1>w, <2>1, <2>2, <2>3 DEF Goto
<1>22. CASE PushBranch
  <2>1. pc = "walk"  BY <1>22 DEF PushBranch, At
  <2>2. \/ \E n, k, tried : Stop(n, k, tried)
        \/ pc' = "pushtags" /\ UNCHANGED <<st, step, head, cand>>
    BY <1>22, Zenon DEF PushBranch
  <2> QED  BY <1>h, <1>s, <1>w, <2>1, <2>2
<1>23. ASSUME NEW t \in Tags, Tag(t) \/ PushTag(t) PROVE Holding'
  <2>1. \/ \E n, k, tried : Stop(n, k, tried)
        \/ UNCHANGED <<procVars, st>>
    BY <1>23, Zenon DEF Tag, PushTag
  <2>2. pc \in {"walk", "pushtags"}  BY <1>23 DEF Tag, PushTag, At
  <2>3. st.ver # 0  BY <1>v, <2>2 DEF Walking, Places
  <2> QED  BY <1>s, <1>x, <2>1, <2>3
<1>24. CASE StepError
  <2>1. pc \in {"bump", "judge", "verify", "pushtags", "walk"} /\ \E n, k, tried : Stop(n, k, tried)
    BY <1>24 DEF StepError
  <2>2. st.ver # 0  BY <1>v, <2>1 DEF Walking, Places
  <2> QED  BY <1>s, <2>1, <2>2
<1>25. CASE Env
  BY <1>x, <1>25 DEF Env, CommitOnBranch, CommitOnOrigin, ChangelogAdd, Pull, StrayTag, EnvOnly
<1> QED
  BY <1>1, <1>2, <1>3, <1>4, <1>5, <1>6, <1>7, <1>8, <1>9, <1>10, <1>11, <1>12, <1>13, <1>14,
     <1>15, <1>16, <1>17, <1>18, <1>19, <1>20, <1>21, <1>22, <1>23, <1>24, <1>25
     DEF Next, Operator, Walk

\* What a step does to the durable state.
LEMMA StateMoves ==
    Structure /\ Placed /\ Backing /\ Holding /\ Next =>
        \/ st'.ver = 0 \/ Kin(st, st')
        \/ Begin \/ Adopt \/ Clear \/ (Record /\ step = CIVerified) \/ GateRefuses
<1> DEFINE Goal == \/ st'.ver = 0 \/ Kin(st, st')
                   \/ Begin \/ Adopt \/ Clear \/ (Record /\ step = CIVerified) \/ GateRefuses
<1> SUFFICES ASSUME Structure, Placed, Backing, Holding, Next PROVE Goal  OBVIOUS
<1> USE StepsAre
<1>b. /\ st \in State /\ Holding /\ Placed /\ (pushed <=> PastPush) /\ pushed \in BOOLEAN
      /\ step \in Steps
  BY DEF Structure, TypeOK, Memory, Flags, Backing
<1>k. ASSUME st'.ver = st.ver, st'.pin = st.pin, st'.created = st.created,
             st'.rc = st.rc \/ CIVerified \notin st'.done,
             CIVerified \in st'.done => CIVerified \in st.done,
             {CIVerified, ChangelogFinalized} \subseteq st.done =>
                 {CIVerified, ChangelogFinalized} \subseteq st'.done
      PROVE  Goal
  BY <1>k DEF Kin
<1>u. ASSUME UNCHANGED st PROVE Goal  BY <1>k, <1>u
<1>f. ASSUME NEW n, st' = Fail(st, n),
             n \notin {CIVerified, ChangelogFinalized} \/ n \notin st.done \/ CIVerified \notin st.done
      PROVE  Goal
  <2>1. /\ st'.ver = st.ver /\ st'.pin = st.pin /\ st'.created = st.created
        /\ st'.rc = st.rc /\ st'.done = st.done \ {n}
    BY <1>b, <1>f DEF Fail, State
  <2> QED  BY <1>f, <1>k, <2>1
<1>s. ASSUME NEW n, NEW k, NEW tried, Stop(n, k, tried),
             \/ n \notin {CIVerified, ChangelogFinalized} \/ n \notin st.done
             \/ CIVerified \notin st.done
      PROVE  Goal
  BY <1>f, <1>u, <1>s DEF Stop
<1>1. CASE EnterFresh \/ EnterResume \/ Abandon \/ CommitAbandoned \/ Crash
  BY <1>u, <1>1 DEF EnterFresh, EnterResume, Enter, Abandon, CommitAbandoned, Crash
<1>2. CASE DropState \/ Validate \/ Epilogue
  BY <1>u, <1>2 DEF DropState, Validate, Epilogue, NoState
<1>3. CASE Begin \/ Adopt \/ Clear  BY <1>3
<1>4. CASE EntryGuard  BY <1>s, <1>u, <1>4 DEF EntryGuard
<1>5. CASE Bump
  <2>1. \/ UNCHANGED st
        \/ st' = Complete(st, VersionBumped)
        \/ st' = [Complete(st, VersionBumped) EXCEPT !.created = @ \cup {Next1}]
    BY <1>5, Zenon DEF Bump
  <2>2. CASE \/ st' = Complete(st, VersionBumped)
             \/ st' = [Complete(st, VersionBumped) EXCEPT !.created = @ \cup {Next1}]
    <3>1. /\ st'.ver = st.ver /\ st'.pin = st.pin /\ st.created \subseteq st'.created
          /\ st'.rc = st.rc /\ st'.done = st.done \cup {VersionBumped}
      BY <1>b, <2>2 DEF Complete, State
    <3> QED  BY <3>1 DEF Kin
  <2> QED  BY <1>u, <2>1, <2>2
<1>6. CASE Advance
  <2>1. step \notin st.done  BY <1>6, <1>b DEF Advance, Holding
  <2>2. UNCHANGED st \/ \E k, tried : Stop(step, k, tried)  BY <1>6, Zenon DEF Advance
  <2> QED  BY <1>s, <1>u, <2>1, <2>2
<1>7. CASE Record
  <2>1. CASE step # CIVerified
    <3>1. /\ st'.ver = st.ver /\ st'.pin = st.pin /\ st'.created = st.created
          /\ st'.rc = st.rc /\ st'.done = st.done \cup {step}
      BY <1>7, <1>b DEF Record, Complete, State
    <3> QED  BY <1>k, <2>1, <3>1
  <2> QED  BY <1>7, <2>1
<1>8. CASE Discard  BY <1>f, <1>u, <1>8 DEF Discard
<1>9. CASE Candidate
  <2>1. UNCHANGED st \/ (CIVerified \notin st.done /\ st' = [st EXCEPT !.rc = tip])
    BY <1>9, Zenon DEF Candidate
  <2>2. CASE CIVerified \notin st.done /\ st' = [st EXCEPT !.rc = tip]
    <3>1. /\ st'.ver = st.ver /\ st'.pin = st.pin /\ st'.created = st.created /\ st'.done = st.done
      BY <1>b, <2>2 DEF State
    <3> QED  BY <1>k, <2>2, <3>1
  <2> QED  BY <1>u, <2>1, <2>2
<1>10. CASE Judge
  <2>1. \/ UNCHANGED st \/ st' = [st EXCEPT !.runall = cand]
        \/ \E k, tried : Stop(CandidatePushed, k, tried)
    BY <1>10, Zenon DEF Judge
  <2>2. CASE st' = [st EXCEPT !.runall = cand]
    <3>1. /\ st'.ver = st.ver /\ st'.pin = st.pin /\ st'.created = st.created /\ st'.done = st.done
          /\ st'.rc = st.rc
      BY <1>b, <2>2 DEF State
    <3> QED  BY <1>k, <3>1
  <2> QED  BY <1>s, <1>u, <2>1, <2>2
<1>11. CASE Push
  <2>1. UNCHANGED st \/ \E k, tried : Stop(CandidatePushed, k, tried)
    BY <1>11, Zenon DEF Push
  <2> QED  BY <1>s, <1>u, <2>1
<1>12. CASE Dispatch \/ Verify
  <2>1. CIVerified \notin st.done  BY <1>12, <1>b DEF Dispatch, Verify, Holding, Waiting
  <2>2. \/ \E k, tried : Stop(CIVerified, k, tried)
        \/ st' = [st EXCEPT !.runall = NoCommit] \/ st' = [st EXCEPT !.rc = cand]
    BY <1>12, Zenon DEF Dispatch, Verify
  <2>3. CASE st' = [st EXCEPT !.runall = NoCommit] \/ st' = [st EXCEPT !.rc = cand]
    <3>1. /\ st'.ver = st.ver /\ st'.pin = st.pin /\ st'.created = st.created /\ st'.done = st.done
      BY <1>b, <2>3 DEF State
    <3> QED  BY <1>k, <2>1, <3>1
  <2> QED  BY <1>s, <2>1, <2>2, <2>3
<1>13. CASE Gate
  <2>1. pc = "gate" /\ UNCHANGED repoVars  BY <1>13 DEF Gate
  <2>2. UNCHANGED st \/ (Foreign # {} /\ Stop(ChangelogFinalized, "other", attempted))
    BY <1>13, Zenon DEF Gate
  <2>3. ~Unreached("other", attempted)  BY <1>b, <2>1 DEF Unreached, PastPush
  <2>4. Stop(ChangelogFinalized, "other", attempted) => st' = Fail(st, ChangelogFinalized) /\ pc' = "idle"
    BY <2>3 DEF Stop, Stopped
  <2> QED  BY <1>u, <2>1, <2>2, <2>4 DEF GateRefuses
<1>14. CASE Skip \/ AllTagged \/ AllTagsPushed \/ PublishPipelines \/ Deploy
  BY <1>u, <1>14 DEF Skip, AllTagged, AllTagsPushed, PublishPipelines, Deploy
<1>w. ASSUME pc = "walk", step \notin st.done \/ step = Pushed, NEW k, NEW tried, Stop(step, k, tried)
      PROVE  Goal
  BY <1>s, <1>w
<1>15. CASE FinalizeChangelog \/ Archive
  <2>1. \/ UNCHANGED st \/ \E k, tried : Stop(step, k, tried)
        \/ st' = [st EXCEPT !.created = @ \cup {Next1}]
    BY <1>15, Zenon DEF FinalizeChangelog, Archive, CommitAs
  <2>2. pc = "walk" /\ step \notin st.done  BY <1>15 DEF FinalizeChangelog, Archive, At
  <2>3. CASE st' = [st EXCEPT !.created = @ \cup {Next1}]
    <3>1. /\ st'.ver = st.ver /\ st'.pin = st.pin /\ st.created \subseteq st'.created
          /\ st'.rc = st.rc /\ st'.done = st.done
      BY <1>b, <2>3 DEF State
    <3> QED  BY <3>1 DEF Kin
  <2> QED  BY <1>u, <1>w, <2>1, <2>2, <2>3
<1>16. CASE PushBranch \/ GitHubRelease
  <2>1. UNCHANGED st \/ \E k, tried : Stop(step, k, tried)
    BY <1>16, Zenon DEF PushBranch, GitHubRelease
  <2>2. pc = "walk" /\ step \notin st.done  BY <1>16 DEF PushBranch, GitHubRelease, At
  <2> QED  BY <1>u, <1>w, <2>1, <2>2
<1>17. CASE PostReleaseHooks  BY <1>f, <1>u, <1>17 DEF PostReleaseHooks
<1>18. ASSUME NEW t \in Tags, Tag(t) \/ PushTag(t) PROVE Goal
  <2>1. UNCHANGED st \/ \E k, tried : Stop(step, k, tried)  BY <1>18, Zenon DEF Tag, PushTag
  <2>2. step \in {Tagged, Pushed}  BY <1>18, <1>b DEF Tag, PushTag, At, Placed
  <2> QED  BY <1>s, <1>u, <2>1, <2>2
<1>19. CASE StepError
  <2>1. /\ Stop(step, "other", attempted)
        /\ pc \in {"bump", "judge", "verify", "pushtags"} \/ (pc = "walk" /\ step \notin st.done)
    BY <1>19 DEF StepError
  <2>2. CASE pc \in {"bump", "judge"}
    <3>1. Unreached("other", attempted)  BY <1>b, <2>2 DEF Unreached, PastPush
    <3> QED  BY <1>u, <2>1, <3>1 DEF Stop
  <2>3. CASE pc \in {"verify", "pushtags"}
    <3>1. step \in {CandidatePushed, Pushed}  BY <1>b, <2>3 DEF Holding, Placed
    <3> QED  BY <1>s, <2>1, <3>1
  <2> QED  BY <1>w, <2>1, <2>2, <2>3
<1>20. CASE Env
  BY <1>u, <1>20 DEF Env, CommitOnBranch, CommitOnOrigin, ChangelogAdd, Pull, StrayTag, EnvOnly
<1> QED
  BY <1>1, <1>2, <1>3, <1>4, <1>5, <1>6, <1>7, <1>8, <1>9, <1>10, <1>11, <1>12, <1>13, <1>14,
     <1>15, <1>16, <1>17, <1>18, <1>19, <1>20 DEF Next, Operator, Walk

\* A state that is settled where the command or the branch stands stays so,
\* as long as the command does not advance the branch.
LEMMA Rests ==
    ASSUME Steady, Structure', Accounted', Kept', Next, pc' # "clear", ~Advances,
           NEW s \in State, s.ver # 0 => s.pin \in Commits,
           CIVerified \in s.done /\ s.ver # 0 => s.rc \in Commits,
           Settled(s, Standing)
    PROVE  Settled(s, Standing)'
<1>g. /\ LogOK /\ LogOK' /\ LogGrows /\ LogClosed /\ LogClosed' /\ ArchivesFollow
      /\ Len(log) \in Nat /\ Len(log') \in Nat
      /\ branch \in Commits /\ origin \in Commits /\ branch' \in Commits'
      /\ pc \in Walking => head \in Commits /\ tip \in Commits
      /\ pc \in Walking => tip \in Anc(branch) /\ tip \in Anc(head)
  BY Ground
<1>k. Kept /\ Structure /\ Labelled  BY DEF Steady, Storied
<1>v. s.ver # 0 => s.ver \in Version  BY ReleaseAssumption DEF State, Version
<1>1. PICK c, d : c = Standing /\ d = Standing'  OBVIOUS
<1>2. c \in Commits /\ d \in Commits'  BY <1>1, StandingStays DEF Steady, Accounted
<1>3. Settled(s, c)  BY <1>1
<1>4. CASE s.ver = 0  BY <1>4 DEF Settled
<1>5. CASE c = d
  <2>1. Settled(s, c)'  BY <1>2, <1>3, <1>g, SettledStays
  <2> QED  BY <1>1, <1>5, <2>1
<1>6. ASSUME s.ver # 0, c \in Anc(d)', Clean(d)',
             Has(d, "archive", s.ver)' => Has(c, "archive", s.ver),
             Has(c, "finalize", s.ver) => Reopened(d, s.ver)'
      PROVE  Settled(s, Standing)'
  <2>1. Settled(s, d)'  BY <1>2, <1>3, <1>6, <1>g, SettledOver
  <2> QED  BY <1>1, <2>1
<1>7. CASE pc \in Walking /\ pc' \in Walking
  <2>1. UNCHANGED tip
    <3>1. ~GivesBack  BY DEF GivesBack
    <3>2. OwnCommit => UNCHANGED tip  BY DEF OwnCommit, CommitsOwn
    <3>3. ~(pc = "idle")  BY <1>7 DEF Walking
    <3> QED  BY <1>7, <1>k, <3>1, <3>2, <3>3, HeadStep
  <2> QED  BY <1>1, <1>5, <1>7, <2>1 DEF Standing
<1>8. CASE pc \notin Walking /\ pc' \in Walking
  <2>1. tip' = branch
    BY <1>8, <1>k, HeadStep DEF Advances, GivesBack, OwnCommit, Bump, FinalizeChangelog, Archive, At,
       Walking, Places
  <2> QED  BY <1>1, <1>5, <1>8, <2>1 DEF Standing
<1>9. CASE pc \in Walking /\ pc' \notin Walking /\ s.ver # 0
  <2>1. UNCHANGED <<log, branch>>
    <3>1. ~GivesBack /\ ~OwnCommit /\ ~CommitAbandoned /\ ~Others
      BY <1>9 DEF GivesBack, OwnCommit, CommitsOwn, CommitAbandoned, Others, procVars, Walking, Places
    <3> QED  BY <1>k, <3>1, RepoStep DEF repoVars, Pushes
  <2>2. c = tip /\ d = branch  BY <1>1, <1>9, <2>1 DEF Standing
  <2>3. \/ branch = tip
        \/ Has(tip, "finalize", s.ver) => Reopened(branch, s.ver)
    BY <1>9, <1>k, <1>v DEF Kept
  <2>4. c \in Anc(d)' /\ FatesAt(d) \subseteq FatesAt(c) /\ Clean(d)'
    <3>1. Anc(d)' = Anc(d)  BY <1>g, <2>2, CommitStays
    <3>2. c \in Anc(d) /\ FatesAt(d) \subseteq FatesAt(c) /\ Clean(d)
      BY <1>9, <1>g, <1>k, <2>2 DEF Kept
    <3>3. Clean(d)'  BY <1>g, <2>2, <3>2, FatesStay
    <3> QED  BY <3>1, <3>2, <3>3
  <2>5. Has(d, "archive", s.ver)' => Has(c, "archive", s.ver)
    <3>1. Has(d, "archive", s.ver)' => Has(d, "archive", s.ver)  BY <1>g, <2>2, CommitStays
    <3>2. Has(d, "archive", s.ver) => Has(c, "archive", s.ver)  BY <2>4 DEF FatesAt, Has, Of
    <3> QED  BY <3>1, <3>2
  <2>6. Reopened(branch, s.ver) => Reopened(d, s.ver)'  BY <1>g, <2>2, FatesStay
  <2> QED  BY <1>5, <1>6, <1>9, <2>2, <2>3, <2>4, <2>5, <2>6
<1>10. CASE pc \notin Walking /\ pc' \notin Walking /\ s.ver # 0
  <2>0. c = branch /\ d = branch'  BY <1>1, <1>10 DEF Standing
  <2>1. CASE UNCHANGED branch  BY <1>5, <2>0, <2>1
  <2>2. ASSUME c \in Anc(d)', \A e \in FatesAt(d)' : e \in FatesAt(c) \/ log'[e].kind = "never",
               log'[d].kind \notin {"finalize", "archive"}
        PROVE  Settled(s, Standing)'
    <3>1. Clean(d)'
      <4>1. Clean(branch)'  BY DEF Kept
      <4> QED  BY <2>0, <4>1
    <3>2. FatesAt(c)' = FatesAt(c) /\ \A e \in FatesAt(c) : log'[e] = log[e]
      <4>1. Anc(c) \subseteq Commits  BY <1>2, <1>g DEF LogOK, Commits
      <4> QED  BY <1>2, <1>g, <4>1, FatesStay, CommitStays DEF FatesAt
    <3>3. Has(d, "archive", s.ver)' => Has(c, "archive", s.ver)
      <4>1. ASSUME Has(d, "archive", s.ver)' PROVE Has(c, "archive", s.ver)
        <5>1. PICK e \in Anc(d)' : log'[e].kind = "archive" /\ log'[e].ver = s.ver
          BY <4>1 DEF Has, Of
        <5>2. e \in FatesAt(d)'  BY <5>1 DEF FatesAt
        <5>3. e \in FatesAt(c)  BY <2>2, <5>1, <5>2
        <5> QED  BY <3>2, <5>1, <5>3 DEF FatesAt, Has, Of
      <4> QED  BY <4>1
    <3>4. Has(c, "finalize", s.ver) => Reopened(d, s.ver)'
      <4>1. Has(c, "finalize", s.ver) => Has(d, "finalize", s.ver)'
        BY <1>2, <1>g, <2>2, HasStays
      <4>2. d \in Anc(d)' /\ d # NoCommit  BY <1>2, <1>g DEF LogOK, Commits, NoCommit
      <4> QED  BY <2>2, <4>1, <4>2 DEF Reopened
    <3> QED  BY <1>6, <1>10, <2>2, <3>1, <3>3, <3>4
  <2>c. /\ {"work", "aside", "entry", "merge", "never"} \subseteq Kinds /\ loose \in 0..MaxVersion
        /\ 0 \in 0..MaxVersion /\ NoCommit \in Nat
    BY <1>g, <1>k, Refs DEF Kinds
  <2>3. CASE CommitAbandoned
    <3>1. log' = Extend({c}, "never", loose, NoCommit) /\ d = Next1
      BY <2>0, <2>3 DEF CommitAbandoned
    <3>2. AddsOn(c, "never", loose, NoCommit, d)  BY <1>2, <1>k, <2>c, <3>1, CommittingOn
    <3>3. c \in Anc(c)  BY <1>2, <1>g DEF LogOK
    <3>4. /\ Anc(d)' = Anc(c) \cup {d} /\ log'[d].kind = "never"
          /\ \A e : e \in FatesAt(d)' <=> e \in FatesAt(c) \/ e = d
      BY <3>2 DEF AddsOn
    <3> QED  BY <2>2, <3>3, <3>4
  <2>4. CASE Others /\ OthersCommit
    <3>1. PICK P \in SUBSET {branch, origin}, k \in {"work", "aside", "entry", "merge"} :
              branch \in P /\ log' = Extend(P, k, 0, NoCommit)
      BY <2>4 DEF OthersCommit
    <3>2. d = Next1 /\ c \in P /\ P \in SUBSET Commits /\ k \in Kinds
      BY <1>g, <2>0, <2>4, <2>c, <3>1 DEF OthersCommit
    <3>3. Adds(P, k, 0, NoCommit, d)  BY <1>k, <2>c, <3>1, <3>2, Committing
    <3>4. /\ \A e : e \in Anc(d)' <=> e = d \/ \E p \in P : e \in Anc(p)
          /\ \A e : e \in FatesAt(d)' <=> \E p \in P : e \in FatesAt(p)
          /\ log'[d].kind \notin {"finalize", "archive"}
      BY <3>1, <3>3 DEF Adds
    <3>5. \A p \in P : FatesAt(p) \subseteq FatesAt(c)  BY <1>k, <2>0, <3>1 DEF Kept
    <3>6. c \in Anc(c)  BY <1>2, <1>g DEF LogOK
    <3> QED  BY <2>2, <3>2, <3>4, <3>5, <3>6
  <2>5. CASE Others /\ OthersPull
    <3>1. d = origin /\ c \in Anc(d) /\ d \notin Anc(c)  BY <2>0, <2>5 DEF OthersPull
    <3>2. /\ FatesAt(d) \subseteq FatesAt(c) /\ log[d].kind \notin {"finalize", "archive"}
      BY <1>k, <2>0, <3>1 DEF Kept
    <3>3. FatesAt(d)' = FatesAt(d) /\ Anc(d)' = Anc(d) /\ log'[d] = log[d]
      BY <1>g, <3>1, FatesStay, CommitStays
    <3> QED  BY <2>2, <3>1, <3>2, <3>3
  <2>6. ~GivesBack /\ ~OwnCommit
    BY <1>10 DEF GivesBack, OwnCommit, CommitsOwn, Walking, Places
  <2>7. UNCHANGED repoVars \/ Pushes \/ (Others /\ OthersPush) => UNCHANGED branch
    BY DEF repoVars, Pushes, OthersPush
  <2> QED  BY <1>k, <2>1, <2>3, <2>4, <2>5, <2>6, <2>7, RepoStep DEF Others
<1> QED  BY <1>4, <1>7, <1>8, <1>9, <1>10

\* No bump in a history is of a later version than the version files name.
LEMMA NothingAbove ==
    ASSUME NEW c, NEW v \in 0..MaxVersion, v > VersionOf(c)
    PROVE  ~Has(c, "bump", v)
<1>1. v \in VersionOf(c)+1..MaxVersion  BY LastBump, ReleaseAssumption
<1> QED  BY <1>1, LastBump

\* What a state pinned where it stands has of its commits.
LEMMA PinsCommits ==
    ASSUME LogOK, NEW c \in Commits, NEW s, Pinned(s, c), s.ver # 0
    PROVE  s.pin \in Commits /\ (CIVerified \in s.done => s.rc \in Commits)
BY DEF Pinned, Described, LogOK, Commits

\* A release that starts finds nothing archived of the version it claims.
LEMMA BeginSettled ==
    ASSUME Steady, Structure', Accounted', Begin, ~UNCHANGED st
    PROVE  Settled(st, Standing)'
<1>g. /\ LogOK /\ LogGrows /\ LogClosed /\ ArchivesFollow /\ Len(log) \in Nat /\ Len(log') \in Nat
      /\ pc \in Walking => head \in Commits /\ tip \in Commits
  BY Ground DEF Next, Walk
<1>1. /\ pc = "prepared" /\ pc' = "guard" /\ UNCHANGED <<tip, log>>
      /\ st' = [NoState EXCEPT !.ver = VersionOf(head) + 1, !.pin = head]
  BY DEF Begin, Goto, repoVars
<1>2. PICK t, v : t = tip /\ v = st'.ver  OBVIOUS
<1>3. head = tip /\ t \in Commits /\ v = VersionOf(t) + 1 /\ v \in Version
  BY <1>g, <1>1, <1>2 DEF Steady, Accounted, Position, Structure, RefsOK, Walking, Places, NoState
<1>4. v \in 0..MaxVersion /\ v > VersionOf(t)
  <2>1. VersionOf(t) \in Int  BY LastBump, ReleaseAssumption
  <2> QED  BY <1>3, <2>1, ReleaseAssumption DEF Version
<1>5. ~Has(t, "archive", v)  BY <1>3, <1>4, <1>g, ArchiveFollows, NothingAbove
<1>6. ~Has(t, "archive", v)'  BY <1>3, <1>5, <1>g, CommitStays
<1>7. Standing' = t /\ st'.ver = v  BY <1>1, <1>2 DEF Standing, Walking, Places
<1>8. PICK r : r = st'  OBVIOUS
<1>9. Settled(r, t)'  BY <1>2, <1>6, <1>8 DEF Settled
<1> QED  BY <1>7, <1>8, <1>9

\* A resume that goes on adopts commits only where nothing is archived, or
\* somebody's commit is on top of the changelog already.
LEMMA AdoptSettled ==
    ASSUME Steady, Structure', Accounted', Adopt, ~UNCHANGED st
    PROVE  Settled(st, Standing)'
<1>g. /\ LogOK /\ LogGrows /\ LogClosed /\ Len(log) \in Nat /\ Len(log') \in Nat /\ st \in State
      /\ pc \in Walking => head \in Commits /\ tip \in Commits
  BY Ground DEF Next, Walk
<1>1. PICK reverify \in BOOLEAN :
         /\ reverify <=> (Adopted # {} /\ CIVerified \in st.done)
         /\ st' = [st EXCEPT !.pin = tip,
                             !.done = IF reverify THEN @ \ {CIVerified} ELSE @,
                             !.rc = IF reverify THEN NoCommit ELSE @]
  <2>1. st' = [st EXCEPT !.pin = tip,
                         !.done = IF Adopted # {} /\ CIVerified \in st.done THEN @ \ {CIVerified} ELSE @,
                         !.rc = IF Adopted # {} /\ CIVerified \in st.done THEN NoCommit ELSE @]
    BY Zenon DEF Adopt
  <2> QED  BY <2>1
<1>2. pc = "entered" /\ pc' = "guard" /\ UNCHANGED <<tip, log>>  BY DEF Adopt, repoVars
<1>3. /\ st'.ver = st.ver /\ st'.pin = tip
      /\ CIVerified \in st'.done => CIVerified \in st.done /\ st'.rc = st.rc
      /\ ~reverify => st'.done = st.done
  BY <1>g, <1>1 DEF State
<1>4. PICK r, t : r = st' /\ t = tip  OBVIOUS
<1>5. Standing = t /\ Standing' = t /\ t \in Commits
  BY <1>2, <1>4, <1>g DEF Standing, Walking, Places
<1>6. Settled(st, t)  BY <1>2, <1>5 DEF Steady, Storied
<1>7. Settled(r, t)
  <2> SUFFICES ASSUME r.ver # 0, Has(t, "archive", r.ver) PROVE Settled(r, t)
    BY DEF Settled
  <2>1. CIVerified \in r.done => Tells(r.rc, t, r.ver)  BY <1>3, <1>4, <1>6 DEF Settled
  <2>2. Reopened(t, r.ver) \/ {CIVerified, ChangelogFinalized} \subseteq st.done
    BY <1>3, <1>4, <1>6 DEF Settled
  <2>3. {CIVerified, ChangelogFinalized} \subseteq st.done =>
            /\ {CIVerified, ChangelogFinalized} \subseteq r.done
            /\ Anc(t) \ Anc(r.pin) \subseteq r.created
    BY <1>1, <1>3, <1>4 DEF Adopted
  <2> QED  BY <2>1, <2>2, <2>3 DEF Settled
<1>8. /\ r.ver # 0 => r.pin \in Commits
      /\ CIVerified \in r.done /\ r.ver # 0 => r.rc \in Commits
  <2>1. Pinned(st, t)  BY <1>2, <1>5 DEF Steady, Shipping
  <2> QED  BY <1>3, <1>4, <1>5, <1>g, <2>1, PinsCommits
<1>9. Settled(r, t)'  BY <1>5, <1>7, <1>8, <1>g, SettledStays
<1> QED  BY <1>4, <1>5, <1>9

\* A verdict on the tip is the story of a branch made anew.
LEMMA VerdictSettled ==
    ASSUME Steady, Structure', Accounted', Record, step = CIVerified
    PROVE  Settled(st, Standing)'
<1> USE StepsAre
<1>g. /\ LogOK /\ LogGrows /\ LogClosed /\ Len(log) \in Nat /\ Len(log') \in Nat /\ st \in State
      /\ pc \in Walking => head \in Commits /\ tip \in Commits
  BY Ground DEF Next, Walk
<1>2. pc = "record" /\ pc' = "gate" /\ UNCHANGED <<tip, log>> /\ st' = Complete(st, step)
  BY DEF Record, repoVars
<1>3. /\ st'.ver = st.ver /\ st'.pin = st.pin /\ st'.created = st.created
      /\ st'.done = st.done \cup {CIVerified} /\ st'.rc = st.rc
  BY <1>g, <1>2 DEF Complete, State
<1>4. PICK r, t : r = st' /\ t = tip  OBVIOUS
<1>5. Standing = t /\ Standing' = t /\ t \in Commits
  BY <1>2, <1>4, <1>g DEF Standing, Walking, Places
<1>6. Settled(st, t) /\ cand = t /\ st.rc = cand /\ CIVerified \notin st.done
  BY <1>2, <1>4, <1>5 DEF Steady, Storied, Holding, Waiting
<1>7. Settled(r, t)  BY <1>3, <1>4, <1>6 DEF Settled, Tells
<1>8. /\ r.ver # 0 => r.pin \in Commits
      /\ r.rc \in Commits
  <2>1. Pinned(st, t)  BY <1>2, <1>5 DEF Steady, Shipping
  <2> QED  BY <1>3, <1>4, <1>5, <1>6, <1>g, <2>1, PinsCommits
<1>9. Settled(r, t)'  BY <1>5, <1>7, <1>8, <1>g, SettledStays
<1> QED  BY <1>4, <1>5, <1>9

\* Every step keeps the state settled where it stands, but in the middle of a
\* discard.
LEMMA StateSettled ==
    ASSUME "crash-in-discard" \notin Faults, Steady, Structure', Accounted', Kept', Next,
           pc' # "clear"
    PROVE  Settled(st, Standing)'
<1>g. /\ LogOK /\ LogGrows /\ LogClosed /\ Len(log) \in Nat /\ Len(log') \in Nat
      /\ st \in State /\ entry \in State
      /\ pc \in Walking => head \in Commits /\ tip \in Commits
  BY Ground
<1>1. PICK s, r, d : s = st /\ r = st' /\ d = Standing'  OBVIOUS
<1>2. Standing \in Commits /\ d \in Commits'  BY <1>1, StandingStays DEF Steady, Accounted
<1>3. CASE st'.ver = 0
  <2>1. Settled(r, d)'  BY <1>1, <1>3 DEF Settled
  <2> QED  BY <1>1, <2>1
<1>4. pc # "clear" =>
          /\ Settled(s, Standing)
          /\ s.ver # 0 => s.pin \in Commits
          /\ CIVerified \in s.done /\ s.ver # 0 => s.rc \in Commits
  BY <1>1, <1>2, <1>g, PinsCommits DEF Steady, Storied, Shipping
<1>5. CASE pc = "clear"
  <2>1. Clear  BY <1>5, ClearOnly
  <2>2. st' = NoState \/ (mode = "resume" /\ st' = entry)  BY <2>1 DEF Clear, StateBefore
  <2>3. CASE mode = "resume" /\ st' = entry
    <3>1. Standing = tip /\ Before = tip /\ pc \in Walking
      BY <1>5 DEF Standing, Before, Walking, Places, Steady, Storied, Backing
    <3>2. ~pushed  BY <1>5 DEF Steady, Storied, Backing, PastPush
    <3>3. Settled(r, Standing) /\ Pinned(r, Standing)
      BY <1>1, <2>3, <3>1, <3>2 DEF Steady, Storied, Shipping
    <3>4. /\ r.ver # 0 => r.pin \in Commits
          /\ CIVerified \in r.done /\ r.ver # 0 => r.rc \in Commits
      BY <1>2, <1>g, <3>3, PinsCommits
    <3>5. ~Advances /\ r \in State  BY <1>1, <1>5, <1>g, <2>3 DEF Advances
    <3>6. Settled(r, Standing)'  BY <3>3, <3>4, <3>5, Rests
    <3> QED  BY <1>1, <3>6
  <2> QED  BY <1>3, <2>2, <2>3 DEF NoState
<1>6. CASE Advances
  <2>1. Settled(s, head) /\ head' = head /\ UNCHANGED log /\ pc = "advance" /\ st' = s
    BY <1>1, <1>6 DEF Advances, Steady, Storied
  <2>2. d = head  BY <1>1, <1>6 DEF Advances, Standing, Walking, Places
  <2>3. d \in Commits  BY <1>g, <2>1, <2>2 DEF Walking, Places
  <2>4. Settled(s, d)'  BY <1>4, <1>g, <2>1, <2>2, <2>3, SettledStays
  <2> QED  BY <1>1, <2>1, <2>4
<1>7. ASSUME pc # "clear", ~Advances PROVE Settled(s, d)'
  <2>1. Settled(s, Standing)'  BY <1>1, <1>4, <1>7, <1>g, Rests
  <2> QED  BY <1>1, <2>1
<1>8. CASE pc # "clear" /\ ~Advances /\ Kin(st, st')
  <2>1. Kin(s, r)  BY <1>1, <1>8
  <2>2. Settled(r, d)'  BY <1>7, <1>8, <2>1, SettledKin
  <2> QED  BY <1>1, <2>2
<1>9. CASE pc # "clear" /\ ~Advances /\ UNCHANGED st
  <2>1. Settled(s, d)'  BY <1>7, <1>9
  <2> QED  BY <1>1, <1>9, <2>1
<1>10. CASE pc # "clear" /\ ~Advances /\ GateRefuses
  <2>1. /\ pc = "gate" /\ Foreign # {} /\ pc' = "idle" /\ UNCHANGED <<log, branch>>
        /\ st' = Fail(st, ChangelogFinalized)
    BY <1>10 DEF GateRefuses, repoVars
  <2>2. /\ r.ver = s.ver /\ r.rc = s.rc /\ r.done \subseteq s.done
    BY <1>1, <1>g, <2>1 DEF Fail, State
  <2>3. d = branch /\ d \in Commits  BY <1>1, <2>1, Ground DEF Standing, Walking
  <2>4. Settled(s, d)'  BY <1>7, <1>10
  <2>5. s.ver # 0 => ~(Anc(d) \ Anc(s.pin) \subseteq s.created)'
    <3>1. s.ver # 0 => s.pin \in Commits  BY <1>4, <1>10
    <3>2. s.ver # 0 => Anc(d)' = Anc(d) /\ Anc(s.pin)' = Anc(s.pin)
      BY <1>g, <2>3, <3>1, CommitStays
    <3>3. ~(Anc(d) \ Anc(s.pin) \subseteq s.created)  BY <1>1, <2>1, <2>3 DEF Foreign
    <3> QED  BY <3>2, <3>3
  <2>6. Settled(r, d)'  BY <2>2, <2>4, <2>5 DEF Settled
  <2> QED  BY <1>1, <2>6
<1>11. CASE Clear  BY <1>5, <1>11 DEF Clear
<1>12. \/ st'.ver = 0 \/ Kin(st, st')
       \/ Begin \/ Adopt \/ Clear \/ (Record /\ step = CIVerified) \/ GateRefuses
  <2>1. Structure /\ Placed /\ Backing /\ Holding  BY DEF Steady, Accounted, Storied
  <2> QED  BY <2>1, StateMoves
<1> QED
  BY <1>3, <1>5, <1>6, <1>8, <1>9, <1>10, <1>11, <1>12, BeginSettled, AdoptSettled, VerdictSettled

\* A commit the release makes leaves its state settled on it: the bump opens
\* the version anew, the changelog comes before the archive, and the archive
\* names the candidate.
LEMMA HeadSettled ==
    ASSUME "crash-in-discard" \notin Faults, Steady, Structure', Accounted', Kept', Holding',
           Next, pc' = "advance"
    PROVE  Settled(st, head)'
<1> USE StepsAre
<1>g. /\ LogOK /\ LogOK' /\ LogGrows /\ LogClosed /\ LogClosed' /\ ArchivesFollow
      /\ Len(log) \in Nat /\ Len(log') \in Nat /\ st \in State
      /\ pc \in Walking => head \in Commits /\ tip \in Commits
      /\ pc' \in Walking => head' \in Commits'
      /\ st.ver \in 0..MaxVersion
  BY Ground
<1>w. pc' \in Walking  BY DEF Walking, Places
<1>b. Structure /\ Placed /\ Position  BY DEF Steady, Accounted
<1>k. "bump" \in Kinds /\ "finalize" \in Kinds /\ "archive" \in Kinds /\ NoCommit \in Nat /\ cand \in Nat
  BY <1>b DEF Kinds, NoCommit, Structure, TypeOK, Memory
<1>1. PICK s, r, h, b : s = st /\ r = st' /\ h = head /\ b = head'  OBVIOUS
<1>p. pc \in Walking /\ pc # "clear" =>
          /\ Settled(s, tip)
          /\ s.ver # 0 => s.pin \in Commits
          /\ CIVerified \in s.done /\ s.ver # 0 => s.rc \in Commits
  <2> SUFFICES ASSUME pc \in Walking, pc # "clear"
               PROVE  /\ Settled(s, tip)
                      /\ s.ver # 0 => s.pin \in Commits
                      /\ CIVerified \in s.done /\ s.ver # 0 => s.rc \in Commits
    OBVIOUS
  <2>1. Settled(s, tip) /\ Pinned(s, tip)  BY <1>1 DEF Steady, Storied, Shipping, Standing
  <2> QED  BY <1>g, <2>1, PinsCommits
<1>2. CASE UNCHANGED <<procVars, st>>
  <2>1. b = h /\ r = s /\ pc = "advance" /\ pc \in Walking /\ h \in Commits
    BY <1>1, <1>2, <1>g, <1>w DEF procVars
  <2>2. Settled(s, h)  BY <1>1, <2>1 DEF Steady, Storied
  <2>3. Settled(s, h)'  BY <1>g, <1>p, <2>1, <2>2, SettledStays
  <2> QED  BY <1>1, <2>1, <2>3
<1>3. CASE Bump
  <2>1. pc = "bump" /\ pc \in Walking /\ head = tip /\ pc # "clear" /\ h \in Commits
    BY <1>1, <1>3, <1>b, <1>g DEF Bump, Position, Walking, Places
  <2>2. \/ st' = Complete(st, VersionBumped) /\ UNCHANGED <<tip, head>>
        \/ /\ st' = [Complete(st, VersionBumped) EXCEPT !.created = @ \cup {Next1}]
           /\ log' = Extend({head}, "bump", st.ver, NoCommit) /\ head' = Next1
    BY <1>3, Zenon DEF Bump
  <2>3. CASE UNCHANGED <<tip, head>>
    <3>1. Settled(st, Standing)' /\ Standing' = b
      BY <1>1, <1>w, <2>1, <2>3, StateSettled DEF Standing
    <3>2. Settled(r, b)'  BY <1>1, <3>1
    <3> QED  BY <1>1, <3>2
  <2>4. CASE /\ st' = [Complete(st, VersionBumped) EXCEPT !.created = @ \cup {Next1}]
             /\ log' = Extend({head}, "bump", st.ver, NoCommit) /\ head' = Next1
    <3>1. AddsOn(h, "bump", st.ver, NoCommit, b)
      <4>1. log' = Extend({h}, "bump", st.ver, NoCommit) /\ b = Next1  BY <1>1, <2>4
      <4> QED  BY <1>b, <1>g, <1>k, <2>1, <4>1, CommittingOn
    <3>2. /\ Anc(b)' = Anc(h) \cup {b} /\ log'[b].kind = "bump" /\ b \in Commits'
          /\ \A k, n : Has(b, k, n)' <=> (k = "bump" /\ n = st.ver) \/ Has(h, k, n)
      BY <3>1 DEF AddsOn
    <3>3. h \in Anc(b)' /\ b # NoCommit /\ b \in Anc(b)'
      BY <2>1, <3>2, <1>g DEF LogOK, Commits, NoCommit
    <3>4. Clean(b)'
      <4>1. Clean(head)'  BY <1>w DEF Kept
      <4> QED  BY <1>1, <4>1
    <3>5. Has(h, "finalize", s.ver) => Reopened(b, s.ver)'  BY <3>2, <3>3 DEF Reopened
    <3>6. Has(b, "archive", s.ver)' => Has(h, "archive", s.ver)  BY <3>2
    <3>7. s.ver # 0 => Settled(s, b)'
      BY <1>1, <1>g, <1>p, <2>1, <3>2, <3>3, <3>4, <3>5, <3>6, SettledOver
    <3>8. Settled(s, b)'  BY <3>7 DEF Settled
    <3>9. Kin(s, r)
      <4>1. /\ st'.ver = st.ver /\ st'.pin = st.pin /\ st.created \subseteq st'.created
            /\ st'.rc = st.rc /\ st'.done = st.done \cup {VersionBumped}
        BY <1>g, <2>4 DEF Complete, State
      <4> QED  BY <1>1, <4>1 DEF Kin
    <3>10. Settled(r, b)'  BY <3>8, <3>9, SettledKin
    <3> QED  BY <1>1, <3>10
  <2> QED  BY <2>2, <2>3, <2>4, <1>3, Zenon DEF Bump
<1>4. CASE FinalizeChangelog /\ UNCHANGED step
  <2>1. /\ pc = "walk" /\ pc \in Walking /\ head = tip /\ h \in Commits
    BY <1>1, <1>4, <1>b, <1>g DEF FinalizeChangelog, At, Position, Walking, Places
  <2>2. /\ ~Has(head, "finalize", st.ver)
        /\ log' = Extend({head}, "finalize", st.ver, NoCommit) /\ head' = Next1
        /\ st' = [st EXCEPT !.created = @ \cup {Next1}]
    BY <1>4, Zenon DEF FinalizeChangelog, CommitAs, Goto, Stop, Stopped
  <2>3. AddsOn(h, "finalize", st.ver, NoCommit, b)
    <3>1. log' = Extend({h}, "finalize", st.ver, NoCommit) /\ b = Next1  BY <1>1, <2>2
    <3> QED  BY <1>b, <1>g, <1>k, <2>1, <3>1, CommittingOn
  <2>4. ~Has(h, "archive", s.ver)  BY <1>1, <1>g, <2>1, <2>2, ArchiveFollows
  <2>5. ~Has(b, "archive", s.ver)'  BY <2>3, <2>4 DEF AddsOn
  <2>6. r.ver = s.ver  BY <1>1, <1>g, <2>2 DEF State
  <2>7. Settled(r, b)'  BY <2>5, <2>6 DEF Settled
  <2> QED  BY <1>1, <2>7
<1>5. CASE Archive /\ UNCHANGED step
  <2>1. /\ pc = "walk" /\ pc \in Walking /\ head = tip /\ h \in Commits /\ step = ReleaseArchived
    BY <1>1, <1>5, <1>b, <1>g DEF Archive, At, Position, Walking, Places
  <2>2. log' = Extend({head}, "archive", st.ver, cand) /\ head' = Next1
    BY <1>5, Zenon DEF Archive, CommitAs, ReleaseCommit, Goto, Stop, Stopped
  <2>3. AddsOn(h, "archive", st.ver, cand, b)
    <3>1. log' = Extend({h}, "archive", st.ver, cand) /\ b = Next1  BY <1>1, <2>2
    <3> QED  BY <1>b, <1>g, <1>k, <2>1, <3>1, CommittingOn
  <2>4. /\ log'[b].kind = "archive" /\ log'[b].ver = st.ver /\ log'[b].of = cand
        /\ b \in Anc(b)'
    BY <2>3 DEF AddsOn
  <2>5. st'.ver = st.ver /\ UNCHANGED cand
    <3>1. st' = [st EXCEPT !.created = @ \cup {Next1}] /\ UNCHANGED cand
      BY <1>5, Zenon DEF Archive, CommitAs, ReleaseCommit, Goto, Stop, Stopped
    <3> QED  BY <1>g, <3>1 DEF State
  <2>6. PastGate' /\ step' = 6  BY <1>5, <2>1 DEF PastGate
  <2>7. /\ r.rc = cand /\ {CIVerified, ChangelogFinalized} \subseteq r.done
        /\ (Anc(b) \ Anc(r.pin) \subseteq r.created)'
    <3>1. st'.rc = cand' /\ CIVerified \in st'.done /\ 4..(step' - 1) \subseteq st'.done
      BY <2>6 DEF Holding
    <3>2. (Anc(head) \ Anc(st.pin) \subseteq st.created)'  BY <2>6 DEF Holding
    <3>3. PICK p, q : p = r.pin /\ q = r.created  OBVIOUS
    <3>4. Anc(b)' \ Anc(p)' \subseteq q  BY <1>1, <3>2, <3>3
    <3> QED  BY <1>1, <2>5, <2>6, <3>1, <3>3, <3>4
  <2>8. r.ver = s.ver /\ (s.ver # 0 => s.ver \in Version)  BY <1>1, <1>g, <2>5 DEF Version
  <2>9. s.ver # 0 => ArchivedAt(b, s.ver)' = cand
    <3> SUFFICES ASSUME s.ver # 0 PROVE ArchivedAt(b, s.ver)' = cand  OBVIOUS
    <3>1. Clean(b)'
      <4>1. Clean(head)'  BY <1>w DEF Kept
      <4> QED  BY <1>1, <4>1
    <3>2. Of(b, "archive", s.ver)' = {b}
      <4>1. b \in Of(b, "archive", s.ver)'  BY <1>1, <2>4 DEF Of
      <4> QED  BY <2>8, <3>1, <4>1 DEF Clean
    <3> QED  BY <2>4, <3>2 DEF ArchivedAt, Has, Of
  <2>10. Settled(r, b)'  BY <2>7, <2>8, <2>9 DEF Settled, Tells
  <2> QED  BY <1>1, <2>10
<1> QED  BY <1>2, <1>3, <1>4, <1>5, <1>b, Arrives

\* The state a resume found stays settled where the branch would be put back.
LEMMA EntrySettled ==
    ASSUME Steady, Structure', Accounted', Next, mode' = "resume", pc' \in Walking, ~pushed'
    PROVE  Settled(entry, Before)'
<1>g. /\ LogOK /\ LogGrows /\ LogClosed /\ Len(log) \in Nat /\ Len(log') \in Nat
      /\ st \in State /\ entry \in State
      /\ pc \in Walking => head \in Commits /\ tip \in Commits
  BY Ground
<1>b. Structure /\ Placed /\ Position /\ Backing /\ (pushed <=> PastPush) /\ pushed \in BOOLEAN
  BY DEF Steady, Accounted, Storied, Backing, Structure, TypeOK, Flags
<1>1. PICK e, f, c, d : e = entry /\ f = entry' /\ c = Before /\ d = Before'  OBVIOUS
<1>2. CASE pc \notin Walking
  <2>1. UNCHANGED entry  BY <1>2, <1>b, MemoryStep DEF EnterFresh, EnterResume, Enter
  <2>2. entry = NoState  BY <1>2, <1>b DEF Position
  <2>3. Settled(f, d)'  BY <1>1, <2>1, <2>2 DEF Settled, NoState
  <2> QED  BY <1>1, <2>3
<1>3. CASE pc \in Walking
  <2>0. ~pushed  BY <1>3, <1>b, PushedKept
  <2>1. UNCHANGED mode /\ (UNCHANGED entry \/ Adopt)  BY <1>3, <1>b, MemoryStep
  <2>2. c \in Commits  BY <1>1, <1>3, StandingStays DEF Steady, Accounted
  <2>3. c = d \/ (Adopt /\ ~UNCHANGED entry)
    <3>1. CASE UNCHANGED <<tip, last>>  BY <1>1, <3>1 DEF Before
    <3>2. CASE Advances
      <4>1. step = Committed /\ pc = "advance" /\ tip # NoCommit
        BY <1>3, <1>b, <1>g, <2>0, <3>2 DEF Advances, PastPush, Commits, NoCommit
      <4>2. last = NoCommit  BY <1>b, <4>1 DEF Backing
      <4> QED  BY <1>1, <3>2, <4>1, <4>2 DEF Advances, Before
    <3>3. CASE GivesBack  BY <1>1, <3>3 DEF GivesBack, Before
    <3>4. OwnCommit => UNCHANGED <<tip, last>>  BY DEF OwnCommit, CommitsOwn
    <3> QED  BY <1>3, <1>b, <3>1, <3>2, <3>3, <3>4, HeadStep DEF Walking
  <2>4. CASE UNCHANGED entry
    <3>0. c = d  BY <2>3, <2>4
    <3>1. Settled(e, c) /\ Pinned(e, c)
      BY <1>1, <1>3, <2>0, <2>1 DEF Steady, Storied, Shipping
    <3>2. Settled(e, c)'  BY <1>g, <2>2, <3>1, PinsCommits, SettledStays
    <3> QED  BY <1>1, <2>4, <3>0, <3>2
  <2>5. CASE Adopt /\ ~UNCHANGED entry
    <3>1. /\ pc = "entered" /\ entry' = st /\ UNCHANGED <<tip, last>>
      <4>1. Stopped => pc' \notin Walking  BY DEF Stopped, Walking
      <4> QED  BY <2>5, <4>1, Zenon DEF Adopt
    <3>2. last = NoCommit  BY <1>b, <3>1 DEF Backing
    <3>3. d = tip /\ d \in Commits /\ Standing = d
      BY <1>1, <1>3, <1>g, <3>1, <3>2 DEF Before, Standing
    <3>4. f = st /\ Settled(f, d) /\ Pinned(f, d)
      BY <1>1, <3>1, <3>3 DEF Steady, Storied, Shipping
    <3>5. Settled(f, d)'  BY <1>g, <3>3, <3>4, PinsCommits, SettledStays
    <3> QED  BY <1>1, <3>5
  <2> QED  BY <2>1, <2>4, <2>5
<1> QED  BY <1>2, <1>3

\* The branch loses no version's fate, and gains one only when the release
\* advances it or an abandon records one.
LEMMA FatesFlow ==
    ASSUME Steady, Structure', Accounted', Next
    PROVE  /\ FatesAt(branch) \subseteq FatesAt(branch)'
           /\ FatesAt(branch)' \subseteq FatesAt(branch) \/ Advances \/ CommitAbandoned
<1>g. /\ LogOK /\ LogGrows /\ LogClosed /\ Len(log) \in Nat /\ Len(log') \in Nat
      /\ branch \in Commits /\ branch' \in Commits' /\ origin \in Commits
      /\ pc \in Walking => head \in Commits /\ tip \in Commits
      /\ pc \in Walking => tip \in Anc(branch) /\ tip \in Anc(head)
  BY Ground
<1>k. Kept /\ Structure  BY DEF Steady, Storied
<1>c. /\ {"work", "aside", "entry", "merge", "never"} \subseteq Kinds /\ loose \in 0..MaxVersion
      /\ 0 \in 0..MaxVersion /\ NoCommit \in Nat
  BY <1>g, <1>k, Refs DEF Kinds
<1>1. PICK c, d : c = branch /\ d = branch'  OBVIOUS
<1>s. ASSUME NEW x \in Commits PROVE FatesAt(x)' = FatesAt(x)  BY <1>g, FatesStay
<1>2. CASE UNCHANGED branch  BY <1>1, <1>2, <1>g, <1>s
<1>3. CASE Advances
  <2>1. d = head /\ c = tip /\ pc \in Walking  BY <1>1, <1>3 DEF Advances, Walking, Places
  <2>2. FatesAt(c) \subseteq FatesAt(d) /\ d \in Commits  BY <1>g, <2>1, FatesBelow
  <2> QED  BY <1>1, <1>3, <1>s, <2>2
<1>4. CASE GivesBack
  <2>1. /\ pc \in Walking /\ branch = tip /\ last # NoCommit /\ ~PastPush /\ d = last
    BY <1>1, <1>4 DEF GivesBack, Walking, Places, PastPush
  <2>2. /\ Anc(tip) \subseteq Anc(last) \cup {tip}
        /\ log[tip].kind \notin {"finalize", "archive", "never"}
    BY <2>1 DEF Steady, Storied, Backing
  <2>3. last \in Anc(tip)  BY <2>1 DEF Steady, Accounted, Position
  <2>4. d \in Commits /\ FatesAt(d) \subseteq FatesAt(c)
    BY <1>1, <1>g, <2>1, <2>3, FatesBelow
  <2>5. FatesAt(c) \subseteq FatesAt(d)  BY <1>1, <2>1, <2>2 DEF FatesAt
  <2> QED  BY <1>1, <1>s, <2>4, <2>5
<1>5. CASE CommitAbandoned
  <2>1. log' = Extend({c}, "never", loose, NoCommit) /\ d = Next1 /\ c \in Commits
    BY <1>1, <1>5, <1>g DEF CommitAbandoned
  <2>2. AddsOn(c, "never", loose, NoCommit, d)  BY <1>c, <1>k, <2>1, CommittingOn
  <2>3. \A e \in FatesAt(c) : e \in FatesAt(d)'  BY <2>2 DEF AddsOn
  <2> QED  BY <1>1, <1>5, <2>3
<1>6. CASE Others /\ OthersCommit
  <2>1. PICK P \in SUBSET {branch, origin}, k \in {"work", "aside", "entry", "merge"} :
            branch \in P /\ log' = Extend(P, k, 0, NoCommit)
    BY <1>6 DEF OthersCommit
  <2>2. d = Next1 /\ c \in P /\ P \in SUBSET Commits /\ k \in Kinds
    BY <1>1, <1>6, <1>c, <1>g, <2>1 DEF OthersCommit
  <2>3. Adds(P, k, 0, NoCommit, d)  BY <1>c, <1>k, <2>1, <2>2, Committing
  <2>4. \A e : e \in FatesAt(d)' <=> \E p \in P : e \in FatesAt(p)  BY <2>1, <2>3 DEF Adds
  <2>5. \A p \in P : FatesAt(p) \subseteq FatesAt(c)  BY <1>1, <1>k, <2>1 DEF Kept
  <2>6. \A e : e \in FatesAt(d)' <=> e \in FatesAt(c)  BY <2>2, <2>4, <2>5
  <2> QED  BY <1>1, <2>6
<1>7. CASE Others /\ OthersPull
  <2>1. d = origin /\ c \in Anc(d)  BY <1>1, <1>7 DEF OthersPull
  <2>2. FatesAt(d) \subseteq FatesAt(c) /\ FatesAt(c) \subseteq FatesAt(d) /\ d \in Commits
    BY <1>1, <1>g, <1>k, <2>1, FatesBelow DEF Kept
  <2> QED  BY <1>1, <1>s, <2>2
<1>8. UNCHANGED repoVars \/ OwnCommit \/ Pushes \/ OthersPush => UNCHANGED branch
  BY DEF repoVars, OwnCommit, CommitsOwn, Pushes, OthersPush
<1> QED  BY <1>2, <1>3, <1>4, <1>5, <1>6, <1>7, <1>8, <1>k, RepoStep DEF Others

\* What the candidate is past the archive: the branch archives the version,
\* and names it or one it was made anew from.
LEMMA CandidateTells ==
    ASSUME Steady, Structure', Accounted', Next,
           (pc = "walk" /\ step = Tagged) \/ pc = "pushtags"
    PROVE  /\ st.ver \in Version /\ cand \in Commits
           /\ Has(branch, "archive", st.ver) /\ Tells(cand, branch, st.ver)
<1> USE StepsAre
<1>g. /\ LogOK /\ LogClosed /\ branch \in Commits
      /\ pc \in Walking => tip \in Anc(branch)
      /\ st.ver \in 0..MaxVersion
  BY Ground
<1>1. pc \in Walking /\ PastGate /\ step \in {Tagged, Pushed}
  BY DEF Walking, Places, PastGate, Steady, Accounted, Placed
<1>2. /\ 4..(step - 1) \subseteq st.done /\ CIVerified \in st.done /\ st.rc = cand /\ st.ver # 0
  BY <1>1 DEF Steady, Storied, Holding
<1>3. st.ver \in Version  BY <1>2, <1>g, ReleaseAssumption DEF Version
<1>4. ReleaseArchived \in st.done  BY <1>1, <1>2
<1>5. Has(tip, "archive", st.ver) /\ Settled(st, tip)
  BY <1>1, <1>2, <1>4 DEF Steady, Storied, Accounted, Recorded, Told, Effect, Standing
<1>6. cand \in Commits  BY DEF Steady, Accounted, Bumped
<1>7. Clean(branch) /\ FatesAt(tip) \subseteq FatesAt(branch)
  BY <1>1, <1>g, FatesBelow DEF Steady, Storied, Kept
<1>8. Has(branch, "archive", st.ver) /\ ArchivedAt(tip, st.ver) = ArchivedAt(branch, st.ver)
  BY <1>3, <1>5, <1>7, OneArchive
<1> QED  BY <1>2, <1>3, <1>5, <1>6, <1>8 DEF Settled, Tells

\* A step that changes a tag of this release, or its Release, names it so.
LEMMA LabelStep ==
    ASSUME "stray-tag" \notin Faults, Steady, Structure', Accounted', Next, NEW v \in Version
    PROVE  /\ \A t \in Tags : \A x \in {ltag'[v][t], otag'[v][t]} :
                  x # NoCommit =>
                      x \in Commits /\ Has(branch, "archive", v) /\ Tells(x, branch, v)
           /\ grel'[v] # NoCommit => Has(branch, "archive", v) /\ grel'[v] = ArchivedAt(branch, v)
<1>g. /\ LogOK /\ LogClosed /\ branch \in Commits
      /\ pc \in Walking => tip \in Anc(branch) /\ head \in Commits
      /\ st.ver \in 0..MaxVersion
  BY Ground
<1>o. /\ ltag \in [Version -> [Tags -> Nat]] /\ otag \in [Version -> [Tags -> Nat]]
      /\ grel \in [Version -> Nat]
  BY DEF Steady, Structure, TypeOK, Outside
<1>l. /\ \A t \in Tags : \A x \in {ltag[v][t], otag[v][t]} :
              x # NoCommit =>
                  x \in Commits /\ Has(branch, "archive", v) /\ Tells(x, branch, v)
      /\ grel[v] # NoCommit => Has(branch, "archive", v) /\ grel[v] = ArchivedAt(branch, v)
  BY DEF Steady, Storied, Labelled
<1>1. ASSUME NEW t \in Tags
      PROVE  \A x \in {ltag'[v][t], otag'[v][t]} :
                 x # NoCommit => x \in Commits /\ Has(branch, "archive", v) /\ Tells(x, branch, v)
  <2>1. CASE UNCHANGED tagVars  BY <1>l, <2>1 DEF tagVars
  <2>2. ASSUME NEW u \in Tags, Tag(u) \/ PushTag(u)
        PROVE  /\ ltag'[v][t] = ltag[v][t] \/ (v = st.ver /\ ltag'[v][t] = cand)
               /\ otag'[v][t] = otag[v][t] \/ (v = st.ver /\ otag'[v][t] = cand)
               /\ (pc = "walk" /\ step = Tagged) \/ pc = "pushtags"
    <3>1. CASE Tag(u)
      <4>1. /\ ltag' = ltag \/ ltag' = [ltag EXCEPT ![st.ver][u] = cand]
            /\ UNCHANGED otag /\ pc = "walk" /\ step = Tagged
        BY <3>1, Zenon DEF Tag, At
      <4>2. ltag'[v][t] = ltag[v][t] \/ (v = st.ver /\ ltag'[v][t] = cand)  BY <1>o, <4>1
      <4> QED  BY <4>1, <4>2
    <3>2. CASE PushTag(u)
      <4>1. /\ otag' = otag \/ otag' = [otag EXCEPT ![st.ver][u] = cand]
            /\ UNCHANGED ltag /\ pc = "pushtags"
        BY <3>2, Zenon DEF PushTag
      <4>2. otag'[v][t] = otag[v][t] \/ (v = st.ver /\ otag'[v][t] = cand)  BY <1>o, <4>1
      <4> QED  BY <4>1, <4>2
    <3> QED  BY <2>2, <3>1, <3>2
  <2>3. ASSUME NEW u \in Tags, Tag(u) \/ PushTag(u)
        PROVE  \A x \in {ltag'[v][t], otag'[v][t]} :
                 x # NoCommit => x \in Commits /\ Has(branch, "archive", v) /\ Tells(x, branch, v)
    <3>1. st.ver = v => cand \in Commits /\ Has(branch, "archive", v) /\ Tells(cand, branch, v)
      BY <2>2, <2>3, CandidateTells
    <3> QED  BY <1>l, <2>2, <2>3, <3>1
  <2>4. \A w \in Version, u \in Tags : ~StrayTag(w, u)  BY DEF StrayTag, Fault
  <2> QED  BY <2>1, <2>3, <2>4, TagStep
<1>2. grel'[v] # NoCommit => Has(branch, "archive", v) /\ grel'[v] = ArchivedAt(branch, v)
  <2>1. CASE UNCHANGED grel  BY <1>l, <2>1
  <2>2. CASE GitHubRelease /\ ~UNCHANGED grel
    <3>1. /\ pc = "walk" /\ pc \in Walking
          /\ ArchivedAt(head, st.ver) # NoCommit
          /\ grel' = [grel EXCEPT ![st.ver] = ArchivedAt(head, st.ver)]
      BY <2>2 DEF GitHubRelease, At, Walking, Places
    <3>2. head = tip /\ head \in Anc(branch)  BY <1>g, <3>1 DEF Steady, Accounted, Position
    <3>3. Has(head, "archive", st.ver)  BY <1>g, <3>1, ArchivedNames DEF Steady, Accounted
    <3>4. CASE v = st.ver
      <4>1. Clean(branch) /\ FatesAt(head) \subseteq FatesAt(branch)
        BY <1>g, <3>1, <3>2, FatesBelow DEF Steady, Storied, Kept
      <4>2. Has(branch, "archive", v) /\ ArchivedAt(head, v) = ArchivedAt(branch, v)
        BY <3>3, <3>4, <4>1, OneArchive
      <4> QED  BY <1>o, <3>1, <3>4, <4>2
    <3>5. CASE v # st.ver  BY <1>l, <1>o, <3>1, <3>5
    <3> QED  BY <3>4, <3>5
  <2>3. UNCHANGED outVars \/ PublishPipelines \/ Deploy => UNCHANGED grel
    BY DEF outVars, PublishPipelines, Deploy
  <2> QED  BY <2>1, <2>2, <2>3, OutStep
<1> QED  BY <1>1, <1>2

\* Only an abandon writes a never-released archive, of a version that has none.
LEMMA LooseStep ==
    ASSUME Next
    PROVE  \/ UNCHANGED loose
           \/ loose' = 0 /\ pc = "archived"
           \/ /\ pc = "idle" /\ pc' = "archived" /\ UNCHANGED repoVars
              /\ ArchivedAt(branch, loose') = NoCommit
<1>1. CASE Abandon  BY <1>1, Zenon DEF Abandon
<1>2. CASE CommitAbandoned  BY <1>2 DEF CommitAbandoned
<1>3. CASE EnterFresh \/ EnterResume \/ StepError \/ Crash \/ Env
  BY <1>3 DEF EnterFresh, EnterResume, Enter, StepError, Crash, Env, CommitOnBranch, CommitOnOrigin,
     ChangelogAdd, Pull, StrayTag, EnvOnly
<1>4. CASE Walk /\ ~CommitAbandoned
  BY <1>4, Zenon DEF Walk, Validate, Begin, Adopt, EntryGuard, Bump, Advance,
     Record, Discard, Clear, Candidate, Judge, Push, Dispatch, Verify, Gate, Skip,
     FinalizeChangelog, Archive, Tag, AllTagged, PushBranch, PushTag, AllTagsPushed,
     GitHubRelease, PublishPipelines, Deploy, PostReleaseHooks, Epilogue, DropState
<1> QED  BY <1>1, <1>2, <1>3, <1>4 DEF Next, Operator

\* Every step leaves versions' names on what their releases put there.
LEMMA LabelledKept ==
    ASSUME "stray-tag" \notin Faults, Steady, Structure', Accounted', Kept', Next
    PROVE  Labelled'
<1>g. /\ LogOK /\ LogGrows /\ LogClosed /\ Len(log) \in Nat /\ Len(log') \in Nat
      /\ branch \in Commits /\ branch' \in Commits' /\ Commits \subseteq Commits'
  BY Ground
<1>1. PICK c, d, l : c = branch /\ d = branch' /\ l = loose  OBVIOUS
<1>2. Clean(d)' /\ FatesAt(c) \subseteq FatesAt(d)'
  <2>1. Clean(branch)' /\ FatesAt(branch) \subseteq FatesAt(branch)'  BY FatesFlow DEF Kept
  <2> QED  BY <1>1, <2>1
<1>3. ASSUME NEW v \in Version
      PROVE  /\ \A t \in Tags : \A x \in {ltag'[v][t], otag'[v][t]} :
                    x # NoCommit =>
                        x \in Commits' /\ Has(d, "archive", v)' /\ Tells(x, d, v)'
             /\ grel'[v] # NoCommit => Has(d, "archive", v)' /\ grel'[v] = ArchivedAt(d, v)'
  <2>1. Has(c, "archive", v) =>
            /\ Has(d, "archive", v)' /\ ArchivedAt(d, v)' = ArchivedAt(c, v)
            /\ \A x \in Commits : Tells(x, c, v) => Tells(x, d, v)'
    BY <1>1, <1>2, <1>g, TellsOver
  <2>2. /\ \A t \in Tags : \A x \in {ltag'[v][t], otag'[v][t]} :
                  x # NoCommit =>
                      x \in Commits /\ Has(c, "archive", v) /\ Tells(x, c, v)
        /\ grel'[v] # NoCommit => Has(c, "archive", v) /\ grel'[v] = ArchivedAt(c, v)
    BY <1>1, LabelStep
  <2> QED  BY <1>g, <2>1, <2>2
<1>4. loose' # 0 => ~Has(branch, "archive", loose)'
  <2>l. /\ loose # 0 => ~Has(branch, "archive", loose) /\ pc \notin Walking
        /\ LogOK /\ ArchivesName
    BY <1>g DEF Steady, Storied, Labelled, Accounted
  <2>1. CASE UNCHANGED loose /\ loose # 0
    <3>1. ~Advances  BY <2>1, <2>l DEF Advances, Walking, Places
    <3>2. ~CommitAbandoned  BY <2>1 DEF CommitAbandoned
    <3>3. FatesAt(branch)' \subseteq FatesAt(branch)  BY <3>1, <3>2, FatesFlow
    <3>4. FatesAt(d)' \subseteq FatesAt(c)  BY <1>1, <3>3
    <3>5. \A e \in FatesAt(c) : log'[e] = log[e]
      BY <1>1, <1>g DEF FatesAt, LogOK, LogGrows, Commits
    <3>6. Has(d, "archive", l)' => Has(c, "archive", l)  BY <3>4, <3>5 DEF FatesAt, Has, Of
    <3>7. ~Has(d, "archive", l)'  BY <1>1, <2>1, <2>l, <3>6
    <3> QED  BY <1>1, <2>1, <3>7
  <2>2. CASE /\ pc = "idle" /\ pc' = "archived" /\ UNCHANGED repoVars
             /\ ArchivedAt(branch, loose') = NoCommit
    <3>1. PICK n : n = loose'  OBVIOUS
    <3>2. ~Has(c, "archive", n)  BY <1>1, <1>g, <2>2, <2>l, <3>1, ArchivedNames
    <3>3. ~Has(c, "archive", n)'  BY <1>1, <1>g, <3>2, CommitStays
    <3>4. d = c  BY <1>1, <2>2 DEF repoVars
    <3> QED  BY <1>1, <3>1, <3>3, <3>4
  <2> QED  BY <2>1, <2>2, LooseStep
<1>5. pc' \in Walking => loose' = 0
  <2>1. CASE pc \in Walking  BY <2>1, LooseStep DEF Steady, Storied, Labelled, Walking
  <2>2. CASE pc \notin Walking /\ pc' \in Walking
    <3>1. loose = 0 /\ UNCHANGED loose
      BY <2>2, HeadStep DEF Steady, Advances, GivesBack, OwnCommit, Bump, FinalizeChangelog, Archive, At,
         Walking, Places
    <3> QED  BY <3>1
  <2> QED  BY <2>1, <2>2
<1>6. \A v \in Version :
          /\ \A t \in Tags : \A x \in {ltag'[v][t], otag'[v][t]} :
                x # NoCommit =>
                    x \in Commits' /\ Has(branch, "archive", v)' /\ Tells(x, branch, v)'
          /\ grel'[v] # NoCommit => Has(branch, "archive", v)' /\ grel'[v] = ArchivedAt(branch, v)'
  BY <1>1, <1>3
<1> QED  BY <1>4, <1>5, <1>6 DEF Labelled

\* A step that changes nothing keeps the story.
LEMMA StoriedStutters ==
    ASSUME Storied, UNCHANGED vars
    PROVE  Storied'
<1>1. Commits' = Commits /\ \A c : Anc(c)' = Anc(c)  BY DEF vars, Commits, Anc
<1>2. /\ UNCHANGED <<log, branch, origin, ltag, otag, grel, st, loose>>
      /\ UNCHANGED <<pc, mode, step, tip, head, last, pushed, cand, entry>>
  BY DEF vars, procVars
<1>3. \A c, k, v : Of(c, k, v)' = Of(c, k, v)  BY <1>1, <1>2 DEF Of
<1>4. \A c, k, v : Has(c, k, v)' = Has(c, k, v)  BY <1>1, <1>2 DEF Has
<1>5. \A c, v : ArchivedAt(c, v)' = ArchivedAt(c, v) /\ Reopened(c, v)' = Reopened(c, v)
  <2>1. ASSUME NEW c, NEW v PROVE ArchivedAt(c, v)' = ArchivedAt(c, v)
    BY <1>2 DEF ArchivedAt, Has, Of, Anc
  <2>2. ASSUME NEW c, NEW v PROVE Reopened(c, v)' = Reopened(c, v)
    BY <1>2 DEF Reopened, Has, Of, Anc
  <2> QED  BY <2>1, <2>2
<1>6. \A x, c, v : Tells(x, c, v)' = Tells(x, c, v)  BY <1>5 DEF Tells
<1>7. \A s, c : Settled(s, c) => Settled(s, c)'  BY <1>1, <1>4, <1>5, <1>6 DEF Settled
<1>8. \A c : FatesAt(c)' = FatesAt(c) /\ (Clean(c) => Clean(c)')
  BY <1>1, <1>2, <1>3, <1>4 DEF FatesAt, Clean
<1>9. ArchivesFollow'  BY <1>1, <1>2, <1>4 DEF Storied, Kept, ArchivesFollow
<1>10. Kept'  BY <1>1, <1>2, <1>4, <1>5, <1>8, <1>9 DEF Storied, Kept
<1>11. PastPush' = PastPush /\ PastGate' = PastGate /\ Waiting' = Waiting
  BY <1>2 DEF PastPush, PastGate, Waiting
<1>12. Backing'  BY <1>1, <1>2, <1>11 DEF Storied, Backing
<1>13. Holding'  BY <1>1, <1>2, <1>11 DEF Storied, Holding
<1>14. Labelled'  BY <1>1, <1>2, <1>4, <1>5, <1>6 DEF Storied, Labelled
<1> QED  BY <1>2, <1>7, <1>10, <1>12, <1>13, <1>14 DEF Storied, Standing, Before

\* Every step keeps the story of every version, unless somebody takes one of
\* its tags or a process dies in the middle of a discard.
LEMMA StoriedKept ==
    ASSUME "crash-in-discard" \notin Faults, "stray-tag" \notin Faults, Structure, Structure',
           Accounted, Accounted', Shipping, Storied, [Next]_vars
    PROVE  Storied'
<1>1. CASE Next
  <2>1. Steady /\ Backing /\ Holding  BY DEF Steady, Storied
  <2>2. Kept' /\ Backing' /\ Holding'  BY <1>1, <2>1, KeptKept, BackingKept, HoldingKept
  <2>3. Labelled'  BY <1>1, <2>1, <2>2, LabelledKept
  <2>4. pc' # "clear" => Settled(st, Standing)'  BY <1>1, <2>1, <2>2, StateSettled
  <2>5. pc' = "advance" => Settled(st, head)'  BY <1>1, <2>1, <2>2, HeadSettled
  <2>6. mode' = "resume" /\ pc' \in Walking /\ ~pushed' => Settled(entry, Before)'
    BY <1>1, <2>1, EntrySettled
  <2> QED  BY <2>2, <2>3, <2>4, <2>5, <2>6 DEF Storied, Walking
<1>2. CASE UNCHANGED vars  BY <1>2, StoriedStutters
<1> QED  BY <1>1, <1>2

LEMMA InitStoried ==
    ASSUME Init
    PROVE  Storied
<1>1. /\ Commits = {1} /\ Anc(1) = {1} /\ log[1].kind = "base"
      /\ branch = 1 /\ origin = 1 /\ pc = "idle" /\ loose = 0 /\ st = NoState /\ pushed = FALSE
      /\ step = VersionBumped /\ mode = "none"
  BY DEF Init, Commits, Anc
<1>2. \A v : \A k \in {"archive", "never", "finalize"} : Of(1, k, v) = {}  BY <1>1 DEF Of
<1>3. \A v : ~Has(1, "archive", v) /\ ~Has(1, "never", v)  BY <1>2 DEF Has, Of
<1>4. Kept  BY <1>1, <1>2, <1>3 DEF Kept, ArchivesFollow, Clean, FatesAt, Walking
<1>5. Backing  BY <1>1 DEF Backing, PastPush, Walking
<1>6. Holding  BY <1>1 DEF Holding, PastPush, PastGate, Waiting, Walking
<1>7. Labelled  BY <1>1 DEF Labelled, Init, Walking
<1>8. Settled(st, Standing)  BY <1>1 DEF Settled, NoState
<1> QED  BY <1>1, <1>4, <1>5, <1>6, <1>7, <1>8 DEF Storied, Walking

\* The story holds in every state a run of the releases reaches.
LEMMA StoriedHolds ==
    ASSUME "crash-in-discard" \notin Faults, "stray-tag" \notin Faults
    PROVE  Spec => []Storied
<1>1. Init => Accounted /\ Shipping /\ Storied
  <2>1. Init => Shipping
    BY DEF Init, Shipping, Pinned, PastGuard, NoState, Standing, NoCommit, Walking, Places
  <2> QED  BY <2>1, InitAccounted, InitStoried
<1>2. Structure /\ Structure' /\ Accounted /\ [Next]_vars => Accounted'  BY AccountedKept
<1>3. Structure /\ Structure' /\ Accounted /\ Accounted' /\ Shipping /\ [Next]_vars => Shipping'
  BY ShippingKept
<1>4. /\ Structure /\ Structure' /\ Accounted /\ Accounted' /\ Shipping /\ Storied /\ [Next]_vars
      => Storied'
  BY StoriedKept
<1> QED  BY <1>1, <1>2, <1>3, <1>4, StructureHolds, PTL DEF Spec

\* The archive, every tag here and on origin and the Release's marker name one
\* commit for every version none of whose tags is on a commit made anew,
\* however its release fails, is resumed, adopts or defers other people's
\* commits or is discarded - unless somebody takes one of its tags or the
\* process dies between the two halves of a discard.
THEOREM StoriesAgree ==
    ASSUME "crash-in-discard" \notin Faults, "stray-tag" \notin Faults
    PROVE  Spec => []OneStoryUnlessReopened
<1>1. Storied => OneStoryUnlessReopened
  <2> SUFFICES ASSUME Storied, NEW v \in Version,
                      \A t \in Tags : ~Reopened(ltag[v][t], v) /\ ~Reopened(otag[v][t], v)
               PROVE  Cardinality(StoryOf(v)) <= 1
    BY DEF OneStoryUnlessReopened
  <2>1. \A x \in StoryOf(v) : x = ArchivedAt(branch, v)
    BY DEF StoryOf, Storied, Labelled, Tells
  <2>2. StoryOf(v) = {} \/ StoryOf(v) = {ArchivedAt(branch, v)}  BY <2>1
  <2>3. Cardinality(StoryOf(v)) = 0 \/ Cardinality(StoryOf(v)) = 1
    BY <2>2, FS_EmptySet, FS_Singleton
  <2> QED  BY <2>3
<1> QED  BY <1>1, StoriedHolds, PTL

\* A version the record holds as never released keeps no tag, no Release and no
\* archive of a release, whatever resumes after an abandon that died half-way -
\* unless somebody takes one of its tags or the process dies between the two
\* halves of a discard.
THEOREM NeverReleasedIsFinal ==
    ASSUME "crash-in-discard" \notin Faults, "stray-tag" \notin Faults
    PROVE  Spec => []NeverReleasedStays
<1>1. Storied => NeverReleasedStays
  <2> SUFFICES ASSUME Storied, NEW v \in Version, NeverHere(v)
               PROVE  /\ \A t \in Tags : ltag[v][t] = NoCommit /\ otag[v][t] = NoCommit
                      /\ grel[v] = NoCommit /\ ArchivedAt(branch, v) = NoCommit
    BY DEF NeverReleasedStays
  <2>1. ~Has(branch, "archive", v)
    <3>1. CASE Has(branch, "never", v)  BY <3>1 DEF Storied, Kept, Clean
    <3>2. CASE loose = v  BY <3>2, ReleaseAssumption DEF Storied, Labelled, Version
    <3> QED  BY <3>1, <3>2 DEF NeverHere
  <2> QED  BY <2>1 DEF Storied, Labelled, ArchivedAt
<1> QED  BY <1>1, StoriedHolds, PTL

-----------------------------------------------------------------------------
(* A discarded attempt leaves nothing on origin. *)

\* The steps that change the version in progress, and how a command comes to
\* the places where one starts or is abandoned.
LEMMA Turns ==
    Structure /\ Next =>
        /\ \/ st'.ver = st.ver
           \/ Validate /\ st'.ver = 0
           \/ Begin \/ Clear \/ DropState
           \/ Epilogue /\ st.failed = {} /\ MissingSteps(st) = {} /\ st'.ver = 0
        /\ pc' \in {"entered", "prepared"} =>
               EnterFresh \/ EnterResume \/ Validate \/ UNCHANGED <<procVars, st>>
        /\ pc' \in {"archived", "drop"} =>
               Abandon \/ CommitAbandoned \/ UNCHANGED <<procVars, st, loose>>
        /\ pc \in {"entered", "prepared"} /\ pc' \in Walking =>
               Validate \/ Begin \/ Adopt \/ UNCHANGED <<procVars, st>>
<1> DEFINE Versions == \/ st'.ver = st.ver
                       \/ Validate /\ st'.ver = 0
                       \/ Begin \/ Clear \/ DropState
                       \/ Epilogue /\ st.failed = {} /\ MissingSteps(st) = {} /\ st'.ver = 0
           Places0 == /\ pc' \in {"entered", "prepared"} =>
                             EnterFresh \/ EnterResume \/ Validate \/ UNCHANGED <<procVars, st>>
                      /\ pc' \in {"archived", "drop"} =>
                             Abandon \/ CommitAbandoned \/ UNCHANGED <<procVars, st, loose>>
                      /\ pc \in {"entered", "prepared"} /\ pc' \in Walking =>
                             Validate \/ Begin \/ Adopt \/ UNCHANGED <<procVars, st>>
           Goal == Versions /\ Places0
<1> SUFFICES ASSUME Structure, Next PROVE Goal  OBVIOUS
<1>t. st \in State /\ step \in Steps  BY DEF Structure, TypeOK, Memory
<1>u. ASSUME UNCHANGED st PROVE Versions  BY <1>u
<1>f. ASSUME NEW n, st' = Fail(st, n) PROVE Versions
  <2>1. st'.ver = st.ver  BY <1>t, <1>f DEF Fail, State
  <2> QED  BY <2>1
<1>c. ASSUME NEW n, st' = Complete(st, n) PROVE Versions
  <2>1. st'.ver = st.ver  BY <1>t, <1>c DEF Complete, State
  <2> QED  BY <2>1
<1>o. ASSUME st' \in {[st EXCEPT !.created = @ \cup {Next1}], [st EXCEPT !.runall = cand],
                      [st EXCEPT !.runall = NoCommit], [st EXCEPT !.rc = tip], [st EXCEPT !.rc = cand]}
      PROVE  Versions
  <2>1. st'.ver = st.ver  BY <1>t, <1>o DEF State
  <2> QED  BY <2>1
<1>z. ASSUME Stopped PROVE pc' = "idle" /\ Places0  BY <1>z DEF Stopped, Walking
<1>l. ASSUME pc' \in Places \ {"entered", "prepared", "archived", "drop"},
             pc \notin {"entered", "prepared"}
      PROVE  Places0
  BY <1>l
<1>s. ASSUME NEW n, NEW k, NEW tried, Stop(n, k, tried), pc \notin {"entered", "prepared"}
      PROVE  Goal
  <2>1. Versions  BY <1>u, <1>f, <1>s DEF Stop
  <2>2. Places0  BY <1>l, <1>s, <1>z DEF Stop, Goto, Places
  <2> QED  BY <2>1, <2>2
<1> HIDE DEF Versions
<1>1. CASE EnterFresh \/ EnterResume
  <2>1. Versions  BY <1>u, <1>1 DEF EnterFresh, EnterResume, Enter
  <2>2. Places0  BY <1>1 DEF EnterFresh, EnterResume, Enter
  <2> QED  BY <2>1, <2>2
<1>2. CASE Abandon \/ CommitAbandoned
  <2>1. Versions  BY <1>u, <1>2 DEF Abandon, CommitAbandoned
  <2>2. pc \notin {"entered", "prepared"} /\ pc' \in {"archived", "drop"}
    BY <1>2 DEF Abandon, CommitAbandoned, Goto
  <2> QED  BY <1>2, <2>1, <2>2
<1>3. CASE Validate
  <2>1. Versions
    <3>1. UNCHANGED st \/ st' = NoState  BY <1>3 DEF Validate
    <3> QED  BY <1>3, <1>u, <3>1 DEF Versions, NoState
  <2>2. pc' \in {"prepared", "idle"}  BY <1>3, <1>z DEF Validate, Goto
  <2> QED  BY <1>3, <2>1, <2>2
<1>4. CASE Begin
  <2>1. pc' \in {"guard", "idle"}  BY <1>4, <1>z DEF Begin, Goto
  <2> QED  BY <1>4, <2>1 DEF Versions
<1>5. CASE Adopt
  <2>1. Versions
    <3>1. CASE UNCHANGED st  BY <1>u, <3>1
    <3>2. CASE ~UNCHANGED st
      <4>1. PICK reverify \in BOOLEAN :
               st' = [st EXCEPT !.pin = tip,
                                !.done = IF reverify THEN @ \ {CIVerified} ELSE @,
                                !.rc = IF reverify THEN NoCommit ELSE @]
        BY <1>5, <3>2, Zenon DEF Adopt
      <4>2. st'.ver = st.ver  BY <1>t, <4>1 DEF State
      <4> QED  BY <4>2 DEF Versions
    <3> QED  BY <3>1, <3>2
  <2>2. pc' \in {"guard", "idle"}  BY <1>5, <1>z DEF Adopt
  <2> QED  BY <1>5, <2>1, <2>2
<1>6. CASE EntryGuard  BY <1>s, <1>u, <1>l, <1>6 DEF EntryGuard, Goto, Places
<1>7. CASE Bump
  <2>1. Versions
    <3>1. \/ UNCHANGED st \/ st' = Complete(st, VersionBumped)
          \/ st' = [Complete(st, VersionBumped) EXCEPT !.created = @ \cup {Next1}]
      BY <1>7, Zenon DEF Bump
    <3>2. st' = [Complete(st, VersionBumped) EXCEPT !.created = @ \cup {Next1}] => st'.ver = st.ver
      BY <1>t DEF Complete, State
    <3> QED  BY <1>u, <1>c, <3>1, <3>2 DEF Versions
  <2>2. pc' \in {"candidate", "advance"} /\ pc = "bump"  BY <1>7, Zenon DEF Bump
  <2> QED  BY <1>l, <2>1, <2>2 DEF Places
<1>8. CASE Advance
  <2>1. (UNCHANGED st /\ pc' = "record") \/ \E n, k, tried : Stop(n, k, tried)
    BY <1>8, Zenon DEF Advance, Goto
  <2>2. pc = "advance"  BY <1>8 DEF Advance
  <2> QED  BY <1>s, <1>u, <1>l, <2>1, <2>2 DEF Places
<1>9. CASE Record
  <2>1. Versions  BY <1>c, <1>9 DEF Record
  <2>2. pc = "record" /\ pc' \in {"candidate", "verify", "gate", "epilogue", "walk"}
    BY <1>9, StepsAre DEF Record
  <2> QED  BY <1>l, <2>1, <2>2 DEF Places
<1>10. CASE Discard
  <2>1. (UNCHANGED st /\ pc' = "clear") \/ (st' = Fail(st, CandidatePushed) /\ Stopped)
    BY <1>10 DEF Discard, Goto
  <2>2. pc = "discard"  BY <1>10 DEF Discard
  <2> QED  BY <1>f, <1>u, <1>l, <1>z, <2>1, <2>2 DEF Places
<1>11. CASE Clear \/ DropState
  <2>1. Versions  BY <1>11 DEF Versions
  <2>2. Stopped  BY <1>11 DEF Clear, DropState
  <2> QED  BY <1>z, <2>1, <2>2
<1>12. CASE Epilogue
  <2>1. Stopped /\ (UNCHANGED st \/ (st' = NoState /\ st.failed = {} /\ MissingSteps(st) = {}))
    BY <1>12 DEF Epilogue
  <2>2. Versions  BY <1>12, <1>u, <2>1 DEF Versions, NoState
  <2> QED  BY <1>z, <2>1, <2>2
<1>13. CASE Candidate
  <2>1. UNCHANGED st \/ st' = [st EXCEPT !.rc = tip]  BY <1>13, Zenon DEF Candidate
  <2>2. pc' \in {"gate", "discard", "judge"} /\ pc = "candidate"
    BY <1>13, Zenon DEF Candidate
  <2> QED  BY <1>u, <1>o, <1>l, <2>1, <2>2 DEF Places
<1>14. CASE Judge
  <2>1. \/ /\ UNCHANGED st \/ st' = [st EXCEPT !.runall = cand]
           /\ pc' \in {"push", "record"}
        \/ \E n, k, tried : Stop(n, k, tried)
    BY <1>14, Zenon DEF Judge, Goto
  <2>2. pc = "judge"  BY <1>14 DEF Judge
  <2> QED  BY <1>s, <1>u, <1>o, <1>l, <2>1, <2>2 DEF Places
<1>15. CASE Push
  <2>1. (UNCHANGED st /\ pc' = "record") \/ \E n, k, tried : Stop(n, k, tried)
    BY <1>15, Zenon DEF Push
  <2>2. pc = "push"  BY <1>15 DEF Push
  <2> QED  BY <1>s, <1>u, <1>l, <2>1, <2>2 DEF Places
<1>16. CASE Dispatch
  <2>1. \/ st' = [st EXCEPT !.runall = NoCommit] /\ pc' = "verify"
        \/ \E n, k, tried : Stop(n, k, tried)
    BY <1>16, Zenon DEF Dispatch, Goto
  <2>2. pc = "verify"  BY <1>16 DEF Dispatch
  <2> QED  BY <1>s, <1>o, <1>l, <2>1, <2>2 DEF Places
<1>17. CASE Verify
  <2>1. \/ st' = [st EXCEPT !.rc = cand] /\ pc' = "record"
        \/ \E n, k, tried : Stop(n, k, tried)
    BY <1>17, Zenon DEF Verify
  <2>2. pc = "verify"  BY <1>17 DEF Verify
  <2> QED  BY <1>s, <1>o, <1>l, <2>1, <2>2 DEF Places
<1>18. CASE Gate
  <2>1. (UNCHANGED st /\ pc' = "walk") \/ \E n, k, tried : Stop(n, k, tried)
    BY <1>18, Zenon DEF Gate
  <2>2. pc = "gate"  BY <1>18 DEF Gate
  <2> QED  BY <1>s, <1>u, <1>l, <2>1, <2>2 DEF Places
<1>19. CASE Skip
  <2>1. UNCHANGED st /\ pc' \in {"walk", "epilogue"} /\ pc = "walk"  BY <1>19 DEF Skip, Goto
  <2> QED  BY <1>u, <1>l, <2>1 DEF Places
<1>20. CASE FinalizeChangelog \/ Archive
  <2>1. \/ (UNCHANGED st \/ st' = [st EXCEPT !.created = @ \cup {Next1}]) /\ pc' \in {"record", "advance"}
        \/ \E n, k, tried : Stop(n, k, tried)
    BY <1>20, Zenon DEF FinalizeChangelog, Archive, CommitAs, Goto
  <2>2. pc = "walk"  BY <1>20 DEF FinalizeChangelog, Archive, At
  <2> QED  BY <1>s, <1>u, <1>o, <1>l, <2>1, <2>2 DEF Places
<1>21. ASSUME NEW t \in Tags, Tag(t) \/ PushTag(t) PROVE Goal
  <2>1. UNCHANGED <<procVars, st>> \/ \E n, k, tried : Stop(n, k, tried)
    BY <1>21 DEF Tag, PushTag
  <2>2. pc \in {"walk", "pushtags"}  BY <1>21 DEF Tag, PushTag, At
  <2> QED  BY <1>s, <1>u, <1>l, <2>1, <2>2 DEF Places, procVars
<1>22. CASE AllTagged \/ AllTagsPushed \/ GitHubRelease \/ PublishPipelines \/ Deploy \/ PushBranch
  <2>1. (UNCHANGED st /\ pc' \in {"record", "pushtags"}) \/ \E n, k, tried : Stop(n, k, tried)
    BY <1>22, Zenon DEF AllTagged, AllTagsPushed, GitHubRelease, PublishPipelines, Deploy, PushBranch, Goto
  <2>2. pc \in {"walk", "pushtags"}
    BY <1>22 DEF AllTagged, AllTagsPushed, GitHubRelease, PublishPipelines, Deploy, PushBranch, At
  <2> QED  BY <1>s, <1>u, <1>l, <2>1, <2>2 DEF Places
<1>23. CASE PostReleaseHooks
  <2>1. /\ UNCHANGED st \/ st' = Fail(st, PostReleaseHooksRun)
        /\ pc' \in {"record", "epilogue"} /\ pc = "walk"
    BY <1>23 DEF PostReleaseHooks, Goto, At
  <2> QED  BY <1>f, <1>u, <1>l, <2>1 DEF Places
<1>24. CASE StepError
  <2>1. (\E n, k, tried : Stop(n, k, tried)) /\ pc \notin {"entered", "prepared"}
    BY <1>24 DEF StepError
  <2> QED  BY <1>s, <2>1
<1>25. CASE Crash
  <2>1. UNCHANGED st /\ Stopped  BY <1>25 DEF Crash
  <2> QED  BY <1>u, <1>z, <2>1
<1>26. CASE Env
  <2>1. UNCHANGED <<procVars, st, loose>>
    BY <1>26 DEF Env, CommitOnBranch, CommitOnOrigin, ChangelogAdd, Pull, StrayTag, EnvOnly
  <2> QED  BY <1>u, <2>1
<1> QED
  BY <1>1, <1>2, <1>3, <1>4, <1>5, <1>6, <1>7, <1>8, <1>9, <1>10, <1>11, <1>12, <1>13, <1>14,
     <1>15, <1>16, <1>17, <1>18, <1>19, <1>20, <1>21, <1>22, <1>23, <1>24, <1>25, <1>26
     DEF Next, Operator, Walk

\* A commit holds the bumps of the commits it holds, and always did.
LEMMA BumpsStay ==
    ASSUME LogOK, LogClosed, LogGrows, Len(log) \in Nat, Len(log') \in Nat, NEW c \in Commits
    PROVE  /\ Bumps(c)' = Bumps(c)
           /\ \A k, v : Has(c, k, v)' = Has(c, k, v)
           /\ \A d \in Anc(c) : d \in Commits /\ Bumps(d) \subseteq Bumps(c)
<1>1. /\ Anc(c)' = Anc(c) /\ Anc(c) \subseteq Commits
      /\ \A d \in Anc(c) : log'[d] = log[d]
  BY DEF LogOK, LogGrows, Commits, Anc
<1>2. Bumps(c)' = Bumps(c)  BY <1>1 DEF Bumps
<1>3. \A k, v : Has(c, k, v)' = Has(c, k, v)  BY CommitStays
<1>4. \A d \in Anc(c) : d \in Commits /\ Bumps(d) \subseteq Bumps(c)
  BY <1>1 DEF Bumps, LogClosed
<1> QED  BY <1>2, <1>3, <1>4

\* A commit whose bumps another holds has no version's bump the other has not.
LEMMA BumpsHave ==
    ASSUME NEW c, NEW d, Bumps(c) \subseteq Bumps(d), NEW v, Has(c, "bump", v)
    PROVE  Has(d, "bump", v)
BY DEF Bumps, Has

\* The bumps of a commit a step adds are its parents', and itself if it is one.
LEMMA BumpsAdded ==
    ASSUME LogOK, LogClosed, LogGrows, Len(log) \in Nat, Len(log') \in Nat, NEW P \in SUBSET Commits,
           NEW k, NEW v, NEW c, NEW b, Adds(P, k, v, c, b)
    PROVE  \A d : d \in Bumps(b)' <=> (d = b /\ k = "bump") \/ \E p \in P : d \in Bumps(p)
<1>1. \A p \in P : \A d \in Anc(p) : d \in Commits /\ log'[d] = log[d]
  BY DEF LogOK, LogGrows, Commits
<1>2. \A d : d \in Anc(b)' <=> d = b \/ \E p \in P : d \in Anc(p)  BY DEF Adds
<1>3. log'[b].kind = k /\ b \notin Commits  BY DEF Adds
<1>4. \A d : d \in Bumps(b)' <=> d \in Anc(b)' /\ log'[d].kind = "bump"  BY DEF Bumps
<1>5. \A p \in P : \A d : d \in Bumps(p) <=> d \in Anc(p) /\ log[d].kind = "bump"
  BY DEF Bumps
<1> QED  BY <1>1, <1>2, <1>3, <1>4, <1>5

\* What a discard takes back.
LEMMA TakenBack ==
    ASSUME Accounted, Backing, GivesBack
    PROVE  /\ pc \in Walking /\ ~pushed /\ last # NoCommit /\ branch = tip /\ last \in Anc(tip)
           /\ Anc(tip) \subseteq Anc(last) \cup {tip}
           /\ log[tip].kind \notin {"finalize", "archive", "never"}
<1>1. pc = "discard" /\ pc \in Walking /\ last # NoCommit /\ branch = tip
  BY DEF GivesBack, Walking, Places
<1>2. ~pushed  BY <1>1 DEF Backing, PastPush
<1> QED  BY <1>1, <1>2 DEF Backing, Accounted, Position

\* The branch loses no version's fate.
LEMMA FateKept ==
    Structure /\ Structure' /\ Accounted /\ Accounted' /\ Backing /\ Next =>
        \A k \in {"archive", "never"} : \A v : Has(branch, k, v) => Has(branch, k, v)'
<1> SUFFICES ASSUME Structure, Structure', Accounted, Accounted', Backing, Next,
                    NEW k \in {"archive", "never"}, NEW v, Has(branch, k, v)
             PROVE  Has(branch, k, v)'
  OBVIOUS
<1>g. /\ LogOK /\ LogGrows /\ LogClosed /\ LogClosed' /\ Len(log) \in Nat /\ Len(log') \in Nat
      /\ branch \in Commits /\ branch' \in Commits'
  BY Footing
<1>1. PICK c, d : c = branch /\ d = branch'  OBVIOUS
<1>2. CASE branch \in Anc(branch)'  BY <1>g, <1>1, <1>2, HasStays
<1>3. CASE GivesBack
  <2>1. /\ last \in Anc(tip) /\ branch = tip /\ Anc(tip) \subseteq Anc(last) \cup {tip}
        /\ log[tip].kind \notin {"archive", "never"} /\ d = last
    BY <1>1, <1>3, TakenBack DEF GivesBack
  <2>2. Has(d, k, v) /\ d \in Commits  BY <1>1, <1>g, <2>1, FatesBelow DEF Has
  <2> QED  BY <1>1, <1>g, <2>2, CommitStays
<1>4. Discard => UNCHANGED <<log, branch>> \/ GivesBack
  BY DEF Discard, GivesBack, TakesBack, Goto
<1>5. CASE UNCHANGED <<log, branch>>  BY <1>5 DEF Has, Anc
<1> QED  BY <1>2, <1>3, <1>4, <1>5, BranchGrows DEF Accounted

\* The branch gains a bump only when a release advances it.
LEMMA BumpsFlow ==
    ASSUME Structure, Structure', Accounted, Accounted', Backing, Next,
           Bumps(origin) \subseteq Bumps(branch)
    PROVE  \/ Bumps(branch)' \subseteq Bumps(branch)
           \/ Advances /\ Bumps(branch)' = Bumps(head) /\ head \in Commits
<1>g. /\ LogOK /\ LogGrows /\ LogClosed /\ Len(log) \in Nat /\ Len(log') \in Nat
      /\ branch \in Commits /\ branch' \in Commits' /\ origin \in Commits
      /\ pc \in Walking => head \in Commits /\ tip \in Commits
  BY Footing
<1>c. /\ {"work", "aside", "entry", "merge", "never"} \subseteq Kinds /\ loose \in 0..MaxVersion
      /\ 0 \in 0..MaxVersion /\ NoCommit \in Nat
  BY <1>g, Refs DEF Kinds
<1>1. PICK c, d : c = branch /\ d = branch'  OBVIOUS
<1>s. ASSUME NEW x \in Commits PROVE Bumps(x)' = Bumps(x)  BY <1>g, BumpsStay
<1>2. CASE UNCHANGED branch  BY <1>1, <1>2, <1>g, <1>s
<1>3. CASE Advances
  <2>1. d = head /\ head \in Commits  BY <1>1, <1>3, <1>g DEF Advances, Walking, Places
  <2> QED  BY <1>1, <1>3, <1>s, <2>1
<1>4. CASE GivesBack
  <2>1. d = last /\ last \in Anc(branch)  BY <1>1, <1>4, TakenBack DEF GivesBack
  <2>2. d \in Commits /\ Bumps(d) \subseteq Bumps(branch)  BY <1>g, <2>1, BumpsStay
  <2> QED  BY <1>1, <1>s, <2>2
<1>5. CASE CommitAbandoned
  <2>1. log' = Extend({c}, "never", loose, NoCommit) /\ d = Next1 /\ {c} \in SUBSET Commits
    BY <1>1, <1>5, <1>g DEF CommitAbandoned
  <2>2. Adds({c}, "never", loose, NoCommit, d)  BY <1>c, <2>1, Committing
  <2>3. \A e : e \in Bumps(d)' => e \in Bumps(c)  BY <1>g, <2>1, <2>2, BumpsAdded
  <2> QED  BY <1>1, <2>3
<1>6. CASE Others /\ OthersCommit
  <2>1. PICK P \in SUBSET {branch, origin}, k \in {"work", "aside", "entry", "merge"} :
            branch \in P /\ log' = Extend(P, k, 0, NoCommit)
    BY <1>6 DEF OthersCommit
  <2>2. d = Next1 /\ P \in SUBSET Commits /\ k \in Kinds /\ k # "bump"
    BY <1>1, <1>6, <1>c, <1>g, <2>1 DEF OthersCommit
  <2>3. Adds(P, k, 0, NoCommit, d)  BY <1>c, <2>1, <2>2, Committing
  <2>4. \A e : e \in Bumps(d)' => \E p \in P : e \in Bumps(p)
    BY <1>g, <2>2, <2>3, BumpsAdded
  <2>5. \A p \in P : Bumps(p) \subseteq Bumps(c)  BY <1>1, <2>1
  <2> QED  BY <1>1, <2>4, <2>5
<1>7. CASE Others /\ OthersPull
  <2>1. branch' = origin  BY <1>7 DEF OthersPull
  <2> QED  BY <1>1, <1>g, <1>s, <2>1
<1>8. UNCHANGED repoVars \/ OwnCommit \/ Pushes \/ OthersPush => UNCHANGED branch
  BY DEF repoVars, OwnCommit, CommitsOwn, Pushes, OthersPush
<1> QED  BY <1>2, <1>3, <1>4, <1>5, <1>6, <1>7, <1>8, RepoStep DEF Others

\* Without a lost report, a push that reaches origin is known to, or ends the
\* command.
LEMMA PushKnown ==
    "lost-report" \notin Faults /\ Structure /\ Placed /\ (pushed <=> PastPush) /\ Next /\ Pushes =>
        pushed \/ pushed' \/ pc' \notin Walking \/ UNCHANGED origin
<1> SUFFICES ASSUME "lost-report" \notin Faults, Structure, Placed, pushed <=> PastPush, Next, Pushes,
                    ~UNCHANGED origin
             PROVE  pushed \/ pushed' \/ pc' \notin Walking
  OBVIOUS
<1>1. CASE pc = "walk"  BY <1>1 DEF PastPush
<1>2. CASE pc = "push" /\ Push
  <2>1. \/ pushed' = TRUE
        \/ Stop(CandidatePushed, "timeout", TRUE)
        \/ UNCHANGED origin
    BY <1>2, Zenon DEF Push, Fault, OriginUnmoved, repoVars
  <2>2. Stop(CandidatePushed, "timeout", TRUE) => Stopped  BY DEF Stop, Unreached
  <2>3. Stopped => pc' \notin Walking  BY DEF Stopped, Walking
  <2> QED  BY <2>1, <2>2, <2>3
<1>3. CASE pc = "push" /\ ~Push
  <2>1. log \in Seq(CommitRecord)  BY DEF Structure, TypeOK, Repository
  <2>2. ASSUME NEW k, CommitOnOrigin(k) PROVE FALSE
    BY <2>1, <2>2 DEF CommitOnOrigin, Pushes, Extend
  <2> QED  BY <1>3, <2>2, OriginStep DEF PushBranch, At
<1> QED  BY <1>1, <1>2, <1>3 DEF Pushes

\* What a step adds to origin's history.
LEMMA OriginGains ==
    ASSUME Structure, Structure', Accounted, Accounted', Next
    PROVE  \/ Anc(origin)' = Anc(origin) /\ UNCHANGED origin
           \/ Pushes /\ ~UNCHANGED origin
           \/ /\ Others /\ OthersPush /\ Anc(origin)' = Anc(origin) \cup {origin'}
              /\ origin' \notin Commits /\ Bumps(origin)' = Bumps(origin)
<1>g. /\ LogOK /\ LogGrows /\ LogClosed /\ Len(log) \in Nat /\ Len(log') \in Nat /\ origin \in Commits
  BY Footing
<1>c. {"work", "aside"} \subseteq Kinds /\ 0 \in 0..MaxVersion /\ NoCommit \in Nat
  BY ReleaseAssumption DEF Kinds, NoCommit
<1>1. CASE UNCHANGED origin
  <2>1. PICK o : o = origin  OBVIOUS
  <2>2. Anc(o)' = Anc(o)  BY <1>g, <2>1, BumpsStay, CommitStays
  <2> QED  BY <1>1, <2>1, <2>2
<1>2. CASE Others /\ OthersPush
  <2>1. PICK o, b : o = origin /\ b = Next1  OBVIOUS
  <2>2. PICK k \in {"work", "aside"} : log' = Extend({o}, k, 0, NoCommit)
    BY <1>2, <2>1 DEF OthersPush
  <2>3. AddsOn(o, k, 0, NoCommit, b)  BY <1>c, <1>g, <2>1, <2>2, CommittingOn
  <2>4. b = origin' /\ b \notin Commits /\ Anc(b)' = Anc(o) \cup {b}
    BY <1>2, <2>1, <2>3 DEF OthersPush, AddsOn
  <2>5. \A d \in Anc(o) : log'[d] = log[d]  BY <2>3 DEF AddsOn
  <2>6. Bumps(b)' = Bumps(o)  BY <2>3, <2>4, <2>5 DEF Bumps, AddsOn
  <2> QED  BY <1>2, <2>1, <2>4, <2>6
<1>3. UNCHANGED repoVars \/ Advances \/ GivesBack \/ OwnCommit \/ CommitAbandoned \/ OthersCommit
      \/ OthersPull
      => UNCHANGED origin
  BY DEF repoVars, Advances, GivesBack, OwnCommit, CommitsOwn, CommitAbandoned, OthersCommit, OthersPull
<1> QED  BY <1>1, <1>2, <1>3, RepoStep DEF Others

\* Every step leaves origin's bumps on the branch, and a release's own off origin
\* until its push is known to have put it there.
LEMMA OriginFollowsKept ==
    ASSUME "lost-report" \notin Faults, Structure, Structure', Accounted, Accounted', Traceless,
           Next
    PROVE  OriginFollows'
<1>g. /\ LogOK /\ LogGrows /\ LogClosed /\ LogClosed' /\ Len(log) \in Nat /\ Len(log') \in Nat
      /\ branch \in Commits /\ branch' \in Commits' /\ origin \in Commits /\ origin' \in Commits'
      /\ pc \in Walking => head \in Commits /\ tip \in Commits
      /\ pc \in Walking => tip \in Anc(branch) /\ tip \in Anc(head)
      /\ st \in State /\ st.ver \in 0..MaxVersion
  BY Footing
<1>b. Backing /\ OriginFollows /\ Placed /\ Position /\ Bumped  BY DEF Traceless, Accounted
<1>c. {"work", "aside", "entry", "merge", "bump", "never"} \subseteq Kinds /\ 0 \in 0..MaxVersion /\ NoCommit \in Nat
  BY ReleaseAssumption DEF Kinds, NoCommit
<1>p. (pushed' <=> PastPush') /\ (pushed /\ pc' \in Walking => pushed')
  BY <1>b, PushedKept DEF Backing
<1>s. ASSUME NEW x \in Commits PROVE Bumps(x)' = Bumps(x) /\ Anc(x)' = Anc(x)
  BY <1>g, BumpsStay, CommitStays
<1>d. \A x \in Commits : Anc(x) \subseteq Commits  BY <1>g DEF LogOK, Commits
<1>n. Next1 \notin Commits  BY <1>g DEF Next1, Commits
<1>1. Bumps(origin)' \subseteq Bumps(branch)'
  <2>1. PICK c, d, o, e : c = branch /\ d = branch' /\ o = origin /\ e = origin'  OBVIOUS
  <2>2. CASE branch \in Anc(branch)' /\ Bumps(origin)' = Bumps(origin)
    <3>1. Bumps(d)' \subseteq Bumps(d)' /\ \A x \in Anc(d)' : Bumps(x)' \subseteq Bumps(d)'
      BY <1>g, <2>1 DEF LogClosed, Bumps
    <3>2. Bumps(c) \subseteq Bumps(d)'  BY <1>g, <1>s, <2>1, <2>2, <3>1
    <3> QED  BY <1>b, <2>1, <2>2, <3>2 DEF OriginFollows
  <2>3. CASE Pushes
    <3>1. UNCHANGED branch /\ e \in Anc(branch) \cup {branch}
      BY <1>b, <1>g, <2>1, <2>3 DEF Pushes, Bumped, Walking, Places
    <3>2. Bumps(e) \subseteq Bumps(branch) /\ e \in Commits  BY <1>g, <3>1, BumpsStay
    <3> QED  BY <1>g, <1>s, <2>1, <3>1, <3>2
  <2>4. CASE GivesBack
    <3>1. /\ pc \in Walking /\ ~pushed /\ last # NoCommit /\ branch = tip /\ last \in Anc(tip)
          /\ Anc(tip) \subseteq Anc(last) \cup {tip}
      BY <1>b, <2>4, TakenBack DEF Traceless, Accounted
    <3>2. tip \notin Anc(origin) /\ Bumps(origin) \subseteq Bumps(tip)
      BY <1>b, <3>1 DEF OriginFollows
    <3>3. Bumps(origin) \subseteq Bumps(last)  BY <3>1, <3>2 DEF Bumps
    <3>4. d = last /\ d \in Commits /\ e = o
      BY <1>g, <2>1, <2>4, <3>1, BumpsStay DEF GivesBack
    <3> QED  BY <1>g, <1>s, <2>1, <3>3, <3>4
  <2>5. CASE UNCHANGED origin /\ ~GivesBack
    <3>1. Bumps(origin)' = Bumps(origin)  BY <1>g, <1>s, <2>1, <2>5
    <3>2. Discard => UNCHANGED <<log, branch>>
      BY <2>5 DEF Discard, GivesBack, TakesBack, Goto
    <3>3. branch \in Anc(branch) /\ (UNCHANGED branch => branch \in Anc(branch)')
      BY <1>g, <1>s, <2>1 DEF LogOK
    <3>4. branch \in Anc(branch)'  BY <1>b, <3>2, <3>3, BranchGrows DEF Accounted
    <3> QED  BY <2>2, <3>1, <3>4
  <2>6. CASE Others /\ OthersPush /\ Bumps(origin)' = Bumps(origin)
    <3>1. UNCHANGED branch  BY <2>6 DEF OthersPush
    <3>2. branch \in Anc(branch)'  BY <1>g, <1>s, <2>1, <3>1 DEF LogOK
    <3> QED  BY <2>2, <2>6, <3>2
  <2> QED  BY <2>3, <2>4, <2>5, <2>6, OriginGains
<1>2. ASSUME NEW x \in Commits, x \notin Anc(origin),
             UNCHANGED origin \/ (Others /\ OthersPush) \/ (Pushes /\ UNCHANGED origin)
      PROVE  x \notin Anc(origin)'
  <2>1. ~(Pushes /\ ~UNCHANGED origin)
    <3>1. Others /\ OthersPush => log' # log
      <4>1. log \in Seq(CommitRecord)  BY DEF Structure, TypeOK, Repository
      <4> QED  BY <4>1 DEF OthersPush, Extend
    <3> QED  BY <1>2, <3>1 DEF Pushes
  <2> QED  BY <1>2, <2>1, OriginGains
<1>3. ASSUME pc' \in Walking, ~pushed', last' # NoCommit PROVE (tip \notin Anc(origin))'
  <2>1. PICK t : t = tip'  OBVIOUS
  <2>2. ~pushed  BY <1>3, <1>p
  <2>3. UNCHANGED origin \/ (Others /\ OthersPush)
    BY <1>3, <1>b, <2>2, PushKnown, OriginGains DEF Backing
  <2>4. CASE pc \in Walking /\ UNCHANGED <<tip, last>>
    <3>1. t \in Commits /\ t \notin Anc(origin)
      BY <1>3, <1>b, <1>g, <2>1, <2>2, <2>4 DEF OriginFollows
    <3> QED  BY <1>2, <2>1, <2>3, <3>1
  <2>5. CASE Advances
    <3>1. t \in Commits /\ t \notin Anc(origin)
      BY <1>b, <1>g, <2>1, <2>5 DEF OriginFollows, Advances, Walking, Places
    <3> QED  BY <1>2, <2>1, <2>3, <3>1
  <2>6. CASE GivesBack  BY <1>3, <2>6 DEF GivesBack
  <2>7. CASE OwnCommit
    <3>1. pc \in Walking /\ UNCHANGED <<tip, last>>
      BY <2>7 DEF OwnCommit, CommitsOwn, Bump, FinalizeChangelog, Archive, At, Walking, Places
    <3> QED  BY <2>4, <3>1
  <2>8. CASE pc = "idle" /\ UNCHANGED last  BY <1>3, <1>b, <2>8 DEF Position, Walking
  <2> QED  BY <1>3, <2>4, <2>5, <2>6, <2>7, <2>8, HeadStep
<1>4. ASSUME pc' = "advance", head' # tip' PROVE (head \notin Anc(origin))'
  <2>1. PICK h : h = head'  OBVIOUS
  <2>2. CASE OwnCommit
    <3>1. h \notin Commits /\ UNCHANGED origin
      BY <1>n, <2>1, <2>2 DEF OwnCommit, CommitsOwn
    <3>2. Anc(origin)' \subseteq Commits  BY <1>d, <1>g, <1>s, <3>1
    <3> QED  BY <2>1, <3>1, <3>2
  <2>3. CASE pc \in Walking /\ UNCHANGED <<tip, head, last>>
    <3>1. pc = "advance" /\ (UNCHANGED origin \/ (Others /\ OthersPush))
      <4>1. pc \notin {"advance", "discard", "clear"} => head = tip
        BY <1>b, <2>3 DEF Position
      <4>2. pc \notin {"discard", "clear"}
        BY <1>4, <1>b, Arrives DEF procVars, Bump, FinalizeChangelog, Archive, At
      <4>3. pc = "advance"  BY <1>4, <2>3, <4>1, <4>2
      <4> QED  BY <4>3, OriginGains DEF Pushes
    <3>2. h \in Commits /\ h \notin Anc(origin)
      BY <1>4, <1>b, <1>g, <2>1, <2>3, <3>1 DEF OriginFollows
    <3> QED  BY <1>2, <2>1, <3>1, <3>2
  <2>4. pc' \in Walking  BY <1>4 DEF Walking, Places
  <2> QED  BY <1>4, <2>2, <2>3, <2>4, HeadStep DEF Advances, GivesBack
<1>5. ASSUME pc' \in {"entered", "prepared"}, mode' # "resume"
      PROVE  Bumps(branch)' \subseteq Bumps(head)'
  <2>1. CASE EnterFresh \/ EnterResume  BY <2>1 DEF EnterFresh, EnterResume, Enter, repoVars
  <2>2. CASE Validate \/ UNCHANGED <<procVars, st>>
    <3>1. UNCHANGED <<mode, head>> /\ pc \in {"entered", "prepared"} /\ pc \in Walking
      BY <1>5, <2>2 DEF Validate, Goto, Stopped, procVars, Walking, Places
    <3>2. Bumps(branch) \subseteq Bumps(head) /\ head \in Commits
      BY <1>5, <1>b, <1>g, <3>1 DEF OriginFollows
    <3>3. ~Advances  BY <3>1 DEF Advances
    <3>4. Bumps(branch)' \subseteq Bumps(branch)
      BY <1>b, <3>3, BumpsFlow DEF OriginFollows, Traceless
    <3>5. PICK h : h = head  OBVIOUS
    <3>6. Bumps(h)' = Bumps(h)  BY <1>s, <3>2, <3>5
    <3> QED  BY <3>1, <3>2, <3>4, <3>5, <3>6
  <2> QED  BY <1>5, <2>1, <2>2, Turns
<1> QED  BY <1>1, <1>3, <1>4, <1>5 DEF OriginFollows

\* A version that is accounted for stays so, but for the one a first run that is
\* discarded claimed.
LEMMA OwnedStays ==
    Structure /\ Structure' /\ Accounted /\ Accounted' /\ Traceless /\ Next =>
        \A v \in Version : Owned(v) => Owned(v)' \/ (Clear /\ mode # "resume" /\ v = st.ver)
<1> SUFFICES ASSUME Structure, Structure', Accounted, Accounted', Traceless, Next,
                    NEW v \in Version, Owned(v)
             PROVE  Owned(v)' \/ (Clear /\ mode # "resume" /\ v = st.ver)
  OBVIOUS
<1>f. Fated(v) => Fated(v)'  BY FateKept DEF Traceless, Fated
<1>v. v # 0  BY ReleaseAssumption DEF Version
<1>e. Endings /\ st \in State /\ branch \in Commits
  BY DEF Traceless, Structure, TypeOK, Memory, RefsOK
<1>1. CASE Fated(v)  BY <1>1, <1>f DEF Owned
<1> SUFFICES ASSUME v = st.ver PROVE Owned(v)' \/ (Clear /\ mode # "resume" /\ v = st.ver)
  BY <1>1 DEF Owned
<1>2. CASE st'.ver = st.ver  BY <1>2 DEF Owned
<1>3. CASE Validate
  <2>1. pc = "entered" /\ mode = "fresh"  BY <1>3 DEF Validate
  <2> QED  BY <1>e, <1>f, <1>v, <2>1 DEF Endings, InProgress, Owned
<1>4. CASE Begin  BY <1>4, <1>e, <1>v DEF Begin, Endings
<1>5. CASE Clear
  <2>1. pc = "clear" /\ st' = IF mode = "resume" THEN entry ELSE NoState
    BY <1>5 DEF Clear, StateBefore
  <2>2. mode = "resume" => st'.ver = st.ver  BY <1>e, <2>1 DEF Endings, Walking, Places
  <2> QED  BY <1>2, <1>5, <2>2
<1>6. CASE DropState
  BY <1>6, <1>e, <1>f, <1>v DEF DropState, Endings, InProgress, Owned, Fated
<1>7. CASE Epilogue /\ st.failed = {} /\ MissingSteps(st) = {}
  <2>1. ReleaseArchived \in st.done  BY <1>7, StepsAre DEF MissingSteps
  <2>2. pc = "epilogue" /\ Standing = tip /\ tip \in Anc(branch) /\ LogClosed
    BY <1>7 DEF Epilogue, Standing, Walking, Places, Accounted, Position
  <2>3. Has(tip, "archive", v)
    BY <1>v, <2>1, <2>2, StepsAre DEF Accounted, Recorded, Told, Effect
  <2>4. Has(branch, "archive", v)  BY <1>e, <2>2, <2>3, HasBelow
  <2> QED  BY <1>f, <2>4 DEF Fated, Owned
<1> QED  BY <1>2, <1>3, <1>4, <1>5, <1>6, <1>7, Turns

\* Every step accounts for the bumps it leaves.
LEMMA BumpsOwnedKept ==
    ASSUME Structure, Structure', Accounted, Accounted', Traceless, Next
    PROVE  BumpsOwned'
<1>g. /\ LogOK /\ LogGrows /\ LogClosed /\ LogClosed' /\ Len(log) \in Nat /\ Len(log') \in Nat
      /\ branch \in Commits /\ branch' \in Commits' /\ origin \in Commits /\ origin' \in Commits'
      /\ pc \in Walking => head \in Commits /\ tip \in Commits
      /\ pc \in Walking => tip \in Anc(branch) /\ tip \in Anc(head)
      /\ st \in State /\ st.ver \in 0..MaxVersion
  BY Footing
<1>b. Backing /\ OriginFollows /\ BumpsOwned /\ Endings /\ Placed /\ Position
  BY DEF Traceless, Accounted
<1>s. ASSUME NEW x \in Commits PROVE Bumps(x)' = Bumps(x) /\ \A k, v : Has(x, k, v)' = Has(x, k, v)
  BY <1>g, BumpsStay
<1>f. \/ \A v : Has(branch, "bump", v)' => Has(branch, "bump", v)
      \/ Advances /\ \A v : Has(branch, "bump", v)' => Has(head, "bump", v)
  <2>1. PICK c, d, h : c = branch /\ d = branch' /\ h = head  OBVIOUS
  <2>2. CASE Bumps(d)' \subseteq Bumps(c)
    <3>1. Bumps(d)' \subseteq Bumps(c)'  BY <1>g, <1>s, <2>1, <2>2
    <3>2. \A v : Has(d, "bump", v)' => Has(c, "bump", v)'  BY <3>1 DEF Bumps, Has
    <3> QED  BY <1>g, <1>s, <2>1, <3>2
  <2>3. CASE Advances /\ Bumps(d)' = Bumps(h) /\ h \in Commits
    <3>1. Bumps(d)' \subseteq Bumps(h)'  BY <1>s, <2>3
    <3>2. \A v : Has(d, "bump", v)' => Has(h, "bump", v)'  BY <3>1 DEF Bumps, Has
    <3> QED  BY <1>s, <2>1, <2>3, <3>2
  <2> QED  BY <1>b, <2>1, <2>2, <2>3, BumpsFlow DEF OriginFollows
<1>1. ASSUME NEW v \in Version, Has(branch, "bump", v)' PROVE Owned(v)'
  <2>1. Owned(v)  BY <1>1, <1>b, <1>f DEF BumpsOwned, Advances, Walking, Places
  <2>2. CASE Clear /\ mode # "resume" /\ v = st.ver
    <3>1. pc = "clear" /\ ~Advances  BY <2>2 DEF Clear, Advances
    <3>2. last = NoCommit /\ ~pushed /\ pc \in Walking \ {"entered", "prepared"}
      BY <1>b, <3>1 DEF Backing, PastPush, Walking, Places
    <3>3. ~Has(branch, "bump", v)  BY <1>b, <2>2, <3>2 DEF BumpsOwned, Base
    <3> QED  BY <1>1, <1>f, <3>1, <3>3
  <2> QED  BY <2>1, <2>2, OwnedStays
<1>2. ASSUME pc' \in Walking, NEW v \in Version, Has(head, "bump", v)' PROVE Owned(v)'
  <2>1. ~Clear  BY <1>2 DEF Clear, Stopped, Walking
  <2>2. Owned(v) => Owned(v)'  BY <2>1, OwnedStays
  <2>3. CASE pc \in Walking /\ UNCHANGED head
    <3>1. PICK h : h = head  OBVIOUS
    <3>2. Has(head, "bump", v)  BY <1>2, <1>g, <1>s, <2>3, <3>1
    <3> QED  BY <1>b, <2>2, <2>3, <3>2 DEF BumpsOwned
  <2>4. CASE OwnCommit
    <3>1. PICK h, b : h = head /\ b = Next1  OBVIOUS
    <3>2. h \in Commits /\ head' = b /\ pc \in Walking
      BY <1>g, <2>4, <3>1 DEF OwnCommit, CommitsOwn, Bump, FinalizeChangelog, Archive, At, Walking, Places
    <3>3. PICK k \in {"bump", "finalize", "archive"}, c \in Nat : log' = Extend({h}, k, st.ver, c)
      <4>1. NoCommit \in Nat /\ cand \in Nat  BY DEF NoCommit, Structure, TypeOK, Memory
      <4> QED  BY <2>4, <3>1, <4>1 DEF OwnCommit, CommitsOwn
    <3>4. AddsOn(h, k, st.ver, c, b)
      <4>1. k \in Kinds  BY DEF Kinds
      <4> QED  BY <1>g, <3>1, <3>2, <3>3, <4>1, CommittingOn
    <3>5. v = st.ver \/ Has(h, "bump", v)  BY <1>2, <3>2, <3>4 DEF AddsOn
    <3>6. Owned(v)  BY <1>b, <3>1, <3>2, <3>5 DEF BumpsOwned, Owned
    <3> QED  BY <2>2, <3>6
  <2>5. CASE pc = "idle" /\ head' = branch /\ UNCHANGED repoVars
    <3>1. PICK c : c = branch /\ c = head'  BY <2>5
    <3>2. Has(branch, "bump", v)  BY <1>2, <1>g, <1>s, <3>1
    <3> QED  BY <1>b, <2>2, <3>2 DEF BumpsOwned
  <2> QED  BY <1>2, <2>3, <2>4, <2>5, HeadStep DEF Advances, GivesBack, Walking, Places
<1>3. ASSUME pc' \in Walking \ {"entered", "prepared"}, mode' # "resume", ~pushed'
      PROVE  ~Has(Base, "bump", st.ver)'
  <2>1. PICK l, d, w : l = last' /\ d = branch' /\ w = st'.ver  OBVIOUS
  <2>p. ~pushed
    <3>1. pushed /\ pc' \in Walking => pushed'  BY <1>b, PushedKept DEF Backing
    <3> QED  BY <1>3, <3>1
  <2>2. pc \in Walking /\ UNCHANGED mode
    <3>1. pc \in Walking  BY <1>3, MemoryStep DEF EnterFresh, EnterResume, Enter
    <3> QED  BY <1>3, <3>1, MemoryStep
  <2>3. CASE pc \in {"entered", "prepared"}
    <3>1. Begin
      BY <1>3, <2>2, <2>3, Turns DEF Validate, Goto, Stopped, Adopt, procVars, Walking
    <3>2. /\ pc = "prepared" /\ pc' = "guard" /\ UNCHANGED repoVars
          /\ st' = [NoState EXCEPT !.ver = VersionOf(head) + 1, !.pin = head]
      BY <1>3, <3>1 DEF Begin, Goto, Stopped, Walking
    <3>3. last' = NoCommit
      <4>1. last = NoCommit  BY <1>b, <3>2 DEF Backing
      <4>2. UNCHANGED last  BY <1>3, <3>1 DEF Begin, Goto, Stopped, Walking
      <4> QED  BY <4>1, <4>2
    <3>4. st'.ver = VersionOf(head) + 1 /\ st'.ver \in Version
      BY <3>2 DEF NoState, Structure, RefsOK
    <3>5. ~Has(head, "bump", st'.ver)
      <4>1. st'.ver \in 0..MaxVersion /\ VersionOf(head) \in Int /\ st'.ver > VersionOf(head)
        BY <3>4, LastBump, ReleaseAssumption DEF Version
      <4> QED  BY <4>1, NothingAbove
    <3>6. Bumps(branch) \subseteq Bumps(head)  BY <1>3, <1>b, <2>2, <3>2 DEF OriginFollows
    <3>7. ~Has(branch, "bump", st'.ver)  BY <3>5, <3>6, BumpsHave
    <3>8. ~Has(d, "bump", w)'  BY <1>g, <1>s, <2>1, <3>2, <3>7 DEF repoVars
    <3> QED  BY <2>1, <3>3, <3>8 DEF Base
  <2>4. CASE pc \notin {"entered", "prepared"}
    <3>1. ~Has(Base, "bump", st.ver)  BY <1>3, <1>b, <2>p, <2>2, <2>4 DEF BumpsOwned
    <3>2. st'.ver = st.ver
      BY <1>3, <2>2, <2>4, Turns DEF Validate, Begin, Clear, DropState, Epilogue, Stopped, Walking
    <3>3. CASE Advances
      <4>1. step = Committed /\ last = NoCommit
        BY <1>b, <2>p, <3>3 DEF Advances, Backing, PastPush
      <4>2. l = branch /\ last' = l /\ l # NoCommit
        BY <1>g, <2>1, <3>3 DEF Advances, Commits, NoCommit
      <4>3. ~Has(l, "bump", st.ver)  BY <3>1, <4>1, <4>2 DEF Base
      <4>4. ~Has(l, "bump", st.ver)'  BY <1>g, <1>s, <4>2, <4>3, <3>3 DEF Advances
      <4> QED  BY <3>2, <4>2, <4>4 DEF Base
    <3>4. CASE GivesBack
      <4>1. d = last /\ last \in Anc(branch) /\ last # NoCommit /\ last' = NoCommit
        BY <1>b, <2>1, <3>4, TakenBack DEF GivesBack, Traceless, Accounted
      <4>2. d \in Commits /\ ~Has(d, "bump", st.ver)
        BY <1>g, <3>1, <4>1, BumpsStay DEF Base
      <4>3. ~Has(d, "bump", w)'  BY <1>s, <2>1, <3>2, <4>2
      <4> QED  BY <2>1, <4>1, <4>3 DEF Base
    <3>5. CASE UNCHANGED last /\ ~Advances
      <4>1. CASE last = NoCommit
        <5>1. ~Has(branch, "bump", st.ver)  BY <3>1, <4>1 DEF Base
        <5>2. ~Has(branch, "bump", st.ver)'
          <6>1. PICK v : v = st.ver /\ v = st'.ver  BY <3>2
          <6>2. ~Has(branch, "bump", v)'  BY <1>f, <3>5, <5>1, <6>1
          <6> QED  BY <6>1, <6>2
        <5> QED  BY <3>2, <3>5, <4>1, <5>2 DEF Base
      <4>2. CASE last # NoCommit
        <5>1. l \in Commits /\ ~Has(l, "bump", st.ver)
          BY <2>1, <3>1, <3>5, <4>2 DEF Base, Structure, RefsOK
        <5>2. ~Has(l, "bump", w)'  BY <1>s, <2>1, <3>2, <5>1
        <5> QED  BY <2>1, <3>5, <4>2, <5>2 DEF Base
      <4> QED  BY <4>1, <4>2
    <3>6. OwnCommit => UNCHANGED last /\ ~Advances  BY DEF OwnCommit, CommitsOwn, Advances
    <3>7. ~Advances /\ ~GivesBack => UNCHANGED last
      BY <1>3, <2>2, <3>6, HeadStep, Zenon DEF Walking
    <3> QED  BY <3>3, <3>4, <3>5, <3>7
  <2> QED  BY <2>3, <2>4
<1> QED  BY <1>1, <1>2, <1>3 DEF BumpsOwned

\* Every step that ends a release or starts an abandon leaves the version's fate
\* recorded or about to be.
LEMMA EndingsKept ==
    ASSUME Structure, Structure', Accounted, Accounted', Traceless, Next
    PROVE  Endings'
<1>b. Endings /\ Recorded /\ Backing  BY DEF Traceless, Accounted
<1>f. \A k \in {"archive", "never"} : \A v : Has(branch, k, v) => Has(branch, k, v)'
  BY FateKept DEF Traceless
<1>t. st \in State /\ entry \in State /\ loose \in 0..MaxVersion /\ branch \in Commits
  BY DEF Structure, TypeOK, Memory, Outside, RefsOK
<1>1. ASSUME pc' = "prepared" PROVE st'.ver = 0 /\ mode' = "fresh"
  <2>1. Validate => st' = NoState /\ mode' = "fresh"  BY <1>1 DEF Validate, Goto, Stopped
  <2> QED
    BY <1>1, <1>b, <2>1, Turns DEF EnterFresh, EnterResume, Enter, Endings, procVars, NoState
<1>2. ASSUME pc' = "entered", mode' # "resume", st'.ver # 0 PROVE Fated(st.ver)'
  <2>1. Fated(st.ver) /\ UNCHANGED st
    <3>1. CASE EnterFresh
      <4>1. pc = "idle" /\ UNCHANGED <<repoVars, st>> /\ IsComplete(st)
        BY <1>2, <3>1 DEF EnterFresh, Enter, InProgress
      <4>2. ReleaseArchived \in st.done
        BY <4>1, StepsAre DEF IsComplete, MissingSteps, FatalSteps
      <4>3. Has(branch, "archive", st.ver)
        BY <1>2, <1>b, <4>1, <4>2, StepsAre DEF Recorded, Told, Effect, Standing, Walking
      <4> QED  BY <4>1, <4>3 DEF Fated
    <3>2. CASE UNCHANGED <<procVars, st>>
      BY <1>2, <1>b, <3>2 DEF procVars, Endings, InProgress
    <3> QED  BY <1>2, <3>1, <3>2, Turns DEF EnterResume, Enter, Validate, Goto, Stopped
  <2>2. PICK v : v = st.ver /\ v = st'.ver  BY <2>1
  <2>3. Fated(v)'  BY <1>f, <2>1, <2>2 DEF Fated
  <2> QED  BY <2>2, <2>3 DEF Fated
<1>3. ASSUME pc' \in Walking \ {"entered"}, mode' = "resume" PROVE entry'.ver = st'.ver
  <2>1. pc \in Walking  BY <1>3, MemoryStep DEF EnterFresh, EnterResume, Enter
  <2>2. UNCHANGED mode /\ (UNCHANGED entry \/ Adopt)  BY <1>3, <2>1, MemoryStep
  <2>3. CASE Adopt
    <3>1. entry' = st  BY <1>3, <2>3 DEF Adopt, Stopped, Walking
    <3>2. st'.ver = st.ver
      BY <1>3, <2>3, Turns DEF Adopt, Validate, Begin, Clear, DropState, Epilogue
    <3> QED  BY <3>1, <3>2
  <2>4. CASE ~Adopt
    <3>1. pc # "entered"  BY <1>3, <2>1, <2>2, <2>4, Turns DEF Validate, Begin, procVars
    <3>2. entry.ver = st.ver  BY <1>3, <1>b, <2>1, <2>2, <3>1 DEF Endings
    <3>3. ~Validate /\ ~Clear /\ ~DropState /\ ~Epilogue
      BY <1>3, <2>2 DEF Validate, Clear, DropState, Epilogue, Stopped, Walking
    <3>4. ~Begin  BY <1>3, <1>b, <2>2 DEF Begin, Endings
    <3> QED  BY <2>2, <2>4, <3>2, <3>3, <3>4, Turns
  <2> QED  BY <2>3, <2>4
<1>4. ASSUME pc' = "archived", st'.ver # 0 PROVE loose' = st'.ver
  <2>1. Abandon \/ UNCHANGED <<procVars, st, loose>>
    BY <1>4, Turns DEF CommitAbandoned, Goto
  <2>2. CASE Abandon  BY <1>4, <2>2 DEF Abandon, Claimed, InProgress
  <2>3. CASE UNCHANGED <<procVars, st, loose>>
    BY <1>4, <1>b, <2>3 DEF procVars, Endings, InProgress
  <2> QED  BY <2>1, <2>2, <2>3
<1>5. ASSUME pc' = "drop", st'.ver # 0 PROVE Has(branch, "never", st.ver)'
  <2>1. CASE Abandon
    <3>1. st.ver # 0 /\ loose # st.ver /\ NeverHere(st.ver) /\ UNCHANGED <<st, repoVars>>
      BY <1>5, <2>1 DEF Abandon, Claimed, InProgress
    <3>2. Has(branch, "never", st.ver)  BY <3>1 DEF NeverHere
    <3> QED  BY <3>1, <3>2 DEF repoVars, Has, Anc
  <2>2. CASE CommitAbandoned
    <3>1. /\ pc = "archived" /\ UNCHANGED st /\ branch' = Next1
          /\ log' = Extend({branch}, "never", loose, NoCommit)
      BY <2>2 DEF CommitAbandoned
    <3>2. loose = st.ver  BY <1>5, <1>b, <3>1 DEF Endings, InProgress
    <3>3. PICK b, c, l : b = Next1 /\ c = branch /\ l = loose  OBVIOUS
    <3>4. AddsOn(c, "never", l, NoCommit, b)
      <4>1. "never" \in Kinds /\ NoCommit \in Nat /\ c \in Commits /\ log' = Extend({c}, "never", l, NoCommit)
        BY <1>t, <3>1, <3>3 DEF Kinds, NoCommit
      <4> QED  BY <1>t, <3>3, <4>1, CommittingOn
    <3>5. Has(b, "never", l)'  BY <3>4 DEF AddsOn
    <3>6. branch' = b /\ st'.ver = l  BY <3>1, <3>2, <3>3
    <3> QED  BY <3>5, <3>6
  <2>3. CASE UNCHANGED <<procVars, st, loose>>
    <3>1. Has(branch, "never", st.ver)
      BY <1>5, <1>b, <2>3 DEF procVars, Endings, InProgress
    <3>2. PICK v : v = st.ver /\ v = st'.ver  BY <2>3
    <3>3. Has(branch, "never", v)'  BY <1>f, <3>1, <3>2
    <3> QED  BY <3>2, <3>3
  <2> QED  BY <1>5, <2>1, <2>2, <2>3, Turns
<1> QED  BY <1>1, <1>2, <1>3, <1>4, <1>5 DEF Endings, InProgress

LEMMA InitTraceless ==
    ASSUME Init
    PROVE  Traceless
<1>1. /\ Anc(1) = {1} /\ log[1].kind = "base" /\ branch = 1 /\ origin = 1 /\ pc = "idle"
      /\ pushed = FALSE
  BY DEF Init, Anc
<1>2. \A v : \A k \in {"bump", "archive", "never"} : ~Has(1, k, v)  BY <1>1 DEF Has
<1>3. Backing  BY <1>1 DEF Backing, PastPush, Walking
<1>4. OriginFollows /\ Endings  BY <1>1 DEF OriginFollows, Endings, Walking
<1>5. BumpsOwned  BY <1>1, <1>2 DEF BumpsOwned, Walking
<1> QED  BY <1>3, <1>4, <1>5 DEF Traceless

LEMMA TracelessStutters ==
    ASSUME Traceless, UNCHANGED vars
    PROVE  Traceless'
<1>1. /\ UNCHANGED <<log, branch, origin, st, loose>>
      /\ UNCHANGED <<pc, mode, step, tip, head, last, pushed, cand, entry>>
  BY DEF vars, procVars
<1>2. /\ \A c : Anc(c)' = Anc(c) /\ Bumps(c)' = Bumps(c)
      /\ \A c, k, v : Has(c, k, v)' = Has(c, k, v)
  BY <1>1 DEF Anc, Bumps, Has
<1>3. Backing'  BY <1>1, <1>2 DEF Traceless, Backing, PastPush
<1>4. OriginFollows'  BY <1>1, <1>2 DEF Traceless, OriginFollows
<1>5. BumpsOwned'  BY <1>1, <1>2 DEF Traceless, BumpsOwned, Owned, Fated, Base
<1>6. Endings'  BY <1>1, <1>2 DEF Traceless, Endings, InProgress, Fated
<1> QED  BY <1>3, <1>4, <1>5, <1>6 DEF Traceless

\* A release that ends, however it was interrupted, failed, resumed, discarded or
\* abandoned, leaves no bump on origin that the record does not account for -
\* unless a push's report is lost or the process dies between the two halves of a
\* discard.
THEOREM DiscardsLeaveNothing ==
    ASSUME "crash-in-discard" \notin Faults, "lost-report" \notin Faults
    PROVE  Spec => []DiscardLeavesNothing
<1>1. Init => Accounted /\ Traceless  BY InitAccounted, InitTraceless
<1>2. Structure /\ Structure' /\ Accounted /\ [Next]_vars => Accounted'  BY AccountedKept
<1>3. Structure /\ Structure' /\ Accounted /\ Accounted' /\ Traceless /\ [Next]_vars => Traceless'
  <2> SUFFICES ASSUME Structure, Structure', Accounted, Accounted', Traceless, [Next]_vars
               PROVE  Traceless'
    OBVIOUS
  <2>1. CASE Next
    <3>1. Backing'  BY <2>1, BackingKept DEF Traceless
    <3> QED  BY <2>1, <3>1, OriginFollowsKept, BumpsOwnedKept, EndingsKept DEF Traceless
  <2> QED  BY <2>1, TracelessStutters
<1>4. Structure /\ Accounted /\ Traceless => DiscardLeavesNothing
  <2> SUFFICES ASSUME Structure, Accounted, Traceless, pc = "idle", ~InProgress,
                      NEW v \in Version, Has(origin, "bump", v)
               PROVE  ArchivedAt(branch, v) # NoCommit \/ Has(branch, "never", v)
    BY DEF DiscardLeavesNothing
  <2>1. Has(branch, "bump", v)  BY BumpsHave DEF Traceless, OriginFollows
  <2>2. Fated(v)
    BY <2>1, ReleaseAssumption DEF Traceless, BumpsOwned, Owned, InProgress, Version
  <2>3. Has(branch, "archive", v) => ArchivedAt(branch, v) # NoCommit
    BY ArchivedNames DEF Structure, RefsOK, Accounted
  <2> QED  BY <2>2, <2>3 DEF Fated
<1> QED  BY <1>1, <1>2, <1>3, <1>4, StructureHolds, PTL DEF Spec

-----------------------------------------------------------------------------
(* A wait for CI can end in a pass. *)

\* The commits CI ran on stay so.
LEMMA RunsStay ==
    ASSUME Next
    PROVE  ran \subseteq ran'
<1>1. CASE EnterFresh \/ EnterResume \/ Abandon \/ StepError \/ Crash
  BY <1>1 DEF EnterFresh, EnterResume, Enter, Abandon, StepError, Crash, ciVars
<1>2. CASE \/ Validate \/ Begin \/ Adopt \/ EntryGuard \/ Bump \/ Advance \/ Record
           \/ Discard \/ Clear \/ Candidate \/ Judge
  BY <1>2 DEF Validate, Begin, Adopt, EntryGuard, Bump, Advance, Record, Discard,
     Clear, Candidate, Judge, ciVars
<1>3. CASE Push  BY <1>3, Zenon DEF Push, OriginTakes, OriginUnmoved, ciVars
<1>4. CASE PushBranch  BY <1>4, Zenon DEF PushBranch, OriginTakes, OriginUnmoved, ciVars
<1>5. CASE Dispatch \/ Verify \/ Gate \/ Skip \/ FinalizeChangelog \/ Archive \/ AllTagged
  BY <1>5 DEF Dispatch, Verify, Gate, Skip, FinalizeChangelog, Archive, AllTagged, ciVars
<1>6. CASE \/ AllTagsPushed \/ PostReleaseHooks \/ Epilogue \/ CommitAbandoned \/ DropState
           \/ GitHubRelease \/ PublishPipelines \/ Deploy
  BY <1>6 DEF AllTagsPushed, PostReleaseHooks, Epilogue, CommitAbandoned, DropState,
     GitHubRelease, PublishPipelines, Deploy, ciVars
<1>7. ASSUME NEW t \in Tags, Tag(t) \/ PushTag(t) PROVE ran \subseteq ran'
  BY <1>7 DEF Tag, PushTag, ciVars
<1>8. CASE Env
  BY <1>8 DEF Env, CommitOnBranch, CommitOnOrigin, ChangelogAdd, Pull, StrayTag, EnvOnly, ciVars
<1> QED  BY <1>1, <1>2, <1>3, <1>4, <1>5, <1>6, <1>7, <1>8 DEF Next, Operator, Walk

\* The ways origin moves, and what they leave on it.
LEMMA OriginMoves ==
    ASSUME Structure, Structure', Accounted, Accounted', Next
    PROVE  \/ /\ UNCHANGED origin /\ Anc(origin)' = Anc(origin)
              /\ OriginRan => OriginRan'
           \/ /\ Others /\ OthersPush /\ OriginRan' /\ Bumps(origin)' = Bumps(origin)
              /\ origin' \notin Commits
           \/ Push /\ OriginTakes(cand)
           \/ PushBranch /\ OriginTakes(branch)
<1>g. /\ LogOK /\ LogGrows /\ LogClosed /\ Len(log) \in Nat /\ Len(log') \in Nat /\ origin \in Commits
  BY Footing
<1>l. log \in Seq(CommitRecord)  BY DEF Structure, TypeOK, Repository
<1>1. CASE UNCHANGED origin
  <2>1. PICK o : o = origin /\ o = origin'  BY <1>1
  <2>2. Anc(o)' = Anc(o) /\ log'[o] = log[o]  BY <1>g, <2>1, CommitStays
  <2> QED  BY <1>1, <2>1, <2>2, RunsStay DEF OriginRan
<1>2. ASSUME NEW k \in ForeignKinds, CommitOnOrigin(k), ~UNCHANGED origin
      PROVE  /\ Others /\ OthersPush /\ OriginRan' /\ Bumps(origin)' = Bumps(origin)
             /\ origin' \notin Commits
  <2>1. log' # log  BY <1>2, <1>l DEF CommitOnOrigin, Extend
  <2>2. ~Pushes  BY <2>1 DEF Pushes
  <2>3. Others /\ OthersPush /\ Bumps(origin)' = Bumps(origin) /\ origin' \notin Commits
    BY <1>2, <2>2, OriginGains
  <2>4. k \in Kinds /\ 0 \in 0..MaxVersion /\ NoCommit \in Nat
    BY ReleaseAssumption DEF Kinds, NoCommit
  <2>5. PICK o, b : o = origin /\ b = Next1  OBVIOUS
  <2>6. AddsOn(o, k, 0, NoCommit, b)
    BY <1>2, <1>g, <2>4, <2>5, CommittingOn DEF CommitOnOrigin
  <2>7. log'[origin'].kind = k  BY <1>2, <2>5, <2>6 DEF CommitOnOrigin, AddsOn
  <2>8. k = "aside" \/ origin' \in ran'  BY <1>2 DEF CommitOnOrigin
  <2> QED  BY <2>3, <2>7, <2>8 DEF OriginRan
<1>3. CASE Push
  <2>1. OriginTakes(cand) \/ UNCHANGED origin
    BY <1>3, Zenon DEF Push, OriginUnmoved, repoVars
  <2> QED  BY <1>1, <1>3, <2>1
<1>4. CASE PushBranch
  <2>1. OriginTakes(branch) \/ UNCHANGED origin
    BY <1>4, Zenon DEF PushBranch, OriginUnmoved, repoVars
  <2> QED  BY <1>1, <1>4, <2>1
<1> QED  BY <1>1, <1>2, <1>3, <1>4, OriginStep

\* Where a release stands after a step, but in the middle of a discard.
LEMMA StandingMoves ==
    Structure /\ Next /\ pc' # "clear" =>
        \/ Standing' = Standing
        \/ Advances /\ Standing' = head
        \/ pc \in Walking /\ pc' \notin Walking /\ UNCHANGED <<log, branch>> /\ Standing' = branch
        \/ /\ pc \notin Walking /\ Standing' = branch'
           /\ CommitAbandoned \/ (Others /\ (OthersCommit \/ OthersPull))
<1> SUFFICES ASSUME Structure, Next, pc' # "clear"
             PROVE  \/ Standing' = Standing
                    \/ Advances /\ Standing' = head
                    \/ /\ pc \in Walking /\ pc' \notin Walking /\ UNCHANGED <<log, branch>>
                       /\ Standing' = branch
                    \/ /\ pc \notin Walking /\ Standing' = branch'
                       /\ CommitAbandoned \/ (Others /\ (OthersCommit \/ OthersPull))
  OBVIOUS
<1>1. CASE pc' \in Walking
  <2>1. CASE pc \in Walking /\ UNCHANGED tip  BY <1>1, <2>1 DEF Standing
  <2>2. CASE Advances  BY <1>1, <2>2 DEF Standing, Advances
  <2>3. CASE OwnCommit
    <3>1. pc \in Walking /\ UNCHANGED tip
      BY <2>3 DEF OwnCommit, CommitsOwn, Bump, FinalizeChangelog, Archive, At, Walking, Places
    <3> QED  BY <2>1, <3>1
  <2>4. CASE pc = "idle" /\ tip' = branch  BY <1>1, <2>4 DEF Standing, Walking
  <2> QED  BY <1>1, <2>1, <2>2, <2>3, <2>4, HeadStep DEF GivesBack
<1>2. CASE pc' \notin Walking
  <2>1. ~Advances /\ ~GivesBack /\ ~OwnCommit
    BY <1>2 DEF Advances, GivesBack, OwnCommit, CommitsOwn, Walking, Places
  <2>2. CASE UNCHANGED repoVars  BY <1>2, <2>2 DEF Standing, repoVars
  <2>3. CASE Pushes  BY <1>2, <2>3 DEF Standing, Pushes, Walking, Places
  <2>4. CASE CommitAbandoned  BY <1>2, <2>4 DEF Standing, CommitAbandoned, Walking
  <2>5. CASE Others
    <3>1. UNCHANGED pc  BY <2>5 DEF Others, procVars
    <3>2. OthersPush => UNCHANGED branch  BY DEF OthersPush
    <3> QED  BY <1>2, <2>5, <3>1, <3>2 DEF Standing, Others
  <2> QED  BY <2>1, <2>2, <2>3, <2>4, <2>5, RepoStep
<1> QED  BY <1>1, <1>2

\* What a step does to the marks of the release commit and of the dispatch owed.
LEMMA Marks ==
    Structure /\ Placed /\ Backing /\ Holding /\ Next =>
        \/ st'.ver = 0 \/ Begin \/ Clear
        \/ /\ st'.ver = st.ver
           /\ \/ Committed \in st'.done <=> Committed \in st.done
              \/ Record /\ step = Committed /\ Committed \in st'.done
           /\ \/ st'.runall = st.runall
              \/ Judge /\ st'.runall = cand
              \/ Dispatch /\ origin \in ran'
<1> DEFINE Goal == \/ st'.ver = 0 \/ Begin \/ Clear
                   \/ /\ st'.ver = st.ver
                      /\ \/ Committed \in st'.done <=> Committed \in st.done
                         \/ Record /\ step = Committed /\ Committed \in st'.done
                      /\ \/ st'.runall = st.runall
                         \/ Judge /\ st'.runall = cand
                         \/ Dispatch /\ origin \in ran'
<1> SUFFICES ASSUME Structure, Placed, Backing, Holding, Next PROVE Goal  OBVIOUS
<1> USE StepsAre
<1>b. st \in State /\ step \in Steps /\ (pushed <=> PastPush) /\ pushed \in BOOLEAN
  BY DEF Structure, TypeOK, Memory, Flags, Backing
<1>u. ASSUME UNCHANGED st PROVE Goal  BY <1>u
<1>f. ASSUME NEW n, st' = Fail(st, n), n # Committed \/ Committed \notin st.done PROVE Goal
  <2>1. st'.ver = st.ver /\ st'.done = st.done \ {n} /\ st'.runall = st.runall
    BY <1>b, <1>f DEF Fail, State
  <2> QED  BY <1>f, <2>1
<1>s. ASSUME NEW n, NEW k, NEW tried, Stop(n, k, tried), n # Committed \/ Committed \notin st.done
      PROVE  Goal
  BY <1>f, <1>u, <1>s DEF Stop
<1>1. CASE \/ EnterFresh \/ EnterResume \/ Abandon \/ CommitAbandoned \/ Crash \/ Skip \/ AllTagged
           \/ AllTagsPushed \/ PublishPipelines \/ Deploy
  <2>1. UNCHANGED st
    BY <1>1 DEF EnterFresh, EnterResume, Enter, Abandon, CommitAbandoned, Crash, Skip, AllTagged,
       AllTagsPushed, PublishPipelines, Deploy
  <2> QED  BY <1>u, <2>1
<1>2. CASE DropState \/ Validate \/ Epilogue
  BY <1>u, <1>2 DEF DropState, Validate, Epilogue, NoState
<1>3. CASE Begin \/ Clear  BY <1>3
<1>4. CASE Adopt
  <2>1. \/ UNCHANGED st
        \/ \E d, r : st' = [st EXCEPT !.pin = tip, !.done = d, !.rc = r]
                     /\ (d = st.done \/ d = st.done \ {CIVerified})
    BY <1>4, Zenon DEF Adopt
  <2>2. ASSUME NEW d, NEW r, st' = [st EXCEPT !.pin = tip, !.done = d, !.rc = r],
               d = st.done \/ d = st.done \ {CIVerified}
        PROVE  st'.ver = st.ver /\ st'.runall = st.runall /\ st'.done = d
    BY <1>b, <2>2 DEF State
  <2>3. ASSUME NEW d, NEW r, st' = [st EXCEPT !.pin = tip, !.done = d, !.rc = r],
               d = st.done \/ d = st.done \ {CIVerified}
        PROVE  Goal
    <3>1. st'.ver = st.ver /\ st'.runall = st.runall /\ st'.done = d  BY <2>2, <2>3
    <3>2. Committed \in d <=> Committed \in st.done  BY <2>3
    <3> QED  BY <3>1, <3>2
  <2> QED  BY <1>u, <2>1, <2>3
<1>5. CASE EntryGuard  BY <1>s, <1>u, <1>5 DEF EntryGuard
<1>6. CASE Bump
  <2>1. \/ UNCHANGED st
        \/ st' = Complete(st, VersionBumped)
        \/ st' = [Complete(st, VersionBumped) EXCEPT !.created = @ \cup {Next1}]
    BY <1>6, Zenon DEF Bump
  <2>2. CASE \/ st' = Complete(st, VersionBumped)
             \/ st' = [Complete(st, VersionBumped) EXCEPT !.created = @ \cup {Next1}]
    <3>1. st'.ver = st.ver /\ st'.runall = st.runall /\ st'.done = st.done \cup {VersionBumped}
      BY <1>b, <2>2 DEF Complete, State
    <3> QED  BY <3>1
  <2> QED  BY <1>u, <2>1, <2>2
<1>7. CASE Advance
  <2>1. step \notin st.done  BY <1>7 DEF Advance, Holding
  <2>2. UNCHANGED st \/ \E k, tried : Stop(step, k, tried)  BY <1>7, Zenon DEF Advance
  <2> QED  BY <1>s, <1>u, <2>1, <2>2
<1>8. CASE Record
  <2>1. st'.ver = st.ver /\ st'.runall = st.runall /\ st'.done = st.done \cup {step}
    BY <1>8, <1>b DEF Record, Complete, State
  <2> QED  BY <1>8, <2>1
<1>9. CASE Discard  BY <1>f, <1>u, <1>9 DEF Discard
<1>10. CASE Candidate
  <2>1. UNCHANGED st \/ st' = [st EXCEPT !.rc = tip]  BY <1>10, Zenon DEF Candidate
  <2>2. st' = [st EXCEPT !.rc = tip] =>
            st'.ver = st.ver /\ st'.runall = st.runall /\ st'.done = st.done
    BY <1>b DEF State
  <2> QED  BY <1>u, <2>1, <2>2
<1>11. CASE Judge
  <2>1. \/ UNCHANGED st \/ st' = [st EXCEPT !.runall = cand]
        \/ \E k, tried : Stop(CandidatePushed, k, tried)
    BY <1>11, Zenon DEF Judge
  <2>2. st' = [st EXCEPT !.runall = cand] =>
            st'.ver = st.ver /\ st'.runall = cand /\ st'.done = st.done
    BY <1>b DEF State
  <2> QED  BY <1>11, <1>s, <1>u, <2>1, <2>2
<1>12. CASE Push
  <2>1. UNCHANGED st \/ \E k, tried : Stop(CandidatePushed, k, tried)
    BY <1>12, Zenon DEF Push
  <2> QED  BY <1>s, <1>u, <2>1
<1>13. CASE Dispatch
  <2>1. origin \in ran'  BY <1>13 DEF Dispatch
  <2>2. st' = [st EXCEPT !.runall = NoCommit] \/ \E k, tried : Stop(CIVerified, k, tried)
    BY <1>13, Zenon DEF Dispatch
  <2>3. st' = [st EXCEPT !.runall = NoCommit] => st'.ver = st.ver /\ st'.done = st.done
    BY <1>b DEF State
  <2> QED  BY <1>13, <1>s, <2>1, <2>2, <2>3
<1>14. CASE Verify
  <2>1. st' = [st EXCEPT !.rc = cand] \/ \E k, tried : Stop(CIVerified, k, tried)
    BY <1>14, Zenon DEF Verify
  <2>2. st' = [st EXCEPT !.rc = cand] =>
            st'.ver = st.ver /\ st'.runall = st.runall /\ st'.done = st.done
    BY <1>b DEF State
  <2> QED  BY <1>s, <2>1, <2>2
<1>15. CASE Gate
  <2>1. UNCHANGED st \/ Stop(ChangelogFinalized, "other", attempted)
    BY <1>15, Zenon DEF Gate
  <2> QED  BY <1>s, <1>u, <2>1
<1>16. CASE FinalizeChangelog \/ Archive
  <2>1. \/ UNCHANGED st \/ \E k, tried : Stop(step, k, tried)
        \/ st' = [st EXCEPT !.created = @ \cup {Next1}]
    BY <1>16, Zenon DEF FinalizeChangelog, Archive, CommitAs
  <2>2. step # Committed  BY <1>16 DEF FinalizeChangelog, Archive, At
  <2>3. st' = [st EXCEPT !.created = @ \cup {Next1}] =>
            st'.ver = st.ver /\ st'.runall = st.runall /\ st'.done = st.done
    BY <1>b DEF State
  <2> QED  BY <1>s, <1>u, <2>1, <2>2, <2>3
<1>17. CASE PushBranch \/ GitHubRelease
  <2>1. UNCHANGED st \/ \E k, tried : Stop(step, k, tried)
    BY <1>17, Zenon DEF PushBranch, GitHubRelease
  <2>2. At(Pushed) \/ At(GitHubReleaseCreated)
    BY <1>17, Zenon DEF PushBranch, GitHubRelease
  <2>3. step # Committed  BY <2>2 DEF At
  <2> QED  BY <1>s, <1>u, <2>1, <2>3
<1>18. CASE PostReleaseHooks  BY <1>f, <1>u, <1>18 DEF PostReleaseHooks
<1>19. ASSUME NEW t \in Tags, Tag(t) \/ PushTag(t) PROVE Goal
  <2>1. UNCHANGED st \/ \E k, tried : Stop(step, k, tried)  BY <1>19, Zenon DEF Tag, PushTag
  <2>2. step # Committed  BY <1>19 DEF Tag, PushTag, At, Placed
  <2> QED  BY <1>s, <1>u, <2>1, <2>2
<1>20. CASE StepError
  <2>1. /\ Stop(step, "other", attempted)
        /\ pc \in {"bump", "judge", "verify", "pushtags"} \/ (pc = "walk" /\ step \notin st.done)
    BY <1>20 DEF StepError
  <2>2. CASE pc \in {"bump", "judge"}
    <3>1. Unreached("other", attempted)  BY <1>b, <2>2 DEF Unreached, PastPush
    <3> QED  BY <1>u, <2>1, <3>1 DEF Stop
  <2>3. CASE pc \in {"verify", "pushtags", "walk"}
    <3>1. step # Committed  BY <1>b, <2>3 DEF Holding, Placed
    <3> QED  BY <1>s, <2>1, <3>1
  <2> QED  BY <2>1, <2>2, <2>3
<1>21. CASE Env
  BY <1>u, <1>21 DEF Env, CommitOnBranch, CommitOnOrigin, ChangelogAdd, Pull, StrayTag, EnvOnly
<1> QED
  BY <1>1, <1>2, <1>3, <1>4, <1>5, <1>6, <1>7, <1>8, <1>9, <1>10, <1>11, <1>12, <1>13, <1>14,
     <1>15, <1>16, <1>17, <1>18, <1>19, <1>20, <1>21 DEF Next, Operator, Walk

\* Once the branch has been pushed past it, a release is sealed.
LEMMA PushedSealed ==
    ASSUME Structure, Placed, Holding, Windowed, pc \in Walking, ~BeforePush
    PROVE  Sealed(st)
<1> USE StepsAre
<1>1. CASE pc = "epilogue"  BY <1>1 DEF Windowed
<1>2. CASE pc = "pushtags"
  <2>1. 4..7 \subseteq st.done  BY <1>2 DEF Holding, PastGate, Placed
  <2> QED  BY <2>1 DEF Sealed
<1>3. CASE pc \in {"walk", "advance", "record"} /\ ~(step < Pushed)
  <2>1. step \in 8..12  BY <1>3 DEF Structure, TypeOK, Memory
  <2>2. PastGate  BY <1>3, <2>1 DEF PastGate
  <2>3. 4 \in 4..(step - 1) /\ 5 \in 4..(step - 1)  BY <2>1
  <2> QED  BY <2>2, <2>3 DEF Holding, Sealed
<1> QED  BY <1>1, <1>2, <1>3 DEF BeforePush

\* A command that has pushed the branch past its finalization commits does not
\* come to be before that again.
LEMMA StillBefore ==
    Structure /\ Placed /\ Backing /\ Next /\ pc \in Walking /\ BeforePush' => BeforePush
<1> SUFFICES ASSUME Structure, Placed, Backing, Next, pc \in Walking, ~BeforePush PROVE ~BeforePush'
  OBVIOUS
<1> USE StepsAre
<1>b. /\ pc \in {"pushtags", "epilogue"} \/ (pc \in {"walk", "record"} /\ step >= 8)
      /\ step \in Steps /\ pushed
  <2>1. step \in Steps  BY DEF Structure, TypeOK, Memory
  <2>2. pc \in {"pushtags", "epilogue"} \/ (pc \in {"walk", "record", "advance"} /\ ~(step < 8))
    BY DEF BeforePush
  <2>3. pc # "advance"  BY <2>1, <2>2 DEF Placed
  <2>4. pc \in {"pushtags", "epilogue"} \/ (pc \in {"walk", "record"} /\ step >= 8)
    BY <2>1, <2>2, <2>3
  <2> QED  BY <2>1, <2>4 DEF Backing, PastPush
<1>z. ASSUME Stopped PROVE ~BeforePush'  BY <1>z DEF Stopped, BeforePush, Walking
<1>s. ASSUME NEW n, NEW k, NEW tried, Stop(n, k, tried) PROVE ~BeforePush'
  BY <1>b, <1>s, <1>z DEF Stop, Unreached
<1>l. ASSUME pc' \in {"pushtags", "epilogue"} PROVE ~BeforePush'  BY <1>l DEF BeforePush
<1>w. ASSUME pc \in {"walk", "pushtags"}, Goto("record"), pc = "pushtags" => step = 8 PROVE ~BeforePush'
  BY <1>b, <1>w DEF BeforePush, Goto
<1>1. CASE \/ EnterFresh \/ EnterResume \/ Abandon \/ Validate \/ Begin \/ Adopt \/ EntryGuard
           \/ Bump \/ Advance \/ Discard \/ Clear \/ Candidate \/ Judge \/ Push \/ Dispatch \/ Verify
           \/ Gate \/ CommitAbandoned \/ DropState
  <2>1. pc \notin {"pushtags", "epilogue", "walk", "record"}
    BY <1>1, Zenon DEF EnterFresh, EnterResume, Enter, Abandon, Validate, Begin, Adopt, EntryGuard, Bump,
       Advance, Discard, Clear, Candidate, Judge, Push, Dispatch, Verify, Gate, CommitAbandoned,
       DropState
  <2> QED  BY <1>b, <2>1
<1>2. CASE Record
  <2>1. step >= 8 /\ step \notin {Committed, CandidatePushed, CIVerified}
    BY <1>2, <1>b DEF Record
  <2>2. pc' = "epilogue" \/ (pc' = "walk" /\ step' = step + 1)  BY <1>2, <2>1 DEF Record
  <2> QED  BY <1>b, <1>l, <2>1, <2>2 DEF BeforePush
<1>3. CASE Skip
  <2>1. pc = "walk" /\ (pc' = "epilogue" \/ (pc' = "walk" /\ step' = step + 1))
    BY <1>3 DEF Skip, Goto
  <2> QED  BY <1>b, <1>l, <2>1 DEF BeforePush
<1>4. CASE FinalizeChangelog \/ Archive
  <2>1. step \in {5, 6} /\ pc = "walk"  BY <1>4 DEF FinalizeChangelog, Archive, At
  <2> QED  BY <1>b, <2>1
<1>5. CASE AllTagged \/ AllTagsPushed \/ GitHubRelease \/ PublishPipelines \/ Deploy
  <2>1. Goto("record") \/ \E n, k, tried : Stop(n, k, tried)
    BY <1>5, Zenon DEF AllTagged, AllTagsPushed, GitHubRelease, PublishPipelines, Deploy
  <2>2. pc \in {"walk", "pushtags"} /\ (pc = "pushtags" => step = 8)
    BY <1>5 DEF AllTagged, AllTagsPushed, GitHubRelease, PublishPipelines, Deploy, At, Placed
  <2> QED  BY <1>s, <1>w, <2>1, <2>2
<1>6. CASE PushBranch
  <2>1. pc' = "pushtags" \/ \E n, k, tried : Stop(n, k, tried)
    BY <1>6, Zenon DEF PushBranch
  <2> QED  BY <1>l, <1>s, <2>1
<1>7. CASE PostReleaseHooks  BY <1>7, <1>l, <1>w DEF PostReleaseHooks, At, Goto
<1>8. CASE Epilogue \/ Crash  BY <1>8, <1>z DEF Epilogue, Crash
<1>9. ASSUME UNCHANGED procVars PROVE ~BeforePush'  BY <1>9 DEF BeforePush, procVars
<1>10. ASSUME NEW t \in Tags, Tag(t) \/ PushTag(t) PROVE ~BeforePush'
  <2>1. UNCHANGED procVars \/ \E n, k, tried : Stop(n, k, tried)
    BY <1>10, Zenon DEF Tag, PushTag
  <2> QED  BY <1>9, <1>s, <2>1
<1>11. CASE StepError  BY <1>11, <1>s DEF StepError
<1>12. CASE Env
  BY <1>12, <1>9 DEF Env, CommitOnBranch, CommitOnOrigin, ChangelogAdd, Pull, StrayTag, EnvOnly
<1> QED
  BY <1>1, <1>2, <1>3, <1>4, <1>5, <1>6, <1>7, <1>8, <1>10, <1>11, <1>12 DEF Next, Operator, Walk

\* Every step leaves origin behind the branch and the checkout, but where CI ran.
LEMMA ReachedKept ==
    ASSUME Grounded
    PROVE  Reached'
<1>i. /\ Structure /\ Structure' /\ Accounted /\ Accounted' /\ Holding /\ Traceless /\ Reached /\ Next
      /\ Placed /\ Position /\ Bumped /\ Backing /\ LogClosed' /\ OriginFollows
  BY DEF Grounded, Accounted, Traceless
<1>g. /\ LogOK /\ LogOK' /\ LogGrows /\ LogClosed /\ LogClosed' /\ Len(log) \in Nat /\ Len(log') \in Nat
      /\ branch \in Commits /\ branch' \in Commits' /\ origin \in Commits /\ origin' \in Commits'
      /\ pc \in Walking => head \in Commits /\ tip \in Commits
      /\ pc' \in Walking => head' \in Commits' /\ tip' \in Commits'
      /\ pc \in Walking => tip \in Anc(branch) /\ tip \in Anc(head)
  BY <1>i, Footing
<1>1. PICK o, b, t : o = origin' /\ b = branch' /\ t = tip'  OBVIOUS
<1>s. ASSUME NEW c \in Commits PROVE Anc(c)' = Anc(c)  BY <1>g, CommitStays
<1>b. GivesBack => /\ pc \in Walking /\ BeforePush /\ last \in Anc(branch) /\ branch = tip
                   /\ OriginRan \/ origin \in Anc(last)
  <2> SUFFICES ASSUME GivesBack
               PROVE  /\ pc \in Walking /\ BeforePush /\ last \in Anc(branch) /\ branch = tip
                      /\ OriginRan \/ origin \in Anc(last)
    OBVIOUS
  <2>1. /\ pc \in Walking /\ ~pushed /\ last # NoCommit /\ branch = tip /\ last \in Anc(tip)
        /\ Anc(tip) \subseteq Anc(last) \cup {tip}
    BY <1>i, TakenBack
  <2>2. BeforePush  BY <2>1 DEF GivesBack, BeforePush
  <2>3. tip \notin Anc(origin) /\ origin \in Anc(origin)
    BY <1>g, <1>i, <2>1 DEF OriginFollows, LogOK
  <2>4. OriginRan \/ origin \in Anc(tip)  BY <1>i, <2>2 DEF Reached
  <2> QED  BY <2>1, <2>2, <2>3, <2>4
<1>2. CASE OriginRan'  BY <1>2 DEF Reached
<1>3. CASE Push /\ OriginTakes(cand)
  <2>1. o = tip /\ b = branch /\ pc \in Walking /\ tip \in Commits
    BY <1>1, <1>3, <1>g, <1>i DEF Push, OriginTakes, Bumped, Walking, Places
  <2>2. pc' \in Walking => t = tip
    BY <1>1, <1>3, <1>i, <2>1, MemoryStep DEF Push, Advance, Discard
  <2>3. o \in Anc(b)'  BY <1>1, <1>g, <1>s, <2>1
  <2>4. o \in Anc(o)'  BY <1>1, <1>g DEF LogOK
  <2> QED  BY <1>1, <2>1, <2>2, <2>3, <2>4 DEF Reached, BeforePush
<1>4. CASE PushBranch /\ OriginTakes(branch)
  <2>1. o = b /\ b \in Anc(b)' /\ pc = "walk" /\ step = Pushed /\ pc \in Walking
    BY <1>1, <1>4, <1>g DEF PushBranch, OriginTakes, LogOK, At, Walking, Places
  <2>2. ~BeforePush  BY <2>1, StepsAre DEF BeforePush
  <2>3. ~BeforePush'  BY <1>i, <2>1, <2>2, StillBefore
  <2> QED  BY <1>1, <2>1, <2>3 DEF Reached
<1>5. CASE UNCHANGED origin /\ ~OriginRan' /\ ~OriginRan
  <2>1. origin \in Anc(branch) /\ (BeforePush => origin \in Anc(tip))
    BY <1>5, <1>i DEF Reached
  <2>2. ASSUME NEW c \in Commits, NEW d \in Commits', origin \in Anc(c), c \in Anc(d)'
        PROVE  o \in Anc(d)'
    BY <1>1, <1>5, <1>g, <1>s, <2>2 DEF LogClosed
  <2>3. o \in Anc(b)'
    <3>1. CASE GivesBack
      <4>1. b = last /\ last \in Commits /\ origin \in Anc(last)
        BY <1>1, <1>5, <1>b, <1>g, <3>1, BumpsStay DEF GivesBack
      <4> QED  BY <1>1, <1>5, <1>s, <4>1
    <3>2. CASE ~GivesBack
      <4>1. Discard => UNCHANGED <<log, branch>>
        BY <3>2 DEF Discard, GivesBack, TakesBack, Goto
      <4>2. UNCHANGED branch => branch \in Anc(branch)'  BY <1>1, <1>g, <1>s DEF LogOK
      <4>3. branch \in Anc(b)'  BY <1>1, <1>i, <4>1, <4>2, BranchGrows DEF Accounted
      <4> QED  BY <1>1, <1>g, <2>1, <2>2, <4>3
    <3> QED  BY <3>1, <3>2
  <2>4. BeforePush' => o \in Anc(t)'
    <3> SUFFICES ASSUME BeforePush' PROVE o \in Anc(t)'  OBVIOUS
    <3>1. pc' \in Walking  BY DEF BeforePush
    <3>2. CASE pc \in Walking
      <4>1. origin \in Anc(tip)  BY <1>i, <2>1, <3>2, StillBefore
      <4>2. CASE UNCHANGED tip  BY <1>1, <1>5, <1>g, <1>s, <3>2, <4>1, <4>2
      <4>3. CASE Advances
        <5>1. t = head /\ head \in Commits /\ origin \in Anc(head)
          BY <1>1, <1>g, <3>2, <4>1, <4>3 DEF Advances, LogClosed
        <5> QED  BY <1>1, <1>5, <1>s, <5>1
      <4>4. CASE GivesBack
        <5>1. t = last /\ last \in Commits /\ origin \in Anc(last)
          BY <1>1, <1>5, <1>b, <1>g, <4>4, BumpsStay DEF GivesBack
        <5> QED  BY <1>1, <1>5, <1>s, <5>1
      <4> QED
        BY <1>i, <3>1, <3>2, <4>2, <4>3, <4>4, HeadStep DEF OwnCommit, CommitsOwn, Walking
    <3>3. CASE pc \notin Walking
      <4>1. t = branch
        BY <1>1, <1>i, <3>1, <3>3, MemoryStep DEF EnterFresh, EnterResume, Enter
      <4> QED  BY <1>1, <1>5, <1>g, <1>s, <2>1, <4>1
    <3> QED  BY <3>2, <3>3
  <2> QED  BY <1>1, <2>3, <2>4 DEF Reached
<1> QED  BY <1>2, <1>3, <1>4, <1>5, <1>i, OriginMoves

\* Every step leaves in the checkout nothing but the release's own beyond the pin.
LEMMA MineKept == "crash-in-discard" \notin Faults /\ Grounded => Mine'
<1> SUFFICES ASSUME "crash-in-discard" \notin Faults, Grounded,
                    pc' \in Walking \ {"entered", "prepared", "clear"}
             PROVE  (Anc(head) \ Anc(st.pin) \subseteq st.created)'
  BY DEF Mine
<1>i. /\ Structure /\ Structure' /\ Accounted /\ Accounted' /\ Shipping /\ Holding /\ Holding' /\ Mine /\ Next
      /\ Placed /\ Position /\ Backing
  BY DEF Grounded, Accounted, Traceless
<1>g. /\ LogOK /\ LogOK' /\ LogGrows /\ LogClosed /\ Len(log) \in Nat /\ Len(log') \in Nat
      /\ pc \in Walking => head \in Commits /\ tip \in Commits
      /\ st \in State /\ st.ver \in 0..MaxVersion
  BY <1>i, Footing
<1>s. ASSUME NEW c \in Commits PROVE Anc(c)' = Anc(c)  BY <1>g, CommitStays
<1>1. PICK h, p : h = head /\ p = st.pin  OBVIOUS
<1>p. pc \in Walking  BY <1>i, MemoryStep DEF EnterFresh, EnterResume, Enter
<1>c. pc # "clear"  BY <1>i, ClearOnly DEF Clear, Stopped, Walking
<1>2. CASE pc \in {"entered", "prepared"}
  <2>1. Begin \/ Adopt  BY <1>2, <1>i, Turns DEF procVars, Validate, Goto, Stopped, Walking
  <2>2. CASE Begin
    <3>1. UNCHANGED head /\ st' = [NoState EXCEPT !.ver = VersionOf(head) + 1, !.pin = head]
      BY <2>2 DEF Begin, Goto, Stopped, Walking
    <3>2. head' = st'.pin  BY <3>1 DEF NoState
    <3>3. PICK x : x = head' /\ x = st'.pin  BY <3>2
    <3> QED  BY <3>3
  <2>3. CASE Adopt
    <3>1. /\ pc = "entered" /\ UNCHANGED head
          /\ \E d, r : st' = [st EXCEPT !.pin = tip, !.done = d, !.rc = r]
      BY <2>3, Zenon DEF Adopt, Stopped, Walking
    <3>2. st'.pin = tip  BY <1>g, <3>1 DEF State
    <3>3. head = tip  BY <1>i, <1>p, <3>1 DEF Position
    <3>4. PICK x : x = head' /\ x = st'.pin  BY <3>1, <3>2, <3>3
    <3> QED  BY <3>4
  <2> QED  BY <2>1, <2>2, <2>3
<1>3. CASE pc \notin {"entered", "prepared"}
  <2>1. st.ver # 0 /\ st'.ver # 0 /\ Anc(h) \ Anc(p) \subseteq st.created
    BY <1>1, <1>3, <1>c, <1>i, <1>p DEF Holding, Mine
  <2>2. p \in Commits
    <3>1. st.pin \in Anc(tip)  BY <1>c, <1>i, <1>p, <2>1 DEF Shipping, Pinned, Standing
    <3> QED  BY <1>1, <1>g, <1>p, <3>1, FatesBelow
  <2>3. st'.pin = p /\ st.created \subseteq st'.created
    <3>1. CASE Kin(st, st')  BY <1>1, <3>1 DEF Kin
    <3>2. CASE Record  BY <1>1, <1>g, <3>2 DEF Record, Complete, State
    <3>3. ~Begin /\ ~Adopt /\ ~Clear /\ ~GateRefuses
      BY <1>3, <1>c DEF Begin, Adopt, Clear, GateRefuses, Walking
    <3> QED  BY <1>i, <2>1, <3>1, <3>2, <3>3, StateMoves
  <2>4. CASE UNCHANGED head  BY <1>1, <1>g, <1>p, <1>s, <2>1, <2>2, <2>3, <2>4
  <2>5. CASE OwnCommit
    <3>1. PICK k, c, b : CommitsOwn(k, c) /\ b = Next1 /\ k \in {"bump", "finalize", "archive"} /\ c \in {NoCommit, cand}
      BY <2>5 DEF OwnCommit
    <3>2. k \in Kinds /\ c \in Nat /\ h \in Commits /\ log' = Extend({h}, k, st.ver, c)
      BY <1>1, <1>g, <1>i, <1>p, <3>1 DEF CommitsOwn, Structure, TypeOK, Memory, Kinds, NoCommit
    <3>3. AddsOn(h, k, st.ver, c, b)  BY <1>g, <1>i, <3>1, <3>2, CommittingOn
    <3>4. Anc(b)' = Anc(h) \cup {b} /\ head' = b /\ b \in st'.created
      BY <3>1, <3>3 DEF AddsOn, CommitsOwn
    <3> QED  BY <1>s, <2>1, <2>2, <2>3, <3>4
  <2> QED  BY <1>i, <1>p, <2>4, <2>5, HeadStep DEF Advances, GivesBack
<1> QED  BY <1>2, <1>3

\* A step of somebody else leaves what the command waits for.
LEMMA WindowsStay ==
    ASSUME Structure, Structure', Accounted, Accounted', Windowed, Next, UNCHANGED <<procVars, st>>
    PROVE  Windowed'
<1>g. /\ LogOK /\ LogGrows /\ LogClosed /\ Len(log) \in Nat /\ Len(log') \in Nat /\ origin \in Commits
  BY Footing
<1>u. UNCHANGED <<pc, step, attempted, cand, st>>  BY DEF procVars
<1>1. PICK c, o, q : c = cand /\ o = origin /\ q = origin'  OBVIOUS
<1>2. c \in Commits => /\ Anc(c)' = Anc(c) /\ Anc(c) \subseteq Commits /\ log'[c] = log[c]
                       /\ \A d \in Anc(c) : log'[d] = log[d]
  BY <1>g DEF LogOK, LogGrows, Commits, Anc
<1>3. UNCHANGED origin \/ origin' \notin Commits
  <2>1. ~Push /\ ~PushBranch
    <3>1. Push => pc' # "push"
      <4>1. Push => pc' = "record" \/ \E n, k, tried : Stop(n, k, tried)  BY Zenon DEF Push
      <4>2. \A n, k, tried : Stop(n, k, tried) => pc' \in {"idle", "discard"}
        BY DEF Stop, Stopped, Goto
      <4> QED  BY <4>1, <4>2
    <3>2. PushBranch => pc' # "walk"
      <4>1. PushBranch => pc' = "pushtags" \/ \E n, k, tried : Stop(n, k, tried)
        BY Zenon DEF PushBranch
      <4>2. \A n, k, tried : Stop(n, k, tried) => pc' \in {"idle", "discard"}
        BY DEF Stop, Stopped, Goto
      <4> QED  BY <4>1, <4>2
    <3> QED  BY <1>u, <3>1, <3>2 DEF Push, PushBranch, At
  <2> QED  BY <2>1, OriginMoves
<1>4. ASSUME pc = "push"
      PROVE  \/ ~Workspace \/ Triggers(q, c)' \/ st'.runall = c \/ ~IsAncestor(q, c)'
  <2>1. c \in Commits  BY <1>1, <1>4 DEF Structure, RefsOK
  <2>2. CASE q \notin Commits  BY <1>2, <2>1, <2>2 DEF IsAncestor
  <2>3. CASE q = o
    <3>1. Anc(o)' = Anc(o)  BY <1>1, <1>g, CommitStays
    <3>2. \/ ~Workspace \/ Triggers(o, c) \/ st.runall = c \/ ~IsAncestor(o, c)
      BY <1>1, <1>4 DEF Windowed
    <3> QED  BY <1>2, <1>u, <2>1, <2>3, <3>1, <3>2 DEF Triggers, IsAncestor
  <2> QED  BY <1>1, <1>3, <2>2, <2>3
<1>5. pc = "verify" \/ (pc = "record" /\ step = CandidatePushed) => c \in Commits
  BY <1>1, StepsAre DEF Accounted, Bumped
<1>6. pc = "verify" \/ (pc = "record" /\ step = CandidatePushed) =>
          c \in ran' \/ st'.runall = c \/ (log'[c].kind = "aside" /\ ~attempted)
  BY <1>1, <1>2, <1>5, <1>u, RunsStay DEF Windowed
<1> QED  BY <1>1, <1>4, <1>6, <1>u DEF Windowed, Untried, Sealed

\* Every step keeps what a push and a wait rest on.
LEMMA WindowedKept ==
    ASSUME Grounded
    PROVE  Windowed'
<1> USE StepsAre
<1>i. /\ Structure /\ Structure' /\ Accounted /\ Accounted' /\ Holding /\ Promised /\ Windowed /\ Next
      /\ Placed /\ Bumped
  BY DEF Grounded, Accounted
<1>b. st \in State /\ step \in Steps  BY <1>i DEF Structure, TypeOK, Memory
<1>z. ASSUME Stopped PROVE Windowed'  BY <1>z DEF Stopped, Windowed
<1>l. ASSUME \/ pc' \in {"discard", "clear", "gate", "walk", "pushtags", "archived", "drop"}
             \/ pc' \in {"advance", "record"} /\ step' \notin {Committed, CandidatePushed}
      PROVE  Windowed'
  BY <1>l DEF Windowed, Untried
<1>e. ASSUME \/ pc' \in {"entered", "prepared", "guard", "bump", "candidate", "judge"}
             \/ pc' \in {"advance", "record"} /\ step' = Committed,
             Untried, UNCHANGED attempted
      PROVE  Windowed'
  BY <1>e, <1>i DEF Windowed, Untried
<1>s. ASSUME NEW n, NEW k, NEW tried, Stop(n, k, tried) PROVE Windowed'
  BY <1>l, <1>s, <1>z DEF Stop, Goto
<1>u. ASSUME UNCHANGED <<procVars, st>> PROVE Windowed'  BY <1>i, <1>u, WindowsStay
<1>d. pc \in {"walk", "record"} /\ step = PostReleaseHooksRun => Sealed(st)
  BY <1>i DEF Holding, PastGate, Sealed
<1>1. CASE EnterFresh \/ EnterResume
  BY <1>1, <1>e DEF EnterFresh, EnterResume, Enter, Untried
<1>2. CASE Abandon \/ CommitAbandoned  BY <1>2, <1>l DEF Abandon, CommitAbandoned, Goto
<1>3. CASE Validate \/ Begin \/ Adopt
  <2>1. /\ pc \in {"entered", "prepared"}
        /\ Stopped \/ (pc' \in {"prepared", "guard"} /\ UNCHANGED attempted)
    BY <1>3, Zenon DEF Validate, Begin, Adopt, Goto
  <2> QED  BY <1>e, <1>z, <2>1 DEF Untried
<1>4. CASE EntryGuard  BY <1>4, <1>e, <1>s DEF EntryGuard, Goto, Untried
<1>5. CASE Bump
  <2>1. pc = "bump" /\ step' = Committed /\ UNCHANGED attempted /\ pc' \in {"candidate", "advance"}
    BY <1>5, Zenon DEF Bump
  <2> QED  BY <1>e, <2>1 DEF Untried
<1>6. CASE Advance
  <2>1. pc = "advance" /\ step \in {2, 5, 6}  BY <1>6, <1>i DEF Advance, Placed
  <2>2. (pc' = "record" /\ UNCHANGED <<step, attempted>>) \/ \E n, k, tried : Stop(n, k, tried)
    BY <1>6, Zenon DEF Advance, Goto
  <2> QED  BY <1>e, <1>l, <1>s, <2>1, <2>2 DEF Untried
<1>7. CASE Record
  <2>1. /\ pc = "record" /\ st' = Complete(st, step) /\ UNCHANGED <<attempted, cand, log, ran>>
    BY <1>7 DEF Record, repoVars, ciVars
  <2>2. CASE step = Committed  BY <1>7, <1>e, <2>1, <2>2 DEF Record, Untried
  <2>3. CASE step = CandidatePushed
    <3>1. pc' = "verify" /\ st'.runall = st.runall
      BY <1>7, <1>b, <2>1, <2>3 DEF Record, Complete, State
    <3> QED  BY <1>i, <2>1, <2>3, <3>1 DEF Windowed, Untried
  <2>4. CASE step = PostReleaseHooksRun
    <3>1. pc' = "epilogue" /\ st.done \subseteq st'.done
      BY <1>7, <1>b, <2>1, <2>4 DEF Record, Complete, State
    <3>2. Sealed(st')  BY <1>d, <2>1, <2>4, <3>1 DEF Sealed
    <3> QED  BY <3>1, <3>2 DEF Windowed, Untried
  <2>5. CASE step \notin {Committed, CandidatePushed, PostReleaseHooksRun}
    <3>1. pc' \in {"gate", "walk"}  BY <1>7, <2>5 DEF Record
    <3> QED  BY <1>l, <3>1
  <2> QED  BY <2>2, <2>3, <2>4, <2>5
<1>8. CASE Discard  BY <1>8, <1>l, <1>z DEF Discard, Goto
<1>9. CASE Clear \/ Epilogue \/ DropState \/ Crash
  BY <1>9, <1>z DEF Clear, Epilogue, DropState, Crash
<1>10. CASE Candidate
  <2>1. pc = "candidate" /\ pc' \in {"gate", "discard", "judge"} /\ UNCHANGED attempted
    BY <1>10, Zenon DEF Candidate
  <2> QED  BY <1>e, <1>l, <2>1 DEF Untried
<1>11. CASE Judge
  <2>1. /\ pc = "judge" /\ step = CandidatePushed /\ ~attempted /\ cand = tip
        /\ UNCHANGED <<log, branch, origin, ran>>
    BY <1>11, <1>i DEF Judge, Placed, Windowed, Untried, Bumped, repoVars, ciVars
  <2>2. \/ \E n, k, tried : Stop(n, k, tried)
        \/ /\ ~Workspace \/ Triggers(WindowBase, cand)
           /\ origin # cand /\ Goto("push") /\ UNCHANGED st
        \/ origin = cand /\ pc' = "record" /\ UNCHANGED <<st, step, attempted, cand>>
        \/ Goto("push") /\ st' = [st EXCEPT !.runall = cand]
    BY <1>11, Zenon DEF Judge
  <2>3. CASE /\ ~Workspace \/ Triggers(WindowBase, cand)
             /\ origin # cand /\ Goto("push") /\ UNCHANGED st
    <3>1. ~Workspace \/ Triggers(origin, cand)  BY <2>3 DEF WindowBase
    <3>2. UNCHANGED <<cand, origin, attempted, log>> /\ pc' = "push"  BY <2>1, <2>3 DEF Goto
    <3>3. ~Workspace \/ Triggers(origin, cand)'  BY <3>1, <3>2 DEF Triggers, Anc
    <3> QED  BY <2>1, <3>2, <3>3 DEF Windowed
  <2>4. CASE Goto("push") /\ st' = [st EXCEPT !.runall = cand]
    <3>1. st'.runall = cand /\ pc' = "push" /\ UNCHANGED <<cand, attempted>>
      BY <1>b, <2>4 DEF State, Goto
    <3> QED  BY <2>1, <3>1 DEF Windowed
  <2>5. CASE origin = cand /\ pc' = "record" /\ UNCHANGED <<st, step, attempted, cand>>
    <3>1. st.ver # 0 /\ Committed \in st.done /\ ~Sealed(st) /\ Standing = tip
      BY <1>i, <2>1 DEF Holding, Waiting, Bumped, Standing, Walking, Places, Sealed
    <3>2. OriginRan \/ st.runall = cand  BY <1>i, <2>1, <2>5, <3>1 DEF Promised, Awaited
    <3>3. cand \in ran \/ log[cand].kind = "aside" \/ st.runall = cand
      BY <2>5, <3>2 DEF OriginRan
    <3> QED  BY <2>1, <2>5, <3>3 DEF Windowed, Untried
  <2> QED  BY <1>s, <2>2, <2>3, <2>4, <2>5
<1>12. CASE Push
  <2>1. pc = "push" /\ step = CandidatePushed  BY <1>12, <1>i DEF Push, Placed
  <2>2. \/ \E n, k, tried : Stop(n, k, tried)
        \/ OriginTakes(cand) /\ pc' = "record" /\ UNCHANGED <<st, step, cand>>
    BY <1>12, Zenon DEF Push
  <2>3. CASE OriginTakes(cand) /\ pc' = "record" /\ UNCHANGED <<st, step, cand>>
    <3>1. \/ ~Workspace \/ Triggers(origin, cand) \/ st.runall = cand
      BY <1>i, <2>1, <2>3 DEF Windowed, OriginTakes
    <3>2. cand \in ran' \/ st'.runall = cand  BY <2>3, <3>1 DEF OriginTakes
    <3> QED  BY <2>1, <2>3, <3>2 DEF Windowed, Untried
  <2> QED  BY <1>s, <2>2, <2>3
<1>13. CASE Dispatch
  <2>1. \/ \E n, k, tried : Stop(n, k, tried)
        \/ origin = cand /\ Goto("verify") /\ ran' = ran \cup {origin}
    BY <1>13, Zenon DEF Dispatch
  <2>2. CASE origin = cand /\ Goto("verify") /\ ran' = ran \cup {origin}
    <3>1. pc' = "verify" /\ cand' \in ran'  BY <2>2 DEF Goto
    <3> QED  BY <3>1 DEF Windowed, Untried
  <2> QED  BY <1>s, <2>1, <2>2
<1>14. CASE Verify
  <2>1. \/ \E n, k, tried : Stop(n, k, tried)
        \/ pc' = "record" /\ step' = CIVerified
    BY <1>14, Zenon DEF Verify
  <2> QED  BY <1>l, <1>s, <2>1
<1>15. CASE Gate
  <2>1. pc' = "walk" \/ \E n, k, tried : Stop(n, k, tried)  BY <1>15, Zenon DEF Gate
  <2> QED  BY <1>l, <1>s, <2>1
<1>16. CASE Skip
  <2>1. CASE step = PostReleaseHooksRun
    <3>1. pc' = "epilogue" /\ UNCHANGED st /\ pc = "walk"  BY <1>16, <2>1 DEF Skip, Goto
    <3> QED  BY <1>d, <2>1, <3>1 DEF Windowed, Untried, Sealed
  <2>2. CASE step # PostReleaseHooksRun  BY <1>16, <1>l, <2>2 DEF Skip
  <2> QED  BY <2>1, <2>2
<1>w. ASSUME pc \in {"walk", "pushtags"}, pc' \in {"record", "advance"}, UNCHANGED step PROVE Windowed'
  <2>1. step \notin {2, 3}  BY <1>i, <1>w DEF Placed
  <2> QED  BY <1>l, <1>w, <2>1
<1>17. CASE FinalizeChangelog \/ Archive
  <2>1. \/ pc' \in {"record", "advance"} /\ UNCHANGED step
        \/ \E n, k, tried : Stop(n, k, tried)
    BY <1>17, Zenon DEF FinalizeChangelog, Archive, Goto, CommitAs
  <2>2. pc = "walk"  BY <1>17 DEF FinalizeChangelog, Archive, At
  <2> QED  BY <1>s, <1>w, <2>1, <2>2
<1>18. CASE AllTagged \/ AllTagsPushed \/ GitHubRelease \/ PublishPipelines \/ Deploy
  <2>1. Goto("record") \/ \E n, k, tried : Stop(n, k, tried)
    BY <1>18, Zenon DEF AllTagged, AllTagsPushed, GitHubRelease, PublishPipelines, Deploy
  <2>2. pc \in {"walk", "pushtags"}
    BY <1>18 DEF AllTagged, AllTagsPushed, GitHubRelease, PublishPipelines, Deploy, At
  <2> QED  BY <1>s, <1>w, <2>1, <2>2 DEF Goto
<1>19. CASE PushBranch
  <2>1. pc' = "pushtags" \/ \E n, k, tried : Stop(n, k, tried)
    BY <1>19, Zenon DEF PushBranch
  <2> QED  BY <1>l, <1>s, <2>1
<1>20. CASE PostReleaseHooks
  <2>1. pc = "walk" /\ step = PostReleaseHooksRun  BY <1>20 DEF PostReleaseHooks, At
  <2>2. \/ Goto("record")
        \/ Goto("epilogue") /\ st' = Fail(st, PostReleaseHooksRun)
    BY <1>20 DEF PostReleaseHooks
  <2>3. CASE Goto("epilogue") /\ st' = Fail(st, PostReleaseHooksRun)
    <3>1. st'.done = st.done \ {PostReleaseHooksRun} /\ pc' = "epilogue"
      BY <1>b, <2>3 DEF Fail, State, Goto
    <3>2. Sealed(st')  BY <1>d, <2>1, <3>1 DEF Sealed
    <3> QED  BY <3>1, <3>2 DEF Windowed, Untried
  <2> QED  BY <1>w, <2>1, <2>2, <2>3 DEF Goto
<1>21. ASSUME NEW t \in Tags, Tag(t) \/ PushTag(t) PROVE Windowed'
  <2>1. UNCHANGED <<procVars, st>> \/ \E n, k, tried : Stop(n, k, tried)
    BY <1>21, Zenon DEF Tag, PushTag
  <2> QED  BY <1>s, <1>u, <2>1
<1>22. CASE StepError  BY <1>22, <1>s DEF StepError
<1>23. CASE Env
  BY <1>23, <1>u DEF Env, CommitOnBranch, CommitOnOrigin, ChangelogAdd, Pull, StrayTag, EnvOnly
<1> QED
  BY <1>i, <1>1, <1>2, <1>3, <1>4, <1>5, <1>6, <1>7, <1>8, <1>9, <1>10, <1>11, <1>12, <1>13, <1>14,
     <1>15, <1>16, <1>17, <1>18, <1>19, <1>20, <1>21, <1>22, <1>23 DEF Next, Operator, Walk

\* Every step keeps the state awaited where the release stands: what comes to
\* stand where origin is had CI there, or owes a dispatch.
LEMMA AwaitedKept ==
    "crash-in-discard" \notin Faults /\ Grounded /\ pc' # "clear" => Awaited(st, Standing)'
<1> SUFFICES ASSUME "crash-in-discard" \notin Faults, Grounded, pc' # "clear",
                    st'.ver # 0, Committed \in st'.done, ~Sealed(st'), Standing' = origin',
                    ~OriginRan', st'.runall # origin'
             PROVE  FALSE
  BY DEF Awaited, Sealed
<1> USE StepsAre
<1>i. /\ Structure /\ Structure' /\ Accounted /\ Accounted' /\ Holding /\ Traceless /\ Reached /\ Mine
      /\ Promised /\ Windowed /\ Next
      /\ Placed /\ Position /\ Bumped /\ Backing /\ OriginFollows /\ Recorded
  BY DEF Grounded, Accounted, Traceless
<1>g. /\ LogOK /\ LogOK' /\ LogGrows /\ LogClosed /\ Len(log) \in Nat /\ Len(log') \in Nat
      /\ branch \in Commits /\ origin \in Commits
      /\ pc \in Walking => head \in Commits /\ tip \in Commits
      /\ pc \in Walking => tip \in Anc(branch) /\ tip \in Anc(head)
      /\ st \in State
  BY <1>i, Footing
<1>a. ASSUME NEW c \in Commits, NEW d \in Commits, c \in Anc(d), d \in Anc(c) PROVE c = d
  <2>1. c <= d /\ d <= c /\ c \in Nat /\ d \in Nat  BY <1>a, <1>g DEF LogOK, Commits
  <2> QED  BY <2>1
<1>m. \/ Begin \/ Clear
      \/ /\ st'.ver = st.ver
         /\ \/ Committed \in st'.done <=> Committed \in st.done
            \/ Record /\ step = Committed /\ Committed \in st'.done
         /\ \/ st'.runall = st.runall
            \/ Judge /\ st'.runall = cand
            \/ Dispatch /\ origin \in ran'
  BY <1>i, Marks
<1>b. ~Begin  BY <1>i DEF Begin, NoState, Endings, Traceless
<1>v. Clear \/ Sealed(st) => Clear \/ Adopt \/ GateRefuses
  <2>1. Kin(st, st') => ~Sealed(st)  BY DEF Kin, Sealed
  <2>2. Record => ~Sealed(st)  BY <1>g DEF Record, Complete, State, Sealed
  <2> QED  BY <1>b, <1>i, <2>1, <2>2, StateMoves
<1>1. UNCHANGED origin /\ ~OriginRan
  <2>1. ~(Push /\ OriginTakes(cand))
    <3> SUFFICES ASSUME Push, OriginTakes(cand) PROVE FALSE  OBVIOUS
    <3>1. pc = "push" /\ ~Begin /\ ~Clear /\ ~Judge /\ ~Dispatch
      BY DEF Push, Begin, Clear, Judge, Dispatch
    <3>2. origin' = cand /\ (~Workspace \/ Triggers(origin, cand) => cand \in ran')
      BY DEF OriginTakes
    <3>3. ~Workspace \/ Triggers(origin, cand) \/ st.runall = cand
      BY <1>i, <3>1 DEF Windowed, OriginTakes
    <3> QED  BY <1>m, <3>1, <3>2, <3>3 DEF OriginRan
  <2>2. ~(PushBranch /\ OriginTakes(branch))
    <3> SUFFICES ASSUME PushBranch PROVE FALSE  OBVIOUS
    <3>1. pc = "walk" /\ step = Pushed  BY DEF PushBranch, At
    <3>2. Sealed(st)  BY <1>i, <3>1, PushedSealed DEF BeforePush, Walking, Places
    <3> QED  BY <1>v, <3>1, <3>2 DEF Clear, Adopt, GateRefuses
  <2> QED  BY <1>i, <2>1, <2>2, OriginMoves
<1>2. ~(Judge /\ st'.runall = cand) /\ ~(Dispatch /\ origin \in ran')
  <2>1. ~(Dispatch /\ origin \in ran')  BY <1>1 DEF OriginRan
  <2>2. ASSUME Judge, st'.runall = cand PROVE FALSE
    <3>1. pc = "judge" /\ cand = tip /\ UNCHANGED repoVars  BY <1>i, <2>2 DEF Judge, Bumped
    <3>2. CASE pc' \in Walking
      <4>1. Standing' = tip
        BY <1>i, <3>1, <3>2, MemoryStep DEF Standing, Walking, Places, Advance, Discard
      <4> QED  BY <2>2, <3>1, <4>1
    <3>3. CASE pc' \notin Walking
      <4>1. branch = origin /\ (OriginRan \/ origin \in Anc(tip))
        BY <1>1, <1>i, <3>1, <3>3 DEF Standing, repoVars, Reached, BeforePush, Walking, Places
      <4>2. branch \in Anc(tip) /\ tip \in Anc(branch) /\ tip \in Commits
        BY <1>1, <1>g, <3>1, <4>1 DEF Walking, Places
      <4>3. branch = tip  BY <1>a, <1>g, <4>2
      <4> QED  BY <1>1, <2>2, <3>1, <4>1, <4>3
    <3> QED  BY <3>2, <3>3
  <2> QED  BY <2>1, <2>2
<1>3. CASE Clear
  <2>1. /\ pc = "clear" /\ pc \in Walking /\ st' = StateBefore /\ pc' = "idle" /\ UNCHANGED <<log, branch>>
    BY <1>3 DEF Clear, Stopped, repoVars, Walking, Places
  <2>2. mode = "resume" /\ st' = entry  BY <2>1 DEF StateBefore, NoState
  <2>3. ~pushed /\ last = NoCommit  BY <1>i, <2>1 DEF Backing, PastPush
  <2>4. Awaited(entry, tip)  BY <1>i, <2>1, <2>2, <2>3 DEF Promised, Before
  <2>5. branch = origin /\ origin \in Anc(tip)
    BY <1>1, <1>i, <2>1 DEF Standing, Walking, Reached, BeforePush
  <2>6. branch = tip  BY <1>a, <1>g, <2>1, <2>5
  <2> QED  BY <1>1, <2>2, <2>4, <2>5, <2>6 DEF Awaited
<1>4. CASE GateRefuses
  <2>1. /\ pc = "gate" /\ pc \in Walking /\ pc' = "idle" /\ UNCHANGED <<log, branch>> /\ Foreign # {}
    BY <1>4 DEF GateRefuses, repoVars, Walking, Places
  <2>2. branch = origin /\ origin \in Anc(tip)
    BY <1>1, <1>i, <2>1 DEF Standing, Walking, Reached, BeforePush
  <2>3. branch = tip  BY <1>a, <1>g, <2>1, <2>2
  <2>4. head = tip /\ Anc(head) \ Anc(st.pin) \subseteq st.created
    BY <1>i, <2>1 DEF Position, Mine
  <2> QED  BY <2>1, <2>3, <2>4 DEF Foreign
<1>5. CASE ~Clear /\ ~GateRefuses
  <2>1. st'.ver = st.ver /\ st'.runall = st.runall  BY <1>2, <1>5, <1>b, <1>m
  <2>2. CASE Sealed(st)
    <3>1. Adopt  BY <1>5, <1>v, <2>2
    <3>2. UNCHANGED st \/ ChangelogFinalized \notin st.done \/ Adopted = {}
      BY <3>1, Zenon DEF Adopt, Adopted
    <3>3. Adopted = {} /\ ~UNCHANGED st => st' = [st EXCEPT !.pin = tip, !.done = @, !.rc = @]
      BY <3>1, Zenon DEF Adopt
    <3>4. st' = [st EXCEPT !.pin = tip, !.done = @, !.rc = @] => st'.done = st.done
      BY <1>g DEF State
    <3> QED  BY <2>2, <3>2, <3>3, <3>4 DEF Sealed
  <2>3. CASE ~Sealed(st) /\ Committed \notin st.done
    <3>1. Record /\ step = Committed  BY <1>5, <1>b, <1>m, <2>3
    <3>2. pc = "record" /\ pc \in Walking /\ Standing' = tip
      BY <3>1 DEF Record, Standing, Walking, Places
    <3>3. Has(tip, "bump", st.ver)  BY <1>i, <2>1, <3>1, <3>2 DEF Recorded, Effect
    <3>4. ~Has(origin, "bump", st.ver)  BY <1>i, <2>1, <2>3, <3>2 DEF Promised, Unshipped
    <3> QED  BY <1>1, <3>2, <3>3, <3>4
  <2>4. CASE ~Sealed(st) /\ Committed \in st.done
    <3>1. pc # "clear"  BY <1>5, <1>i, ClearOnly
    <3>2. Standing # origin  BY <1>1, <1>i, <2>1, <2>4, <3>1 DEF Promised, Awaited
    <3>3. ~(Advances /\ Standing' = head)
      <4>1. Advances => pc = "advance" /\ head # tip /\ pc \in Walking
        BY DEF Advances, Walking, Places
      <4>2. Advances => head \notin Anc(origin)  BY <1>i, <4>1 DEF OriginFollows
      <4> QED  BY <1>1, <1>g, <4>2 DEF LogOK
    <3>4. CASE pc \in Walking /\ Standing' = branch
      <4>1. BeforePush  BY <1>i, <2>4, <3>4, PushedSealed
      <4>2. branch = origin /\ origin \in Anc(tip)  BY <1>1, <1>i, <3>4, <4>1 DEF Reached
      <4>3. branch = tip  BY <1>a, <1>g, <3>4, <4>2
      <4> QED  BY <3>2, <3>4, <4>2, <4>3 DEF Standing
    <3>5. CASE Standing' = branch' /\ (CommitAbandoned \/ (Others /\ OthersCommit))
      <4>1. log \in Seq(CommitRecord) /\ branch' = Next1
        BY <1>i, <3>5 DEF Structure, TypeOK, Repository, CommitAbandoned, OthersCommit
      <4> QED  BY <1>1, <1>g, <3>5, <4>1 DEF Commits, Next1
    <3>6. CASE Others /\ OthersPull  BY <1>1, <1>i, <3>6 DEF OthersPull, Reached
    <3> QED  BY <1>1, <1>i, <3>2, <3>3, <3>4, <3>5, <3>6, StandingMoves
  <2> QED  BY <2>2, <2>3, <2>4
<1> QED  BY <1>3, <1>4, <1>5

\* What origin has of a release's bump it had, but for what the release pushes.
LEMMA BumpsOff ==
    ASSUME Grounded, NEW v, ~Has(origin, "bump", v)
    PROVE  ~Has(origin, "bump", v)' \/ (Pushes /\ ~UNCHANGED origin)
<1>g. /\ Structure /\ Structure' /\ Accounted /\ Accounted' /\ Next
      /\ LogOK /\ LogGrows /\ LogClosed /\ Len(log) \in Nat /\ Len(log') \in Nat /\ origin \in Commits
  BY Footing DEF Grounded
<1>1. PICK o : o = origin  OBVIOUS
<1>2. CASE UNCHANGED origin  BY <1>1, <1>2, <1>g, CommitStays
<1>3. CASE /\ Others /\ OthersPush /\ Bumps(origin)' = Bumps(origin)
           /\ Anc(origin)' = Anc(origin) \cup {origin'} /\ origin' \notin Commits
  <2>1. \A d \in Anc(o) : d \in Commits /\ log'[d] = log[d]
    BY <1>1, <1>g DEF LogOK, LogGrows, Commits
  <2>2. ASSUME NEW d \in Anc(origin)', log'[d].kind = "bump", log'[d].ver = v PROVE FALSE
    <3>1. d \in Bumps(o)  BY <1>1, <1>3, <2>2 DEF Bumps
    <3>2. d \in Anc(o) /\ log[d].kind = "bump" /\ log[d].ver = v
      BY <2>1, <2>2, <3>1 DEF Bumps
    <3> QED  BY <1>1, <3>2 DEF Has
  <2> QED  BY <2>2 DEF Has
<1> QED  BY <1>2, <1>3, <1>g, OriginGains

\* Every step keeps origin without the bump of a release that has not made its commit.
LEMMA UnshippedKept ==
    "crash-in-discard" \notin Faults /\ Grounded /\ pc' # "clear" => Unshipped(st)'
<1> SUFFICES ASSUME "crash-in-discard" \notin Faults, Grounded, pc' # "clear",
                    st'.ver # 0, Committed \notin st'.done
             PROVE  ~Has(origin, "bump", st.ver)'
  BY DEF Unshipped
<1>i. /\ Structure /\ Accounted /\ Holding /\ Traceless /\ Promised /\ Next
      /\ Placed /\ Bumped /\ Backing /\ OriginFollows /\ Endings
  BY DEF Grounded, Accounted, Traceless
<1>1. PICK v : v = st'.ver  OBVIOUS
<1>2. CASE ~Has(origin, "bump", v) /\ ~(Pushes /\ ~UNCHANGED origin)
  BY <1>1, <1>2, BumpsOff
<1>3. CASE Begin
  <2>1. /\ pc = "prepared" /\ UNCHANGED origin /\ st.ver = 0 /\ mode = "fresh"
        /\ st' = [NoState EXCEPT !.ver = VersionOf(head) + 1, !.pin = head]
    BY <1>3, <1>i DEF Begin, repoVars, Endings
  <2>2. v = VersionOf(head) + 1  BY <1>1, <2>1 DEF NoState
  <2>3. VersionOf(head) + 1 \in Version  BY <1>i, <2>1 DEF Structure, RefsOK
  <2>4. ~Has(head, "bump", v)
    <3>1. v \in Version /\ VersionOf(head) \in 0..MaxVersion  BY <2>2, <2>3, LastBump
    <3> QED  BY <2>2, <3>1, NothingAbove, ReleaseAssumption DEF Version
  <2>5. Bumps(origin) \subseteq Bumps(head)
    BY <1>i, <2>1 DEF OriginFollows, Walking, Places
  <2>6. ~Has(origin, "bump", v)  BY <2>4, <2>5, BumpsHave
  <2> QED  BY <1>2, <2>1, <2>6
<1>4. CASE Clear
  <2>1. pc = "clear" /\ pc \in Walking /\ st' = StateBefore /\ UNCHANGED origin
    BY <1>4 DEF Clear, repoVars, Walking, Places
  <2>2. mode = "resume" /\ st' = entry  BY <2>1 DEF StateBefore, NoState
  <2>3. ~pushed  BY <1>i, <2>1 DEF Backing, PastPush
  <2>4. ~Has(origin, "bump", v)  BY <1>1, <1>i, <2>1, <2>2, <2>3 DEF Promised, Unshipped
  <2> QED  BY <1>2, <2>1, <2>4
<1>5. CASE ~Begin /\ ~Clear
  <2>1. st'.ver = st.ver /\ Committed \notin st.done  BY <1>5, <1>i, Marks
  <2>2. pc # "clear"  BY <1>5, <1>i, ClearOnly DEF Grounded
  <2>3. ~Has(origin, "bump", v)  BY <1>1, <1>i, <2>1, <2>2 DEF Promised, Unshipped
  <2>4. ~Pushes  BY <1>i, <2>1 DEF Pushes, Holding, PastPush
  <2> QED  BY <1>2, <2>3, <2>4
<1> QED  BY <1>3, <1>4, <1>5

\* And the same of the state a resume found, which a discard puts back.
LEMMA EntryPromised ==
    ASSUME "lost-report" \notin Faults, Grounded, mode' = "resume",
           pc' \in Walking \ {"entered"}, ~pushed'
    PROVE  (Awaited(entry, Before) /\ Unshipped(entry))'
<1> USE StepsAre
<1>i. /\ Structure /\ Structure' /\ Accounted /\ Accounted' /\ Traceless /\ Promised /\ Next
      /\ Placed /\ Position /\ Backing /\ Endings
  BY DEF Grounded, Accounted, Traceless
<1>g. pc \in Walking => head \in Commits /\ tip \in Commits  BY <1>i, Footing
<1>1. pc \in Walking /\ mode = "resume"
  BY <1>i, MemoryStep DEF EnterFresh, EnterResume, Enter
<1>2. ~pushed  BY <1>1, <1>i, PushedKept DEF Backing
<1>3. \/ UNCHANGED origin /\ (OriginRan => OriginRan')
      \/ OriginRan' /\ ~Pushes
  <2>1. CASE Push /\ OriginTakes(cand)
    <3>1. UNCHANGED log /\ Pushes  BY <2>1 DEF Push, OriginTakes, Pushes, IsAncestor
    <3>2. UNCHANGED origin  BY <1>2, <1>i, <3>1, PushKnown DEF Backing
    <3>3. OriginRan => OriginRan'  BY <1>i, <3>1, <3>2, RunsStay DEF OriginRan
    <3> QED  BY <3>2, <3>3
  <2>3. ~PushBranch  BY <1>2, <1>i DEF PushBranch, At, Backing, PastPush
  <2>2. Others /\ OthersPush => ~Pushes
    <3>1. log \in Seq(CommitRecord)  BY <1>i DEF Structure, TypeOK, Repository
    <3> QED  BY <3>1 DEF OthersPush, Pushes, Extend
  <2> QED  BY <1>i, <2>1, <2>2, <2>3, OriginMoves
<1>4. CASE Adopt /\ pc = "entered"
  <2>1. entry' = st /\ UNCHANGED <<log, origin, ran, tip, last>>
    BY <1>4 DEF Adopt, Stopped, Walking, repoVars, ciVars
  <2>2. last = NoCommit /\ Standing = tip /\ Before' = tip
    BY <1>1, <1>4, <1>i, <2>1 DEF Position, Standing, Before
  <2>3. Awaited(st, tip) /\ Unshipped(st)  BY <1>4, <1>i, <2>2 DEF Promised
  <2>4. Awaited(entry, Before)'
    <3>1. PICK c, e : c = tip /\ c = Before' /\ e = st /\ e = entry'  BY <2>1, <2>2
    <3>2. Awaited(e, c)  BY <2>3, <3>1
    <3>3. (Awaited(e, c))'  BY <2>1, <3>2 DEF Awaited, OriginRan
    <3> QED  BY <3>1, <3>3 DEF Awaited
  <2>5. Unshipped(entry)'  BY <2>1, <2>3 DEF Unshipped, Has, Anc
  <2> QED  BY <2>4, <2>5
<1>5. CASE ~(Adopt /\ pc = "entered")
  <2>1. pc # "entered"  BY <1>1, <1>5, <1>i, Turns DEF Validate, Begin, procVars, Adopt
  <2>2. UNCHANGED entry  BY <1>1, <1>i, <2>1, MemoryStep DEF Adopt
  <2>3. Awaited(entry, Before) /\ Unshipped(entry)  BY <1>1, <1>2, <1>i, <2>1 DEF Promised
  <2>4. Before' = Before
    <3>1. CASE UNCHANGED <<tip, last>>  BY <3>1 DEF Before
    <3>2. CASE Advances
      <4>1. pc = "advance" /\ step = Committed
        BY <1>2, <1>i, <3>2 DEF Advances, Backing, PastPush
      <4>2. last = NoCommit  BY <1>i, <4>1 DEF Backing
      <4>3. tip # NoCommit  BY <1>1, <1>g DEF Commits, NoCommit
      <4> QED  BY <3>2, <4>2, <4>3 DEF Before, Advances
    <3>3. CASE GivesBack  BY <3>3 DEF GivesBack, Before
    <3> QED  BY <1>1, <1>i, <3>1, <3>2, <3>3, HeadStep DEF OwnCommit, CommitsOwn, Walking
  <2>5. Awaited(entry, Before)'
    <3>1. PICK c, e : c = Before /\ c = Before' /\ e = entry /\ e = entry'  BY <2>2, <2>4
    <3>2. Awaited(e, c)  BY <2>3, <3>1
    <3>3. (Awaited(e, c))'  BY <1>3, <3>2 DEF Awaited
    <3> QED  BY <3>1, <3>3 DEF Awaited
  <2>6. Unshipped(entry)'
    <3>1. PICK e : e = entry /\ e = entry'  BY <2>2
    <3>2. ~Has(origin, "bump", e.ver) => ~Has(origin, "bump", e.ver)'  BY <1>3, BumpsOff
    <3>3. Unshipped(e)  BY <2>3, <3>1
    <3>4. (Unshipped(e))'  BY <3>2, <3>3 DEF Unshipped
    <3> QED  BY <3>1, <3>4 DEF Unshipped
  <2> QED  BY <2>5, <2>6
<1> QED  BY <1>4, <1>5

\* At first the base's own CI ran and nothing waits.
LEMMA InitHopeful ==
    ASSUME Init
    PROVE  Hopeful
<1>1. /\ Anc(1) = {1} /\ origin = 1 /\ branch = 1 /\ 1 \in ran /\ pc = "idle" /\ mode = "none"
      /\ st = NoState /\ pushed = FALSE /\ attempted = FALSE
  BY DEF Init, Anc
<1>2. Shipping
  BY DEF Init, Shipping, Pinned, PastGuard, NoState, Standing, NoCommit, Walking, Places
<1>3. Holding  BY <1>1 DEF Holding, PastPush, PastGate, Waiting, Walking
<1>4. Reached  BY <1>1 DEF Reached, OriginRan, BeforePush, Walking, Places
<1>5. Mine  BY <1>1 DEF Mine, Walking, Places
<1>6. Promised  BY <1>1 DEF Promised, Awaited, Unshipped, NoState
<1>7. Windowed  BY <1>1 DEF Windowed
<1> QED  BY <1>2, <1>3, <1>4, <1>5, <1>6, <1>7, InitTraceless DEF Hopeful

LEMMA HopefulStutters ==
    ASSUME Hopeful, Traceless', Shipping', UNCHANGED vars
    PROVE  Hopeful'
<1>1. /\ UNCHANGED <<log, branch, origin, ran, st, loose>>
      /\ UNCHANGED <<pc, mode, step, tip, head, last, pushed, attempted, cand, entry>>
  BY DEF vars, procVars
<1>2. /\ \A c : Anc(c)' = Anc(c)
      /\ \A c, k, v : Has(c, k, v)' = Has(c, k, v)
      /\ (Triggers(origin, cand)' <=> Triggers(origin, cand))
  BY <1>1 DEF Anc, Has, Triggers
<1>3. Holding'  BY <1>1, <1>2 DEF Hopeful, Holding, PastPush, PastGate, Waiting
<1>4. Reached' /\ Mine'  BY <1>1, <1>2 DEF Hopeful, Reached, Mine, OriginRan, BeforePush
<1>5. Promised'
  BY <1>1, <1>2 DEF Hopeful, Promised, Awaited, Unshipped, OriginRan, Standing, Before
<1>6. Windowed'  BY <1>1, <1>2 DEF Hopeful, Windowed, Untried, IsAncestor
<1> QED  BY <1>3, <1>4, <1>5, <1>6 DEF Hopeful

LEMMA HopefulKept ==
    ASSUME "crash-in-discard" \notin Faults, "lost-report" \notin Faults, Structure, Structure',
           Accounted, Accounted', Hopeful, [Next]_vars
    PROVE  Hopeful'
<1>1. Shipping'  BY ShippingKept DEF Hopeful
<1>2. CASE Next
  <2>1. Holding'  BY <1>2, HoldingKept DEF Hopeful
  <2>2. Traceless'
    BY <1>2, BackingKept, OriginFollowsKept, BumpsOwnedKept, EndingsKept DEF Hopeful, Traceless
  <2>3. Grounded  BY <1>1, <1>2, <2>1, <2>2 DEF Hopeful, Grounded
  <2>4. Reached' /\ Mine' /\ Windowed'  BY <2>3, ReachedKept, MineKept, WindowedKept
  <2>5. Promised'  BY <2>3, AwaitedKept, UnshippedKept, EntryPromised DEF Promised
  <2> QED  BY <1>1, <2>1, <2>2, <2>4, <2>5 DEF Hopeful
<1>3. CASE UNCHANGED vars  BY <1>1, <1>3, HopefulStutters, TracelessStutters DEF Hopeful
<1> QED  BY <1>2, <1>3

\* A wait for CI can end in a pass, however the release was interrupted and
\* resumed and whatever others pushed meanwhile: the members' CI ran on its
\* candidate or a dispatch is owed there - unless a push's report is lost or the
\* process dies between the two halves of a discard.
THEOREM WaitsCanPass ==
    ASSUME "crash-in-discard" \notin Faults, "lost-report" \notin Faults
    PROVE  Spec => []NoHopelessWait
<1>1. Init => Accounted /\ Hopeful  BY InitAccounted, InitHopeful
<1>2. Structure /\ Structure' /\ Accounted /\ [Next]_vars => Accounted'  BY AccountedKept
<1>3. Structure /\ Structure' /\ Accounted /\ Accounted' /\ Hopeful /\ [Next]_vars => Hopeful'
  BY HopefulKept
<1>4. Hopeful => NoHopelessWait  BY DEF Hopeful, Windowed, NoHopelessWait
<1> QED  BY <1>1, <1>2, <1>3, <1>4, StructureHolds, PTL DEF Spec
=============================================================================
