------------------------ MODULE ReleaseInvariants ------------------------
(***************************************************************************)
(* The inductive invariants of Release, by the property each is for, and   *)
(* what their proofs in ReleaseProofs speak of.                            *)
(***************************************************************************)
EXTENDS Release

-----------------------------------------------------------------------------
(* The log only grows, and a commit's history with it never changes. *)

\* Every commit contains itself and nothing made after it.
LogOK == \A c \in Commits : c \in Anc(c) /\ Anc(c) \subseteq 1..c

\* Where the command that holds the lock has a release checkout.
Walking == Places \ {"idle", "archived", "drop"}

\* Every ref the code moves names a commit.
RefsOK ==
    /\ branch \in Commits /\ origin \in Commits
    /\ pc \in Walking => head \in Commits /\ tip \in Commits
    /\ pc \in {"judge", "push"} => cand \in Commits
    /\ last \in Commits \cup {NoCommit}
    /\ pc = "prepared" => VersionOf(head) + 1 \in Version

Structure == TypeOK /\ LogOK /\ RefsOK

\* What every step does to the log.
LogGrows ==
    /\ Len(log') >= Len(log)
    /\ \A c \in Commits : log'[c] = log[c]

-----------------------------------------------------------------------------
(* Tags are only ever put on commits CI passed on. *)

\* The step the command is at, where the proof needs it.
Placed ==
    /\ pc = "advance" => step \in {Committed, ChangelogFinalized, ReleaseArchived}
    /\ pc \in {"judge", "push"} => step = CandidatePushed
    /\ pc = "record" => step # VersionBumped
    /\ pc = "walk" => step \in ChangelogFinalized..PostReleaseHooksRun
    /\ pc = "pushtags" => step = Pushed

\* Past the verdict, the commit the state records is one CI passed on, and so
\* is the commit the command holds as its candidate past the gate.  The state
\* a resume found counts as well: a discard puts it back.
Green ==
    /\ 1 \in green
    /\ CIVerified \in st.done => st.rc \in green
    /\ CIVerified \in entry.done => entry.rc \in green
    /\ pc \in {"gate", "walk", "pushtags"} => cand \in green
    /\ pc = "advance" /\ step # Committed => cand \in green
    /\ pc = "record" /\ step \notin {Committed, CandidatePushed} => cand \in green
    /\ pc = "record" /\ step = CIVerified => st.rc = cand

Verified == Structure /\ Placed /\ (PushCI => Green /\ TagVerified)

-----------------------------------------------------------------------------
(* What the durable state records as completed was done. *)

\* A commit's history holds those of the commits it holds, and an archive
\* names a commit.
LogClosed == \A c \in Commits : \A d \in Anc(c) : Anc(d) \subseteq Anc(c)
ArchivesName == \A c \in Commits : log[c].kind = "archive" => log[c].of # NoCommit

\* What completing step n means for the release s records, on a branch at c.
Effect(n, s, c) ==
    s.ver # 0 =>
        /\ n = Committed => Has(c, "bump", s.ver)
        /\ n = CandidatePushed => Has(origin, "bump", s.ver)
        /\ n = CIVerified => s.rc \in Commits /\ Has(s.rc, "bump", s.ver)
        /\ n = ChangelogFinalized => Has(c, "finalize", s.ver)
        /\ n = ReleaseArchived => Has(c, "archive", s.ver)
        /\ n = Tagged => \A t \in Tags : ltag[s.ver][t] # NoCommit
        /\ n = Pushed => \A t \in Tags : otag[s.ver][t] # NoCommit
        /\ n = GitHubReleaseCreated => grel[s.ver] # NoCommit
        /\ n = PipelinesPublished => pub[s.ver] # NoCommit
        /\ n = Deployed => dep[s.ver] # NoCommit
Told(s, c) == \A n \in s.done : Effect(n, s, c)

\* Where the release left the branch, and where a discard would leave it.
Standing == IF pc \in Walking THEN tip ELSE branch
Before   == IF last = NoCommit THEN tip ELSE last

\* The checkout is where the release left the branch, or one commit ahead of
\* it while that commit is not on the branch; the branch is there or further.
\* Before the walk there is nothing to take back.
Position ==
    /\ pc \in Walking =>
          /\ tip \in Anc(branch) /\ tip \in Anc(head)
          /\ pc \notin {"advance", "discard", "clear"} => head = tip
          /\ last # NoCommit => last \in Anc(tip)
    /\ pc \notin Walking \/ pc = "entered" => last = NoCommit /\ entry = NoState

\* A step the walk has left behind is recorded, as completed or failed.
Walked(s) == s.done \cup s.failed
Entries(s) ==
    /\ Committed \in s.done => VersionBumped \in Walked(s)
    /\ CIVerified \in s.done => {VersionBumped, Committed, CandidatePushed} \subseteq Walked(s)
Behind ==
    /\ Entries(st) /\ Entries(entry)
    /\ pc \in {"advance", "record", "walk", "pushtags"} => 1..(step - 1) \subseteq Walked(st)
    /\ pc \in {"candidate", "judge", "push"} => {VersionBumped, Committed} \subseteq Walked(st)
    /\ pc = "verify" => {VersionBumped, Committed, CandidatePushed} \subseteq Walked(st)
    /\ pc = "gate" => {VersionBumped, Committed, CandidatePushed, CIVerified} \subseteq Walked(st)
    /\ pc = "epilogue" => Steps \subseteq Walked(st)

\* The candidate is the commit the release left the branch at when it was
\* pushed, and holds the bump.
Bumped ==
    /\ pc \in {"candidate", "judge", "push"} => Committed \in st.done
    /\ pc \in {"judge", "push"} => cand = tip
    /\ \/ pc \in {"verify", "gate", "walk", "pushtags"}
       \/ pc \in {"advance", "record"} /\ step # Committed
       => cand \in Commits /\ (st.ver # 0 => Has(cand, "bump", st.ver))

\* The state is true but in the middle of a discard, what it was when a
\* resume found it is true where a discard would leave the branch, and the step
\* under way has had its effect when it is recorded.
Recorded ==
    /\ pc # "clear" => Told(st, Standing)
    /\ mode = "resume" /\ pc \in Walking => Told(entry, Before)
    /\ pc = "advance" => Effect(step, st, head)
    /\ pc = "record" => Effect(step, st, tip)

\* What everybody's steps leave in place: the commits, what origin holds, the
\* tags, the Releases and what was published and deployed.
WorldGrows ==
    /\ LogGrows
    /\ origin \in Anc(origin)'
    /\ \A v \in Version, t \in Tags :
           /\ ltag[v][t] # NoCommit => ltag'[v][t] # NoCommit
           /\ otag[v][t] # NoCommit => otag'[v][t] # NoCommit
    /\ \A v \in Version :
           /\ grel[v] # NoCommit => grel'[v] # NoCommit
           /\ pub[v] # NoCommit => pub'[v] # NoCommit
           /\ dep[v] # NoCommit => dep'[v] # NoCommit

-----------------------------------------------------------------------------
(* Where the tags are. *)

\* What the record of a release rests on.
Accounted == Placed /\ LogClosed /\ ArchivesName /\ Position /\ Behind /\ Bumped /\ Recorded

\* A tag here is at a commit, which holds its version's bump.
TagsPlaced ==
    \A v \in Version, t \in Tags :
        ltag[v][t] # NoCommit => ltag[v][t] \in Commits /\ Has(ltag[v][t], "bump", v)

-----------------------------------------------------------------------------
(* What a release ships is described. *)

\* A commit that v may be tagged at: its user-facing commits have entries, or
\* it was made after v's changelog was settled.
Described(c, v) == c \in Commits /\ (Uncovered(c) = {} \/ Has(c, "finalize", v))

\* A release's state is pinned at a described commit of a branch at c; the
\* commits it made are nobody's work, and the candidate CI passed on is described.
Pinned(s, c) ==
    s.ver # 0 =>
        /\ s.pin \in Anc(c) /\ Described(s.pin, s.ver)
        /\ \A d \in s.created : d \in Commits /\ log[d].kind # "work"
        /\ CIVerified \in s.done => Described(s.rc, s.ver)

\* The candidate was made and passed the guard at its push.
PastGuard ==
    \/ pc \in {"push", "verify", "gate", "walk", "pushtags"}
    \/ pc \in {"advance", "record"} /\ step # Committed

Shipping ==
    /\ log[1].kind = "base"
    /\ pc # "clear" => Pinned(st, Standing)
    /\ mode = "resume" /\ pc \in Walking => Pinned(entry, Before)
    /\ PastGuard /\ st.ver # 0 => Described(cand, st.ver)
    /\ pc = "record" /\ step = CIVerified => st.rc = cand
    /\ \A v \in Version, t \in Tags : otag[v][t] # NoCommit => Described(otag[v][t], v)

-----------------------------------------------------------------------------
(* A version's archive, tags and Release tell one story. *)

\* The records of versions' fates a commit holds.
FatesAt(c) == {d \in Anc(c) : log[d].kind \in {"archive", "never"}}

\* A commit holds one archive of a version at most, and none of a version it
\* records as never released.
Clean(c) ==
    \A v \in Version :
        /\ \A d, e \in Of(c, "archive", v) : d = e
        /\ ~(Has(c, "archive", v) /\ Has(c, "never", v))

\* An archive is committed on top of its version's bump and finalized changelog.
ArchivesFollow ==
    \A d \in Commits, v \in 0..MaxVersion :
        log[d].kind = "archive" /\ log[d].ver = v => Has(d, "bump", v) /\ Has(d, "finalize", v)

\* What was put on a branch at c for v names the commit its archive does, or
\* one made anew.
Tells(x, c, v) == x = ArchivedAt(c, v) \/ Reopened(x, v)

\* A release whose archive a branch at c holds is past the verdict, with the
\* archived commit or one made anew as its candidate, its changelog finalized and
\* nobody else's commit since its pin; or the branch has another commit on top of its changelog.
Settled(s, c) ==
    s.ver # 0 /\ Has(c, "archive", s.ver) =>
        /\ CIVerified \in s.done => Tells(s.rc, c, s.ver)
        /\ \/ Reopened(c, s.ver)
           \/ /\ {CIVerified, ChangelogFinalized} \subseteq s.done
              /\ Anc(c) \ Anc(s.pin) \subseteq s.created

\* The command has its candidate on origin.
PastPush == \/ pc \in {"verify", "gate", "walk", "pushtags", "epilogue"}
            \/ pc \in {"advance", "record"} /\ step # Committed

\* The command has a candidate CI has not passed on.
Waiting == \/ pc \in {"judge", "push", "verify"}
           \/ pc = "record" /\ step \in {CandidatePushed, CIVerified}

\* The command is past the gate.
PastGate == \/ pc \in {"walk", "pushtags"}
            \/ pc \in {"advance", "record"} /\ step >= ChangelogFinalized

\* Where everybody leaves the branch and origin.
Kept ==
    /\ ArchivesFollow
    /\ Clean(branch) /\ (pc \in Walking => Clean(head))
    /\ FatesAt(origin) \subseteq FatesAt(branch)
    /\ pc \in Walking => FatesAt(branch) \subseteq FatesAt(tip)
    /\ origin \in Anc(branch) \/ log[origin].kind \notin {"finalize", "archive"}
    /\ pc \in Walking => \/ branch = tip
                         \/ \A v \in Version : Has(tip, "finalize", v) => Reopened(branch, v)

\* What a discard takes back is the release commit, whose candidate's push
\* has not been seen to succeed.
Backing ==
    /\ pushed <=> PastPush
    /\ \/ pc \in {"entered", "prepared", "guard", "bump", "clear"}
       \/ pc = "advance" /\ step = Committed
       => last = NoCommit
    /\ pc \in Walking /\ last # NoCommit /\ ~pushed =>
           /\ Anc(tip) \subseteq Anc(last) \cup {tip}
           /\ log[tip].kind \notin {"finalize", "archive", "never"}
    /\ pc = "advance" /\ step = Committed =>
           /\ Anc(head) \subseteq Anc(tip) \cup {head}
           /\ head # tip => log[head].kind = "bump"

\* What the walk has recorded and holds.
Holding ==
    /\ pc \in Walking => st.ver # 0 \/ (pc \in {"entered", "prepared"} /\ mode = "fresh")
    /\ pc \in {"candidate", "judge", "push"} \/ PastPush => Committed \in st.done
    /\ pc = "advance" => step \notin st.done
    /\ pc = "verify" => step = CandidatePushed
    /\ Waiting => cand = tip /\ CIVerified \notin st.done
    /\ pc = "record" /\ step = CIVerified => st.rc = cand
    /\ pc = "gate" \/ PastGate => CIVerified \in st.done /\ st.rc = cand
    /\ PastGate => /\ 4..(step - 1) \subseteq st.done
                   /\ Anc(head) \ Anc(st.pin) \subseteq st.created

\* Nothing but what a release put there bears a version's name, and a release
\* puts its archive first.
Labelled ==
    /\ \A v \in Version :
          /\ \A t \in Tags : \A x \in {ltag[v][t], otag[v][t]} :
                x # NoCommit =>
                    x \in Commits /\ Has(branch, "archive", v) /\ Tells(x, branch, v)
          /\ grel[v] # NoCommit => Has(branch, "archive", v) /\ grel[v] = ArchivedAt(branch, v)
    /\ loose # 0 => ~Has(branch, "archive", loose)
    /\ pc \in Walking => loose = 0

Storied ==
    /\ Kept /\ Backing /\ Holding /\ Labelled
    /\ pc # "clear" => Settled(st, Standing)
    /\ pc = "advance" => Settled(st, head)
    /\ mode = "resume" /\ pc \in Walking /\ ~pushed => Settled(entry, Before)

\* What a step that leaves a release's verdict and pin alone does to its state.
Kin(s, r) ==
    /\ r.ver = s.ver /\ r.pin = s.pin /\ s.created \subseteq r.created
    /\ CIVerified \in r.done => CIVerified \in s.done /\ r.rc = s.rc
    /\ {CIVerified, ChangelogFinalized} \subseteq s.done =>
           {CIVerified, ChangelogFinalized} \subseteq r.done

\* The ways a step touches the branch, origin and the log: it advances the
\* branch, takes it back, commits in the checkout, records a version never
\* released, or pushes; or somebody else commits, pulls or pushes.
Advances ==
    /\ pc = "advance" /\ pc' = "record" /\ head # tip /\ branch = tip
    /\ branch' = head /\ tip' = head /\ last' = tip
    /\ UNCHANGED <<log, origin, st, mode, step, head, pushed, attempted, cand, entry>>
GivesBack ==
    /\ pc = "discard" /\ pc' = "clear" /\ last # NoCommit /\ branch = tip
    /\ branch' = last /\ tip' = last /\ last' = NoCommit
    /\ UNCHANGED <<log, origin, st, mode, step, head, pushed, attempted, cand, entry>>
CommitsOwn(k, c) ==
    /\ pc' = "advance" /\ log' = Extend({head}, k, st.ver, c) /\ head' = Next1
    /\ st'.created = st.created \cup {Next1}
    /\ UNCHANGED <<branch, origin, mode, tip, last, pushed, attempted, cand, entry>>
OwnCommit ==
    \/ Bump /\ CommitsOwn("bump", NoCommit)
    \/ FinalizeChangelog /\ CommitsOwn("finalize", NoCommit)
    \/ Archive /\ CommitsOwn("archive", cand) /\ ~ArchiveRefuses
               /\ ArchivedAt(head, st.ver) = NoCommit
Pushes ==
    /\ origin \in Anc(origin') /\ UNCHANGED <<log, branch>>
    /\ \/ pc = "push" /\ origin' = cand
       \/ pc = "walk" /\ origin' = branch
OthersCommit ==
    /\ \E P \in SUBSET {branch, origin}, k \in {"work", "aside", "entry", "merge"} :
           branch \in P /\ log' = Extend(P, k, 0, NoCommit)
    /\ branch' = Next1 /\ UNCHANGED origin
OthersPull == UNCHANGED <<log, origin>> /\ branch' = origin /\ branch \in Anc(origin) /\ origin \notin Anc(branch)
OthersPush ==
    /\ \E k \in {"work", "aside"} : log' = Extend({origin}, k, 0, NoCommit)
    /\ origin' = Next1 /\ UNCHANGED branch
Others == UNCHANGED <<procVars, st, loose>> /\ (OthersCommit \/ OthersPull \/ OthersPush)

\* A step adds the commit b on the parents P, which holds what they hold.
Adds(P, k, v, c, b) ==
    /\ b \in Commits' /\ Commits' = Commits \cup {b} /\ b \notin Commits
    /\ \A d : d \in Anc(b)' <=> d = b \/ \E p \in P : d \in Anc(p)
    /\ log'[b].kind = k /\ log'[b].ver = v /\ log'[b].of = c
    /\ \A w, n : Has(b, w, n)' <=>
           (w = k /\ n = v) \/ \E p \in P : Has(p, w, n)
    /\ \A d : d \in FatesAt(b)' <=>
           (d = b /\ k \in {"archive", "never"}) \/ \E p \in P : d \in FatesAt(p)

\* The same of one on a single parent.
AddsOn(p, k, v, c, b) ==
    /\ b \in Commits' /\ Commits' = Commits \cup {b} /\ b \notin Commits
    /\ Anc(b)' = Anc(p) \cup {b} /\ b \notin Anc(p)
    /\ log'[b].kind = k /\ log'[b].ver = v /\ log'[b].of = c
    /\ \A w, n : Has(b, w, n)' <=> (w = k /\ n = v) \/ Has(p, w, n)
    /\ \A d : d \in FatesAt(b)' <=> d \in FatesAt(p) \/ (d = b /\ k \in {"archive", "never"})
    /\ \A d \in Anc(p) : log'[d] = log[d]

\* What the invariants say of a step and its two states, together.
Steady == Structure /\ Accounted /\ Shipping /\ Storied

\* The places before the release commit is on the branch, or where it is off again.
Early == \/ pc \in {"entered", "prepared", "guard", "bump", "clear"}
         \/ pc = "advance" /\ step = Committed

\* The gate refuses a release somebody committed next to.
GateRefuses ==
    /\ pc = "gate" /\ Foreign # {} /\ pc' = "idle" /\ UNCHANGED repoVars
    /\ st' = Fail(st, ChangelogFinalized)

-----------------------------------------------------------------------------
(* A discarded attempt leaves nothing on origin. *)

\* The version bumps a commit holds.
Bumps(c) == {d \in Anc(c) : log[d].kind = "bump"}

\* The branch says what became of a version; or a release in progress will.
Fated(v) == Has(branch, "archive", v) \/ Has(branch, "never", v)
Owned(v) == v = st.ver \/ Fated(v)

\* Origin has no bump the branch has not, and none a discard would take back;
\* a release that starts has every bump of the branch in its checkout.
OriginFollows ==
    /\ Bumps(origin) \subseteq Bumps(branch)
    /\ pc \in Walking /\ ~pushed /\ last # NoCommit => tip \notin Anc(origin)
    /\ pc = "advance" /\ head # tip => head \notin Anc(origin)
    /\ pc \in {"entered", "prepared"} /\ mode # "resume" => Bumps(branch) \subseteq Bumps(head)

\* Where a discard would leave the branch.
Base == IF last = NoCommit THEN branch ELSE last

\* Every bump on the branch or in the checkout is accounted for, and a first
\* run that has not pushed its candidate can take its own back.
BumpsOwned ==
    /\ \A v \in Version : Has(branch, "bump", v) => Owned(v)
    /\ pc \in Walking => \A v \in Version : Has(head, "bump", v) => Owned(v)
    /\ pc \in Walking \ {"entered", "prepared"} /\ mode # "resume" /\ ~pushed
           => ~Has(Base, "bump", st.ver)

\* A release ends with its version's fate recorded, whatever ends it.
Endings ==
    /\ pc = "prepared" => st.ver = 0 /\ mode = "fresh"
    /\ pc = "entered" /\ mode # "resume" /\ InProgress => Fated(st.ver)
    /\ pc \in Walking \ {"entered"} /\ mode = "resume" => entry.ver = st.ver
    /\ pc = "archived" /\ InProgress => loose = st.ver
    /\ pc = "drop" /\ InProgress => Has(branch, "never", st.ver)

Traceless == Backing /\ OriginFollows /\ BumpsOwned /\ Endings

-----------------------------------------------------------------------------
(* A wait for CI can end in a pass. *)

\* The members' CI ran on the commit origin is at, or somebody else pushed it
\* there and nothing in it calls for a run.
OriginRan == origin \in ran \/ log[origin].kind = "aside"

\* A release is past the verdict and its changelog is finalized.
Sealed(s) == {CIVerified, ChangelogFinalized} \subseteq s.done

\* If the release s records stands at c before that, and origin does too, the
\* members' CI ran there or a dispatch is owed there.
Awaited(s, c) ==
    s.ver # 0 /\ Committed \in s.done /\ ~Sealed(s) /\ c = origin =>
        OriginRan \/ s.runall = origin

\* Before a release has made its commit, origin does not have it.
Unshipped(s) == s.ver # 0 /\ Committed \notin s.done => ~Has(origin, "bump", s.ver)

\* The command has not pushed the branch past its finalization commits.
BeforePush ==
    /\ pc \in Walking /\ pc \notin {"pushtags", "epilogue"}
    /\ pc \in {"walk", "advance", "record"} => step < Pushed

\* Origin is behind the branch, and behind the checkout, but where CI ran on it.
Reached ==
    /\ OriginRan \/ origin \in Anc(branch)
    /\ BeforePush => OriginRan \/ origin \in Anc(tip)

\* What the checkout has since the pin is the release's own.
Mine == pc \in Walking \ {"entered", "prepared", "clear"} =>
            Anc(head) \ Anc(st.pin) \subseteq st.created

\* The state is awaited where the release stands, and the one a resume found
\* where a discard would leave it.
Promised ==
    /\ pc # "clear" => Awaited(st, Standing) /\ Unshipped(st)
    /\ mode = "resume" /\ pc \in Walking \ {"entered"} /\ ~pushed =>
           Awaited(entry, Before) /\ Unshipped(entry)

\* The places before the command's first push.
Untried == \/ pc \in {"idle", "entered", "prepared", "guard", "bump", "candidate", "judge", "push"}
           \/ pc \in {"advance", "record"} /\ step = Committed

\* The window a candidate is pushed in calls for a run or a dispatch is owed,
\* and a wait starts where there was one.
Windowed ==
    /\ Untried => ~attempted
    /\ pc = "push" => \/ ~Workspace \/ Triggers(origin, cand) \/ st.runall = cand
                      \/ ~IsAncestor(origin, cand)
    /\ pc = "verify" \/ (pc = "record" /\ step = CandidatePushed) =>
           cand \in ran \/ st.runall = cand \/ (log[cand].kind = "aside" /\ ~attempted)
    /\ pc = "epilogue" => Sealed(st)

Hopeful == Shipping /\ Holding /\ Traceless /\ Reached /\ Mine /\ Promised /\ Windowed

\* What a step starts and ends with here.
Grounded ==
    /\ Structure /\ Structure' /\ Accounted /\ Accounted'
    /\ Shipping /\ Shipping' /\ Holding /\ Holding' /\ Traceless /\ Traceless'
    /\ Reached /\ Mine /\ Promised /\ Windowed /\ Next
=============================================================================
