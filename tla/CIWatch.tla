------------------------------ MODULE CIWatch ------------------------------
(***************************************************************************)
(* The wait of a release for CI on its candidate (internal/ci): discovery  *)
(* of the candidate's workflow runs, the watch of each with its one rerun, *)
(* the look for late runs, the verdict and the verification that the       *)
(* releasing projects' own jobs ran; then, once the release is tagged, the *)
(* generated wait-for-ci job, which asks the same question before anything *)
(* is published.  GitHub starts, concludes and reruns runs meanwhile, and  *)
(* its answers get lost.                                                   *)
(*                                                                         *)
(* A check run is one job of a run under the name GitHub gives it: <<job,  *)
(* 0>> is the bare name, <<job, n>> the n-th entry of the job's matrix.    *)
(***************************************************************************)
EXTENDS Integers, FiniteSets

CONSTANTS
    Runs,          \* the runs GitHub may create for the candidate (ids)
    WorkflowOf,    \* [Runs -> workflow names]
    Names,         \* the check-run names the workflows' jobs have
    JobSets,       \* the sets of them that are one run's
    Projects,      \* the releasing projects with CI of their own
    JobOf,         \* [Projects -> the job its pattern matches]
    PushCI,        \* FALSE: no workflow triggers on push
    Budget,        \* the CI timeout, in units of time
    Grace,         \* the discovery grace
    MinWait,       \* the shortest completion wait worth starting
    RetryBudget,   \* the timeout of the watch of a run run again
    Rechecks,      \* how often a broken-off watch is taken up again
    Fetches,       \* how often absent check runs are asked for
    MaxFaults,     \* GitHub calls that fail or lag (a bound)
    MaxMeddling    \* reruns other people start (a bound)

ASSUME CIWatchAssumption ==
    /\ Runs \subseteq Nat \ {0} /\ IsFiniteSet(Runs)
    /\ WorkflowOf \in [Runs -> STRING]
    /\ JobOf \in [Projects -> STRING]
    /\ Names \subseteq STRING \X Nat /\ JobSets \subseteq SUBSET Names
    /\ PushCI \in BOOLEAN
    /\ Budget \in Nat /\ Grace \in Nat /\ MinWait \in Nat \ {0}
    /\ RetryBudget \in Nat /\ Rechecks \in Nat /\ Fetches \in Nat \ {0}
    /\ MaxFaults \in Nat /\ MaxMeddling \in Nat

VARIABLES
    run,       \* [Runs -> what GitHub knows of the run]
    started,   \* how many times a run was started or started again
    clock,     \* time since the wait began
    faults, meddling,
    \* the memory of the wait (WaitForCIGreen)
    pc, todo, known, looked, cur, deadline, tries, again, retried, results,
    fetches, verdict,
    reruns,    \* history: [workflow -> reruns the wait started]
    fresh,     \* history: no run started or started again since the late look,
               \* which found none of those it had watched going again
    job        \* the publish workflow's wait-for-ci job

ghVars   == <<run, started, fresh>>
waitVars == <<pc, todo, known, looked, cur, deadline, tries, again, retried,
              results, fetches, verdict, reruns>>
watchVars == <<todo, known, looked, retried, fetches, verdict, reruns>>
vars == <<ghVars, waitVars, clock, faults, meddling, job>>

None == "none"
NoRun == 0
Workflows == {WorkflowOf[r] : r \in Runs}

-----------------------------------------------------------------------------
(* What GitHub knows.  A run is absent, going or done; `jobs' holds, for    *)
(* each name a job of it has, how the job ended and when its attempt began; *)
(* `overrun' says that it concluded past the wait's budget.                 *)

\* "failure" stands for every conclusion that is neither a success nor a skip.
Conclusions == {"success", "failure", "skipped"}
NoJob == [concl |-> "absent", at |-> 0]
Pending(n) == [concl |-> "pending", at |-> n]
Absent == [phase |-> "absent", jobs |-> [n \in Names |-> NoJob], at |-> 0,
           overrun |-> FALSE]

Listed == {r \in Runs : run[r].phase # "absent"}
Done(r) == run[r].phase = "done"

\* The conclusion Actions gives a run from its jobs.
Succeeded(r) ==
    /\ Done(r)
    /\ \A n \in Names : run[r].jobs[n].concl \in {"absent", "success", "skipped"}
    /\ \E n \in Names : run[r].jobs[n].concl = "success"

\* The run's failing jobs, whose logs are its failure log.
FailedJobs(r) ==
    {n \in Names : run[r].jobs[n].concl \notin {"absent", "pending", "success", "skipped"}}

\* The check runs of the runs in S (FromJobs; the checks API of a commit).
CheckRuns(S) ==
    {[name |-> p[2], run |-> p[1], at |-> run[p[1]].jobs[p[2]].at,
      completed |-> run[p[1]].jobs[p[2]].concl # "pending",
      conclusion |-> run[p[1]].jobs[p[2]].concl] :
        p \in {q \in S \X Names : run[q[1]].jobs[q[2]].concl # "absent"}}

-----------------------------------------------------------------------------
(* The election of check runs (LatestCheckRuns). *)

HasVerdict(c) == c.completed /\ c.conclusion # "skipped"
Newer(a, b) == a.at > b.at \/ (a.at = b.at /\ a.run > b.run)
NewestOf(C) == CHOOSE c \in C : \A d \in C \ {c} : Newer(c, d)

\* One name's check run: the newest, but a skip gives way to a verdict.
Elected(C) ==
    LET newest == NewestOf(C)
        verdicts == {c \in C : HasVerdict(c)}
    IN IF newest.conclusion = "skipped" /\ verdicts # {} THEN NewestOf(verdicts)
                                                         ELSE newest

MatrixEntry(n, of) == n[1] = of[1] /\ of[2] = 0 /\ n[2] # 0

LatestCheckRuns(C, p) ==
    LET matching == {c \in C : c.name[1] = JobOf[p]}
        byName == {Elected({d \in matching : d.name = c.name}) : c \in matching}
    IN {c \in byName :
          ~ /\ c.conclusion = "skipped"
            /\ \E o \in byName : MatrixEntry(o.name, c.name) /\ HasVerdict(o)}

FailingCheckRuns(C) == {c \in C : ~c.completed \/ c.conclusion # "success"}

\* The job's own collapse, in jq, of the check runs any project's pattern matches.
JobCheckRuns(C) == UNION {LatestCheckRuns(C, p) : p \in Projects}

-----------------------------------------------------------------------------
(* The wait. *)

Remaining == Budget - clock
Within(a, b) == IF a < b THEN a ELSE b
GraceEnd == Within(Grace, IF Budget \div 2 < 1 THEN 1 ELSE Budget \div 2)

Fault == faults < MaxFaults /\ faults' = faults + 1
NoFault == UNCHANGED faults

Decide(v) == pc' = "decided" /\ verdict' = v
Unresolve(S) == [r \in Runs |-> IF r \in S THEN "unresolved" ELSE results[r]]

Init ==
    /\ run = [r \in Runs |-> Absent] /\ started = 0 /\ fresh = TRUE
    /\ clock = 0 /\ faults = 0 /\ meddling = 0
    /\ pc = "start" /\ todo = {} /\ known = {} /\ looked = FALSE
    /\ cur = NoRun /\ deadline = 0 /\ tries = 0 /\ again = FALSE
    /\ retried = {} /\ results = [r \in Runs |-> None] /\ fetches = 0
    /\ verdict = None /\ reruns = [w \in Workflows |-> 0]
    /\ job = "idle"

\* PushTriggeredWorkflows: without one no run will ever appear.
Start ==
    /\ pc = "start"
    /\ IF PushCI THEN pc' = "discover" /\ UNCHANGED verdict ELSE Decide("no-ci")
    /\ UNCHANGED <<ghVars, clock, faults, meddling, job, todo, known, looked, cur,
                   deadline, tries, again, retried, results, fetches, reruns>>

\* Mutated: the deadline is set anew at each look.
NotYetEver ==
    /\ pc = "discover"
    /\ Listed = {} /\ NoFault
    /\ UNCHANGED <<ghVars, waitVars, clock, meddling, job>>

\* discover: a listing that fails or is empty is asked for again until the
\* grace ends.
NotYet ==
    /\ pc = "discover"
    /\ \/ Listed = {} /\ NoFault
       \/ Fault
    /\ IF clock < GraceEnd THEN clock' = clock + 1 /\ UNCHANGED <<pc, verdict>>
                           ELSE Decide("no-run") /\ UNCHANGED clock
    /\ UNCHANGED <<ghVars, meddling, job, todo, known, looked, cur, deadline, tries,
                   again, retried, results, fetches, reruns>>

Discovered ==
    /\ pc = "discover" /\ Listed # {}
    /\ IF Remaining < MinWait
       THEN /\ Decide("timeout") /\ results' = Unresolve(Listed)
            /\ UNCHANGED <<todo, known>>
       ELSE /\ pc' = "next" /\ todo' = Listed /\ known' = Listed
            /\ UNCHANGED <<results, verdict>>
    /\ UNCHANGED <<ghVars, clock, faults, meddling, job, looked, cur, deadline, tries,
                   again, retried, fetches, reruns>>

\* Watch: the runs are watched one after the other, each for what is left.
NextRun ==
    /\ pc = "next"
    /\ \E r \in todo :
         /\ cur' = r /\ todo' = todo \ {r}
         /\ deadline' = clock + Remaining /\ tries' = 0 /\ again' = FALSE
         /\ pc' = "watch"
    /\ UNCHANGED <<ghVars, clock, faults, meddling, job, known, looked, retried,
                   results, fetches, verdict, reruns>>

\* The result of the run being watched.
Result(o) ==
    /\ results' = [results EXCEPT ![cur] = o]
    /\ pc' = "next" /\ cur' = NoRun /\ again' = FALSE
    /\ UNCHANGED <<deadline, tries>>

\* gh run watch waits while the run goes on.
TimePasses ==
    /\ pc = "watch" /\ run[cur].phase = "going" /\ clock < deadline
    /\ clock' = clock + 1
    /\ UNCHANGED <<ghVars, waitVars, faults, meddling, job>>

\* ToConclusion, at the top of its loop and when the watch came back.
WatchTimesOut ==
    /\ pc = "watch" /\ clock >= deadline
    /\ Result("unresolved")
    /\ UNCHANGED <<ghVars, clock, faults, meddling, job, watchVars>>

WatchPasses ==
    /\ pc = "watch" /\ clock < deadline /\ Succeeded(cur)
    /\ Result("passed")
    /\ UNCHANGED <<ghVars, clock, faults, meddling, job, watchVars>>

\* gh ended the watch without a pass: the run concluded, or gh could not go on.
WatchEnds ==
    /\ pc = "watch" /\ clock < deadline
    /\ \/ Done(cur) /\ ~Succeeded(cur) /\ NoFault
       \/ Fault
    /\ pc' = "read"
    /\ UNCHANGED <<ghVars, clock, meddling, job, watchVars, cur, deadline, tries, again,
                   results>>

\* runState, and what ToConclusion makes of it.
StateUnreadable ==
    /\ pc = "read" /\ Fault
    /\ Result("unresolved")
    /\ UNCHANGED <<ghVars, clock, meddling, job, watchVars>>

ReadPassed ==
    /\ pc = "read" /\ Succeeded(cur)
    /\ Result("passed")
    /\ UNCHANGED <<ghVars, clock, faults, meddling, job, watchVars>>

ReadFailed ==
    /\ pc = "read" /\ Done(cur) /\ ~Succeeded(cur)
    /\ pc' = "failed"
    /\ UNCHANGED <<ghVars, clock, faults, meddling, job, watchVars, cur, deadline, tries,
                   again, results>>

ReadGoing ==
    /\ pc = "read" /\ run[cur].phase = "going"
    /\ IF tries < Rechecks
       THEN /\ pc' = "watch" /\ tries' = tries + 1 /\ clock' = clock + 1
            /\ UNCHANGED <<cur, deadline, again, results>>
       ELSE Result("unresolved") /\ UNCHANGED clock
    /\ UNCHANGED <<ghVars, faults, meddling, job, watchVars>>

\* GitHub runs the jobs of S again, under the run's id.
Restarted(r, S) ==
    [run EXCEPT ![r].phase = "going", ![r].at = started + 1, ![r].overrun = FALSE,
                ![r].jobs = [n \in Names |-> IF n \in S THEN Pending(started + 1) ELSE @[n]]]
Restart(r, S) ==
    run' = Restarted(r, S) /\ started' = started + 1
AllJobs(r) == {n \in Names : run[r].jobs[n].concl # "absent"}

Classes == {"infrastructure", "deterministic", "transient", "unrecognized"}

\* ClassifyFailure: a run no job of which failed printed nothing.
Classify(r) == IF FailedJobs(r) = {} THEN {"infrastructure"} ELSE Classes

\* Mutated: every failing run is run again, whatever ran of its workflow before.
MayRerunEach(class) == class # "deterministic" /\ ~again

MayRerun(class) ==
    class # "deterministic" /\ ~again /\ WorkflowOf[cur] \notin retried

\* Watch, past the verdict on the first attempt: the failure stands, or the
\* run is run again, once per workflow.
FailureStands ==
    /\ pc = "failed"
    /\ \/ \E class \in Classify(cur) : ~MayRerun(class)
       \/ again
    /\ Result("failed")
    /\ UNCHANGED <<ghVars, clock, faults, meddling, job, watchVars>>

\* The jobs an infrastructure failure runs again, and any other does.
RerunJobs(class) == IF class = "infrastructure" THEN FailedJobs(cur) ELSE AllJobs(cur)

Rerun ==
    /\ pc = "failed"
    /\ \E class \in Classify(cur) :
         /\ MayRerun(class) /\ Done(cur) /\ RerunJobs(class) # {}
         /\ Restart(cur, RerunJobs(class))
    /\ retried' = retried \cup {WorkflowOf[cur]}
    /\ reruns' = [reruns EXCEPT ![WorkflowOf[cur]] = @ + 1]
    /\ pc' = "watch" /\ again' = TRUE /\ tries' = 0 /\ deadline' = clock + RetryBudget
    /\ fresh' = FALSE
    /\ UNCHANGED <<clock, faults, meddling, job, todo, known, looked, cur, results,
                   fetches, verdict>>

\* The run could not be started again: its failure stands.
RerunRefused ==
    /\ pc = "failed"
    /\ \E class \in Classify(cur) :
         /\ MayRerun(class)
         /\ \/ (~Done(cur) \/ RerunJobs(class) = {}) /\ NoFault
            \/ Fault
    /\ retried' = retried \cup {WorkflowOf[cur]}
    /\ Result("failed")
    /\ UNCHANGED <<ghVars, clock, meddling, job, todo, known, looked, fetches, verdict,
                   reruns>>

\* Mutated: the second listing is not made.
LateLookLeftOut ==
    /\ pc = "next" /\ todo = {} /\ ~looked
    /\ looked' = TRUE /\ fresh' = \A r \in known : Done(r)
    /\ UNCHANGED <<run, started, clock, faults, meddling, job, pc, todo, known, results,
                   verdict, cur, deadline, tries, again, retried, fetches, reruns>>

\* The second listing: a run started after the first must not escape.
Late == Listed \ known
LateLook ==
    /\ pc = "next" /\ todo = {} /\ ~looked
    /\ clock' = clock + 1 /\ looked' = TRUE /\ fresh' = \A r \in known : Done(r)
    /\ \/ /\ Late # {} /\ Budget - clock' < MinWait
          /\ results' = Unresolve(Late) /\ known' = known \cup Late
          /\ NoFault /\ UNCHANGED <<pc, todo, verdict>>
       \/ /\ Late = {} \/ Budget - clock' >= MinWait
          /\ todo' = Late /\ known' = known \cup Late
          /\ NoFault /\ UNCHANGED <<pc, results, verdict>>
       \/ Fault /\ Decide("error") /\ UNCHANGED <<todo, known, results>>
    /\ UNCHANGED <<run, started, meddling, job, cur, deadline, tries, again, retried,
                   fetches, reruns>>

\* Aggregate.
Verdict(S) ==
    IF \E r \in S : results[r] = "failed" THEN "red"
    ELSE IF \A r \in S : results[r] = "passed" THEN "green" ELSE "timeout"

Aggregate ==
    /\ pc = "next" /\ todo = {} /\ looked
    /\ IF Verdict(known) = "green" THEN pc' = "verify" /\ UNCHANGED verdict
                                   ELSE Decide(Verdict(known))
    /\ UNCHANGED <<ghVars, clock, faults, meddling, job, todo, known, looked, cur,
                   deadline, tries, again, retried, results, fetches, reruns>>

-----------------------------------------------------------------------------
(* VerifyProjectCIRan on the jobs of the watched runs' latest attempts. *)

\* No project names a check, every project's are there, or they lag.
Complete(C) == \A p \in Projects : LatestCheckRuns(C, p) # {}

Ran(C) ==
    /\ Complete(C)
    /\ \A p \in Projects : FailingCheckRuns(LatestCheckRuns(C, p)) = {}

FetchChecks ==
    /\ pc = "verify" /\ fetches' = fetches + 1
    /\ \/ Projects = {} /\ Decide("green") /\ NoFault /\ UNCHANGED clock
       \/ /\ Projects # {}
          /\ \E C \in {CheckRuns(known), {}} :
               /\ IF C = CheckRuns(known) THEN NoFault ELSE Fault
               /\ \/ /\ Complete(C) \/ fetches' >= Fetches
                     /\ Decide(IF Ran(C) THEN "green" ELSE "not-run")
                     /\ UNCHANGED clock
                  \/ /\ ~Complete(C) /\ fetches' < Fetches
                     /\ clock' = clock + 1 /\ UNCHANGED <<pc, verdict>>
       \/ Projects # {} /\ Fault /\ Decide("error") /\ UNCHANGED clock
    /\ UNCHANGED <<ghVars, meddling, job, todo, known, looked, cur, deadline, tries,
                   again, retried, results, reruns>>

-----------------------------------------------------------------------------
(* The wait-for-ci job of the publish workflow, which the Release starts. *)

JobStarts ==
    /\ job = "idle" /\ verdict = "green" /\ Projects # {}
    /\ job' = "polling"
    /\ UNCHANGED <<ghVars, waitVars, clock, faults, meddling>>

\* One poll of the commit's check runs; what stays pending or absent is polled
\* again until the job's own deadline, and then refused.
JobPolls ==
    /\ job = "polling"
    /\ LET C == JobCheckRuns(CheckRuns(Listed)) IN
         job' = IF C = {} \/ \E c \in C : ~c.completed THEN "late"
                ELSE IF FailingCheckRuns(C) = {} THEN "passed" ELSE "refused"
    /\ UNCHANGED <<ghVars, waitVars, clock, faults, meddling>>

\* Nothing to judge at this poll: it polls again, or its time is up.
JobWaits ==
    /\ job = "late"
    /\ job' \in {"polling", "refused"}
    /\ UNCHANGED <<ghVars, waitVars, clock, faults, meddling>>

-----------------------------------------------------------------------------
(* GitHub, and other people. *)

RunStarts(r) ==
    /\ run[r].phase = "absent"
    /\ \E S \in JobSets : Restart(r, S)
    /\ fresh' = FALSE
    /\ UNCHANGED <<waitVars, clock, faults, meddling, job>>

Concludes(r) ==
    /\ run[r].phase = "going"
    /\ \E how \in [{n \in Names : run[r].jobs[n].concl = "pending"} -> Conclusions] :
         run' = [run EXCEPT ![r].phase = "done", ![r].overrun = clock >= Budget,
                            ![r].jobs = [n \in Names |->
                               IF n \in DOMAIN how THEN [@[n] EXCEPT !.concl = how[n]]
                                                   ELSE @[n]]]
    /\ UNCHANGED <<started, fresh, waitVars, clock, faults, meddling, job>>

\* Somebody runs a run again by hand.
RerunByHand(r) ==
    /\ Done(r) /\ meddling < MaxMeddling /\ meddling' = meddling + 1
    /\ Restart(r, AllJobs(r)) /\ fresh' = FALSE
    /\ UNCHANGED <<waitVars, clock, faults, job>>

\* Nobody looks at GitHub any more once a wait ended without green, or the job
\* did (a bound).
GitHub ==
    /\ verdict \in {None, "green"} /\ job \notin {"passed", "refused"}
    /\ \E r \in Runs : RunStarts(r) \/ Concludes(r) \/ RerunByHand(r)

Wait ==
    \/ Start \/ NotYet \/ Discovered \/ NextRun \/ TimePasses
    \/ WatchTimesOut \/ WatchPasses \/ WatchEnds
    \/ StateUnreadable \/ ReadPassed \/ ReadFailed \/ ReadGoing
    \/ FailureStands \/ Rerun \/ RerunRefused
    \/ LateLook \/ Aggregate \/ FetchChecks

PublishJob == JobStarts \/ JobPolls \/ JobWaits

Next == GitHub \/ Wait \/ PublishJob

Spec == Init /\ [][Next]_vars
FairSpec == Spec /\ WF_vars(Wait)

-----------------------------------------------------------------------------
(* Properties. *)

\* A green verdict stands on every run there is, and on every project's own
\* jobs: while nothing was started since the second listing, nor was somebody's
\* rerun under way at it, each project has check runs on the commit and the
\* newest verdict of each is a success (WaitForCIGreen, VerifyProjectCIRan).
\* A rerun under way is excepted for a skip that is newer than it: the election
\* then takes an older verdict for the job, and a failure of the rerun later.
GreenIsEarned ==
    verdict = "green" /\ fresh =>
        /\ known = Listed
        /\ \A r \in Listed : results[r] = "passed"
        /\ Ran(CheckRuns(Listed))

\* The two judges of a commit's CI never disagree: the wait-for-ci job refuses a
\* release that was green only when something ran on the commit since, or was
\* run again by hand while the wait looked (waitforci.go:29-38).
JobAgrees == job = "refused" => ~fresh

\* A wait starts a workflow again at most once, however many runs it has and
\* however late they come (Watch's retried).
RerunOnce == \A w \in Workflows : reruns[w] =< 1

\* Only what GitHub concluded is held against the code: a run that counts as
\* failed concluded without success, unless somebody ran it again since
\* (ToConclusion: a state that cannot be read establishes nothing).
FailureIsReal ==
    \A r \in Runs : results[r] = "failed" /\ meddling = 0 => Done(r) /\ ~Succeeded(r)

\* The wait takes its budget, one retry's for each workflow, and the late look's
\* and the fetches' units; neither another run nor a broken-off watch makes it
\* longer (WaitForCIGreen, Watch).
WaitBounded ==
    clock =< Budget + Cardinality(Workflows) * RetryBudget + Fetches

\* Every wait ends in an answer, if the process goes on.
WaitEnds == <>(pc = "decided")

\* The verdicts stand: a green one on everything that ran, a failure on what
\* GitHub concluded, and the publish workflow's own wait agrees.
VerdictsStand == GreenIsEarned /\ JobAgrees /\ FailureIsReal

\* A wait is bounded, in what it starts again and in how long it takes.
WaitIsBounded == RerunOnce /\ WaitBounded
=============================================================================
