---------------------------- MODULE CIWatchProofs ----------------------------
(* Proofs that the wait for CI is bounded and that its verdicts stand,       *)
(* whatever runs GitHub creates, whatever answers it loses and however often *)
(* people rerun by hand.                                                     *)
EXTENDS CIWatch, FiniteSetTheorems, TLAPS

\* What the retries so far may have cost, and the late look.
Spent == Cardinality(retried) * RetryBudget
Looked == IF looked THEN 1 ELSE 0
Allowed == Budget + Spent + Looked

Watching == {"watch", "read", "failed"}

\* Where the wait is tells how long it can have taken, and until when the
\* watch under way may take.
OnTime ==
    /\ pc \in {"start", "discover"} =>
           clock <= Budget + 1 /\ retried = {} /\ ~looked /\ fetches = 0
    /\ pc \in {"next"} \cup Watching => clock <= Allowed /\ fetches = 0
    /\ pc \in Watching => cur \in Runs /\ deadline \in Int /\ deadline <= Allowed
    /\ pc = "read" => clock < deadline
    /\ pc = "verify" => looked /\ fetches < Fetches /\ clock <= Allowed + fetches
    /\ pc = "decided" => clock <= Budget + Spent + Fetches

Measured ==
    /\ clock \in Nat /\ fetches \in Nat /\ looked \in BOOLEAN
    /\ pc \in {"start", "discover", "next", "verify", "decided"} \cup Watching
    /\ todo \subseteq Runs /\ retried \subseteq Workflows
    /\ reruns \in [Workflows -> 0 .. 1]
    /\ \A w \in Workflows : reruns[w] = 1 => w \in retried

IInv == Measured /\ OnTime

\* There are finitely many workflows, so what is retried can be counted.
LEMMA Countable ==
    ASSUME NEW S \in SUBSET Workflows
    PROVE  /\ IsFiniteSet(S) /\ Cardinality(S) \in Nat
           /\ Cardinality(Workflows) \in Nat /\ Cardinality(S) <= Cardinality(Workflows)
           /\ Cardinality(S) * RetryBudget \in Nat
           /\ Cardinality(S) * RetryBudget <= Cardinality(Workflows) * RetryBudget
<1>1. IsFiniteSet(Runs)
  BY CIWatchAssumption
<1>2. IsFiniteSet(Workflows)
  <2>1. WorkflowOf \in Surjection(Runs, Workflows)
    BY CIWatchAssumption DEF Surjection, Workflows
  <2> QED
    BY <1>1, <2>1, FS_Surjection
<1>3. /\ IsFiniteSet(S) /\ Cardinality(S) \in Nat
      /\ Cardinality(Workflows) \in Nat /\ Cardinality(S) <= Cardinality(Workflows)
  BY <1>2, FS_Subset, FS_CardinalityType
<1>4. ASSUME NEW k \in Nat, NEW n \in Nat, k <= n
      PROVE  k * RetryBudget \in Nat /\ k * RetryBudget <= n * RetryBudget
  BY <1>4, CIWatchAssumption
<1> QED
  BY <1>3, <1>4

LEMMA Spending ==
    ASSUME Measured, NEW w \in Workflows, w \notin retried, retried' = retried \cup {w}
    PROVE  Spent' = Spent + RetryBudget
<1>1. IsFiniteSet(retried) /\ Cardinality(retried) \in Nat
  BY Countable DEF Measured
<1>2. Cardinality(retried') = Cardinality(retried) + 1
  BY <1>1, FS_AddElement
<1> QED
  BY <1>1, <1>2, CIWatchAssumption DEF Spent

LEMMA Allowing ==
    ASSUME Measured
    PROVE  /\ Spent \in Nat /\ Looked \in 0 .. 1 /\ Allowed \in Nat
           /\ (retried = {} => Spent = 0)
           /\ Allowed = Budget + Spent + Looked
<1>1. Spent \in Nat
  BY Countable DEF Measured, Spent
<1>2. retried = {} => Spent = 0
  BY FS_EmptySet, CIWatchAssumption DEF Spent
<1> QED
  BY <1>1, <1>2, CIWatchAssumption DEF Looked, Allowed

\* Every step of the wait keeps to the time, and nobody else's takes any.
LEMMA StepKeepsTime ==
    ASSUME IInv, Next
    PROVE  IInv'
<1>i. Measured /\ OnTime
  BY DEF IInv
<1>a. /\ Budget \in Nat /\ Grace \in Nat /\ MinWait \in Nat \ {0} /\ RetryBudget \in Nat
      /\ Fetches \in Nat \ {0}
  BY CIWatchAssumption
<1>b. Spent \in Nat /\ Looked \in 0 .. 1 /\ Allowed \in Nat /\ (retried = {} => Spent = 0)
      /\ Allowed = Budget + Spent + Looked
  BY <1>i, Allowing
<1>k. /\ UNCHANGED retried => Spent' = Spent
      /\ UNCHANGED looked => Looked' = Looked
      /\ UNCHANGED <<retried, looked>> => Allowed' = Allowed
  BY DEF Spent, Looked, Allowed
<1> USE <1>a, <1>b DEF Watching
<1>1. CASE GitHub \/ PublishJob
  <2>1. UNCHANGED <<waitVars, clock>>
    BY <1>1 DEF GitHub, PublishJob, RunStarts, Concludes, RerunByHand, JobStarts, JobPolls, JobWaits
  <2> QED
    BY <2>1, <1>i, <1>k DEF waitVars, IInv, Measured, OnTime
<1>2. CASE Start
  <2>1. /\ UNCHANGED <<clock, todo, looked, cur, deadline, retried, fetches, reruns>>
        /\ pc = "start" /\ pc' \in {"discover", "decided"}
    BY <1>2 DEF Start, Decide
  <2> QED
    BY <2>1, <1>i, <1>k DEF IInv, Measured, OnTime
<1>3. CASE NotYet
  <2>1. /\ UNCHANGED <<todo, looked, cur, deadline, retried, fetches, reruns>> /\ pc = "discover"
        /\ \/ clock < GraceEnd /\ clock' = clock + 1 /\ pc' = pc
           \/ clock' = clock /\ pc' = "decided"
    BY <1>3 DEF NotYet, Decide
  <2>2. GraceEnd \in Int /\ GraceEnd <= Budget + 1
    BY DEF GraceEnd, Within
  <2> QED
    BY <2>1, <2>2, <1>i, <1>k DEF IInv, Measured, OnTime
<1>4. CASE Discovered
  <2>1. /\ UNCHANGED <<clock, looked, cur, deadline, retried, fetches, reruns>> /\ pc = "discover"
        /\ \/ pc' = "decided" /\ todo' = todo
           \/ pc' = "next" /\ todo' = Listed /\ clock <= Budget
    BY <1>4, <1>i DEF Discovered, Decide, Remaining, Measured
  <2> QED
    BY <2>1, <1>i, <1>k DEF IInv, Measured, OnTime, Listed
<1>5. CASE NextRun
  <2>1. PICK r \in todo : /\ cur' = r /\ todo' = todo \ {r} /\ deadline' = clock + Remaining
                          /\ pc' = "watch"
    BY <1>5 DEF NextRun
  <2>2. UNCHANGED <<clock, looked, retried, fetches, reruns>> /\ pc = "next"
    BY <1>5 DEF NextRun
  <2>3. deadline' = Budget
    BY <2>1, <1>i DEF Remaining, Measured
  <2> QED
    BY <2>1, <2>2, <2>3, <1>i, <1>k DEF IInv, Measured, OnTime
<1>6. CASE TimePasses
  <2>1. UNCHANGED waitVars /\ pc = "watch" /\ clock' = clock + 1 /\ clock < deadline
    BY <1>6 DEF TimePasses
  <2> QED
    BY <2>1, <1>i, <1>k DEF waitVars, IInv, Measured, OnTime
<1>7. CASE WatchTimesOut \/ WatchPasses \/ StateUnreadable \/ ReadPassed \/ FailureStands
  <2>1. /\ UNCHANGED <<clock, todo, looked, retried, fetches, reruns>>
        /\ pc \in Watching /\ pc' = "next"
    BY <1>7 DEF WatchTimesOut, WatchPasses, StateUnreadable, ReadPassed, FailureStands, Result, watchVars
  <2> QED
    BY <2>1, <1>i, <1>k DEF IInv, Measured, OnTime
<1>8. CASE WatchEnds \/ ReadFailed
  <2>1. /\ UNCHANGED <<clock, todo, looked, retried, fetches, reruns, cur, deadline>>
        /\ pc \in Watching /\ pc' \in {"read", "failed"} /\ (pc' = "read" => clock < deadline)
    BY <1>8 DEF WatchEnds, ReadFailed, watchVars
  <2> QED
    BY <2>1, <1>i, <1>k DEF IInv, Measured, OnTime
<1>9. CASE ReadGoing
  <2>1. /\ UNCHANGED <<todo, looked, retried, fetches, reruns>> /\ pc = "read"
        /\ \/ pc' = "watch" /\ clock' = clock + 1 /\ UNCHANGED <<cur, deadline>>
           \/ pc' = "next" /\ clock' = clock
    BY <1>9 DEF ReadGoing, Result, watchVars
  <2> QED
    BY <2>1, <1>i, <1>k DEF IInv, Measured, OnTime
<1>10. CASE Rerun \/ RerunRefused
  <2> DEFINE w == WorkflowOf[cur]
  <2>1. /\ UNCHANGED <<clock, todo, looked, fetches>> /\ pc = "failed" /\ w \notin retried
        /\ retried' = retried \cup {w}
        /\ \/ pc' = "watch" /\ cur' = cur /\ deadline' = clock + RetryBudget
              /\ reruns' = [reruns EXCEPT ![w] = @ + 1]
           \/ pc' = "next" /\ reruns' = reruns
    BY <1>10 DEF Rerun, RerunRefused, MayRerun, Result
  <2>2. w \in Workflows
    BY <2>1, <1>i DEF OnTime, Workflows
  <2>3. Spent' = Spent + RetryBudget
    BY <2>1, <2>2, <1>i, Spending
  <2>4. Allowed' = Allowed + RetryBudget
    BY <2>1, <2>3, <1>k DEF Allowed
  <2>5. reruns[w] = 0
    BY <2>1, <2>2, <1>i DEF Measured
  <2>6. /\ reruns' \in [Workflows -> 0 .. 1]
        /\ \A v \in Workflows : reruns'[v] = 1 => v \in retried'
    BY <2>1, <2>2, <2>5, <1>i DEF Measured
  <2>7. Measured'
    BY <2>1, <2>2, <2>6, <1>i DEF Measured
  <2>8. OnTime'
    BY <2>1, <2>4, <1>i DEF OnTime, Measured
  <2> QED
    BY <2>7, <2>8 DEF IInv
<1>11. CASE LateLook
  <2>1. /\ UNCHANGED <<retried, fetches, reruns, cur, deadline>>
        /\ pc = "next" /\ ~looked /\ clock' = clock + 1 /\ looked' = TRUE
        /\ pc' \in {"next", "decided"} /\ todo' \in {todo, Late}
    BY <1>11 DEF LateLook, Decide
  <2>2. Looked = 0 /\ Looked' = 1 /\ Spent' = Spent
    BY <2>1, <1>k DEF Looked
  <2>3. Allowed' = Allowed + 1
    BY <2>1, <2>2 DEF Allowed
  <2>4. Late \subseteq Runs
    BY DEF Late, Listed
  <2>5. Measured'
    BY <2>1, <2>4, <1>i DEF Measured
  <2>6. OnTime'
    BY <2>1, <2>2, <2>3, <1>i DEF OnTime, Measured
  <2> QED
    BY <2>5, <2>6 DEF IInv
<1>12. CASE Aggregate
  <2>1. /\ UNCHANGED <<clock, todo, looked, cur, deadline, retried, fetches, reruns>>
        /\ pc = "next" /\ looked /\ pc' \in {"verify", "decided"}
    BY <1>12 DEF Aggregate, Decide
  <2> QED
    BY <2>1, <1>i, <1>k DEF IInv, Measured, OnTime
<1>13. CASE FetchChecks
  <2>1. /\ UNCHANGED <<todo, looked, cur, deadline, retried, reruns>>
        /\ pc = "verify" /\ fetches' = fetches + 1
        /\ \/ pc' = "decided" /\ clock' = clock
           \/ pc' = pc /\ clock' = clock + 1 /\ fetches' < Fetches
    BY <1>13 DEF FetchChecks, Decide
  <2>2. Spent' = Spent /\ Allowed' = Allowed
    BY <2>1, <1>k
  <2>3. Measured'
    BY <2>1, <1>i DEF Measured
  <2>4. OnTime'
    BY <2>1, <2>2, <1>i DEF OnTime, Measured
  <2> QED
    BY <2>3, <2>4 DEF IInv
<1> QED
  BY <1>1, <1>2, <1>3, <1>4, <1>5, <1>6, <1>7, <1>8, <1>9, <1>10, <1>11, <1>12, <1>13
     DEF Next, Wait

\* However many runs a candidate has, however late they come and whatever
\* GitHub does not answer, a wait starts a workflow again once at most, and
\* ends within its budget, a retry's for each workflow and the fetches.
THEOREM WaitsAreBounded == Spec => []WaitIsBounded
<1>1. Init => IInv
  <2> SUFFICES ASSUME Init PROVE IInv
    OBVIOUS
  <2>1. Measured
    <3>1. reruns \in [Workflows -> 0 .. 1] /\ \A w \in Workflows : reruns[w] = 0
      BY DEF Init
    <3>2. /\ clock = 0 /\ fetches = 0 /\ looked = FALSE /\ pc = "start"
          /\ todo = {} /\ retried = {}
      BY DEF Init
    <3>3. \A w \in Workflows : reruns[w] = 1 => w \in retried
      BY <3>1
    <3>4. pc \in {"start", "discover", "next", "verify", "decided"} \cup Watching
      BY <3>2
    <3> QED
      BY <3>1, <3>2, <3>3, <3>4 DEF Measured
  <2>2. OnTime
    BY CIWatchAssumption DEF Init, OnTime, Watching
  <2> QED
    BY <2>1, <2>2 DEF IInv
<1>2. IInv /\ [Next]_vars => IInv'
  <2> SUFFICES ASSUME IInv, [Next]_vars PROVE IInv'
    OBVIOUS
  <2>1. CASE Next
    BY <2>1, StepKeepsTime
  <2>2. CASE UNCHANGED vars
    BY <2>2 DEF vars, waitVars, IInv, Measured, OnTime, Spent, Looked, Allowed
  <2> QED
    BY <2>1, <2>2
<1>3. IInv => WaitIsBounded
  <2> SUFFICES ASSUME IInv PROVE WaitIsBounded
    OBVIOUS
  <2>1. RerunOnce
    BY DEF IInv, Measured, RerunOnce
  <2>2. Spent <= Cardinality(Workflows) * RetryBudget /\ Cardinality(Workflows) * RetryBudget \in Nat
    <3>1. retried \in SUBSET Workflows
      BY DEF IInv, Measured
    <3>2. Workflows \in SUBSET Workflows
      OBVIOUS
    <3> QED
      BY <3>1, <3>2, Countable DEF Spent
  <2>3. Spent \in Nat /\ Looked \in 0 .. 1 /\ (retried = {} => Spent = 0) /\ Allowed = Budget + Spent + Looked
    BY Allowing DEF IInv
  <2>4. clock <= Budget + Spent + Fetches
    BY <2>3, CIWatchAssumption DEF IInv, Measured, OnTime, Watching
  <2>5. WaitBounded
    BY <2>2, <2>3, <2>4, CIWatchAssumption DEF WaitBounded, IInv, Measured
  <2> QED
    BY <2>1, <2>5 DEF WaitIsBounded
<1> QED
  BY <1>1, <1>2, <1>3, PTL DEF Spec

-----------------------------------------------------------------------------
(* Verdicts. *)

\* What is watched is listed, each run once.
Watched ==
    /\ known \subseteq Listed /\ todo \subseteq known
    /\ pc \in Watching => cur \in known /\ cur \notin todo
    /\ \A r \in todo : results[r] = None
    /\ pc \in Watching => results[cur] = None
    /\ \A r \in Runs \ known : results[r] \in {None, "unresolved"}
    /\ pc # "decided" => \A r \in Runs \ known : results[r] = None
    /\ pc \in {"start", "discover"} => todo = {} /\ known = {} /\ ~looked

\* What failed, failed, unless somebody ran it again.
FailedIsDone ==
    meddling = 0 =>
        /\ \A r \in Runs : results[r] = "failed" => Done(r) /\ ~Succeeded(r)
        /\ pc = "failed" => Done(cur) /\ ~Succeeded(cur)

\* Since the late look, while nothing was started: nothing else is listed, and
\* what passed is as it was then.
StillSo ==
    looked /\ fresh =>
        /\ verdict # "error" => known = Listed
        /\ \A r \in known : results[r] = "passed" => Done(r)

AllPassed == \A r \in known : results[r] = "passed"

\* A green verdict, while it stands, and the publish workflow's answer to it.
Earned ==
    /\ verdict # None <=> pc = "decided"
    /\ pc = "verify" => looked /\ AllPassed
    /\ verdict = "green" => looked /\ AllPassed
    /\ verdict = "green" /\ fresh => Ran(CheckRuns(known))
    /\ job # "idle" => verdict = "green" /\ Projects # {}
    /\ job \in {"late", "refused"} => ~fresh

Job == [concl : Conclusions \cup {"absent", "pending"}, at : Nat]
Run == [phase : {"absent", "going", "done"}, jobs : [Names -> Job], at : Nat, overrun : BOOLEAN]
Answers == {None, "no-ci", "no-run", "not-run", "error", "green", "red", "timeout"}

VTypes ==
    /\ run \in [Runs -> Run] /\ started \in Nat /\ meddling \in Nat
    /\ pc \in {"start", "discover", "next", "verify", "decided"} \cup Watching
    /\ results \in [Runs -> {None, "passed", "failed", "unresolved"}]
    /\ verdict \in Answers
    /\ job \in {"idle", "polling", "late", "passed", "refused"}

VInv == VTypes /\ Watched /\ FailedIsDone /\ StillSo /\ Earned

\* A run started again is going, and the others are as they were.
LEMMA RestartedRun ==
    ASSUME VTypes, NEW r \in Runs, NEW S, Restart(r, S)
    PROVE  /\ run' \in [Runs -> Run] /\ started' \in Nat
           /\ run'[r].phase = "going" /\ \A q \in Runs \ {r} : run'[q] = run[q]
<1> DEFINE g == [run EXCEPT ![r].phase = "going", ![r].at = started + 1, ![r].overrun = FALSE]
           jobs == [n \in Names |-> IF n \in S THEN Pending(started + 1) ELSE run[r].jobs[n]]
<1>1. run \in [Runs -> Run] /\ run[r] \in Run /\ started \in Nat
  BY DEF VTypes
<1>2. run' = [run EXCEPT ![r].phase = "going", ![r].at = started + 1, ![r].overrun = FALSE, ![r].jobs = jobs]
  <2>1. run' = [g EXCEPT ![r].jobs = [n \in Names |-> IF n \in S THEN Pending(started + 1) ELSE @[n]]]
    BY Zenon DEF Restart, Restarted
  <2>2. g[r].jobs = run[r].jobs
    BY <1>1 DEF Run
  <2> QED
    BY <2>1, <2>2, Zenon
<1>3. jobs \in [Names -> Job]
  <2>1. Pending(started + 1) \in Job
    BY <1>1 DEF Pending, Job
  <2>2. run[r].jobs \in [Names -> Job]
    BY <1>1 DEF Run
  <2> QED
    BY <2>1, <2>2
<1>4. started' = started + 1
  BY DEF Restart
<1> HIDE DEF jobs
<1> QED
  <2> DEFINE Good(h) == h \in [Runs -> Run] /\ h[r].phase = "going" /\ \A q \in Runs \ {r} : h[q] = run[q]
  <2>1. Good([run EXCEPT ![r].phase = "going"])
    BY <1>1 DEF Run
  <2>2. \A h : Good(h) => Good([h EXCEPT ![r].at = started + 1])
    BY <1>1 DEF Run
  <2>3. \A h : Good(h) => Good([h EXCEPT ![r].overrun = FALSE])
    BY DEF Run
  <2>4. \A h : Good(h) => Good([h EXCEPT ![r].jobs = jobs])
    BY <1>3 DEF Run
  <2>5. Good(run')
    <3> HIDE DEF Good
    <3> QED
      BY <1>2, <2>1, <2>2, <2>3, <2>4, Zenon
  <2> QED
    BY <1>1, <1>4, <2>5

\* A run that concludes is done, and the others are as they were.
LEMMA ConcludedRun ==
    ASSUME VTypes, NEW r \in Runs, Concludes(r)
    PROVE  /\ run' \in [Runs -> Run]
           /\ run[r].phase = "going" /\ run'[r].phase = "done"
           /\ \A q \in Runs \ {r} : run'[q] = run[q]
<1>1. run \in [Runs -> Run] /\ run[r] \in Run
  BY DEF VTypes
<1>2. PICK how \in [{n \in Names : run[r].jobs[n].concl = "pending"} -> Conclusions] :
         run' = [run EXCEPT ![r].phase = "done", ![r].overrun = clock >= Budget,
                            ![r].jobs = [n \in Names |->
                               IF n \in DOMAIN how THEN [@[n] EXCEPT !.concl = how[n]]
                                                   ELSE @[n]]]
  BY Zenon DEF Concludes
<1> DEFINE jobs == [n \in Names |-> IF n \in DOMAIN how THEN [run[r].jobs[n] EXCEPT !.concl = how[n]]
                                    ELSE run[r].jobs[n]]
           late == clock >= Budget
           g == [run EXCEPT ![r].phase = "done", ![r].overrun = late]
<1>3. run' = [run EXCEPT ![r].phase = "done", ![r].overrun = late, ![r].jobs = jobs]
  <2>1. g[r].jobs = run[r].jobs
    BY <1>1 DEF Run
  <2> QED
    BY <1>2, <2>1, Zenon
<1>4. jobs \in [Names -> Job]
  <2>1. run[r].jobs \in [Names -> Job]
    BY <1>1 DEF Run
  <2>2. ASSUME NEW n \in DOMAIN how PROVE [run[r].jobs[n] EXCEPT !.concl = how[n]] \in Job
    <3>1. run[r].jobs[n] \in Job /\ how[n] \in Conclusions
      BY <2>1, <2>2
    <3> QED
      BY <3>1 DEF Job
  <2> QED
    BY <2>1, <2>2
<1>5. late \in BOOLEAN
  OBVIOUS
<1>6. run[r].phase = "going"
  BY DEF Concludes
<1> HIDE DEF jobs, late
<1> QED
  <2> DEFINE Good(h) == h \in [Runs -> Run] /\ h[r].phase = "done" /\ \A q \in Runs \ {r} : h[q] = run[q]
  <2>1. Good([run EXCEPT ![r].phase = "done"])
    BY <1>1 DEF Run
  <2>2. \A h : Good(h) => Good([h EXCEPT ![r].overrun = late])
    BY <1>5 DEF Run
  <2>3. \A h : Good(h) => Good([h EXCEPT ![r].jobs = jobs])
    BY <1>4 DEF Run
  <2>4. Good(run')
    <3> HIDE DEF Good
    <3> QED
      BY <1>3, <2>1, <2>2, <2>3, Zenon
  <2> QED
    BY <1>1, <1>6, <2>4

\* Without check runs there is nothing to accept, unless no project has any.
LEMMA NoChecks ==
    ASSUME Projects # {}
    PROVE  ~Ran({})
<1>1. \A p : LatestCheckRuns({}, p) = {}
  BY DEF LatestCheckRuns
<1> QED
  BY <1>1 DEF Ran, Complete

\* The check runs are what the runs say.
LEMMA SameChecks ==
    ASSUME UNCHANGED <<run, known>>
    PROVE  /\ Listed' = Listed /\ (\A r : Done(r)' <=> Done(r)) /\ (\A r : Succeeded(r)' <=> Succeeded(r))
           /\ CheckRuns(known)' = CheckRuns(known)
           /\ Ran(CheckRuns(known))' <=> Ran(CheckRuns(known))
<1>1. Listed' = Listed /\ (\A r : Done(r)' <=> Done(r))
  BY DEF Listed, Done
<1>2. \A r : Succeeded(r)' <=> Succeeded(r)
  BY DEF Succeeded, Done
<1>3. CheckRuns(known)' = CheckRuns(known)
  BY DEF CheckRuns
<1>4. Ran(CheckRuns(known))' <=> Ran(CheckRuns(known))
  BY <1>3
<1> QED
  BY <1>1, <1>2, <1>3, <1>4

\* A result read: the run being watched has it, and the next is watched.
LEMMA ResultKeepsVerdicts ==
    ASSUME VInv, pc \in Watching, NEW o \in {"passed", "failed", "unresolved"},
           o = "passed" => Done(cur),
           o = "failed" /\ meddling = 0 => Done(cur) /\ ~Succeeded(cur),
           results' = [results EXCEPT ![cur] = o], pc' = "next",
           UNCHANGED <<run, started, fresh, meddling, job, known, todo, looked, verdict>>
    PROVE  VInv'
<1>1. VTypes /\ Watched /\ FailedIsDone /\ StillSo /\ Earned
  BY DEF VInv
<1>2. /\ cur \in known /\ cur \in Runs /\ cur \notin todo
      /\ verdict = None /\ job = "idle" /\ pc # "decided"
  BY <1>1 DEF Watched, Earned, Watching, Listed, None
<1>3. /\ results' \in [Runs -> {None, "passed", "failed", "unresolved"}]
      /\ results'[cur] = o /\ \A r \in Runs \ {cur} : results'[r] = results[r]
  BY <1>1, <1>2 DEF VTypes
<1>4. VTypes'
  BY <1>1, <1>3 DEF VTypes
<1>5. Listed' = Listed /\ (\A r : Done(r)' <=> Done(r)) /\ (\A r : Succeeded(r)' <=> Succeeded(r))
  BY SameChecks
<1>6. Watched'
  BY <1>1, <1>2, <1>3, <1>5 DEF Watched, Watching, Listed
<1>7. FailedIsDone'
  BY <1>1, <1>2, <1>3, <1>5 DEF FailedIsDone
<1>8. StillSo'
  BY <1>1, <1>2, <1>3, <1>5 DEF StillSo, Watched, Listed
<1>9. Earned'
  BY <1>1, <1>2 DEF Earned, None
<1> QED
  BY <1>4, <1>6, <1>7, <1>8, <1>9 DEF VInv

\* What runs on GitHub meanwhile is no news to a verdict that stands.
LEMMA GitHubKeepsVerdicts ==
    ASSUME VInv, GitHub
    PROVE  VInv'
<1>1. VTypes /\ Watched /\ FailedIsDone /\ StillSo /\ Earned
  BY DEF VInv
<1>2. PICK r \in Runs : RunStarts(r) \/ Concludes(r) \/ RerunByHand(r)
  BY DEF GitHub
<1>3. UNCHANGED <<waitVars, job>>
  BY <1>2 DEF RunStarts, Concludes, RerunByHand
<1>4. /\ run' \in [Runs -> Run] /\ started' \in Nat
      /\ run'[r].phase \in {"going", "done"} /\ \A q \in Runs \ {r} : run'[q] = run[q]
  <2>1. CASE Concludes(r)
    BY <2>1, <1>1, ConcludedRun DEF Concludes, VTypes
  <2>2. CASE RunStarts(r) \/ RerunByHand(r)
    <3>1. PICK S : Restart(r, S)
      BY <2>2 DEF RunStarts, RerunByHand
    <3> QED
      BY <3>1, <1>1, RestartedRun
  <2> QED
    BY <1>2, <2>1, <2>2
<1>5. \A q \in Runs \ {r} : (Done(q)' <=> Done(q)) /\ (Succeeded(q)' <=> Succeeded(q))
  BY <1>4 DEF Done, Succeeded
<1>6. Listed' = Listed \cup {r}
  BY <1>4 DEF Listed
<1>7. meddling' \in Nat /\ (meddling' = 0 => meddling = 0 /\ ~RerunByHand(r))
  BY <1>1, <1>2 DEF VTypes, RunStarts, Concludes, RerunByHand
<1>8. VTypes'
  BY <1>1, <1>3, <1>4, <1>7 DEF VTypes, waitVars
<1>9. Watched'
  BY <1>1, <1>3, <1>6 DEF Watched, waitVars
<1>10. FailedIsDone'
  <2> SUFFICES ASSUME meddling' = 0 PROVE FailedIsDone'
    BY DEF FailedIsDone
  <2>1. results[r] # "failed" /\ (pc = "failed" => cur # r)
    <3>1. CASE RunStarts(r)
      <4>1. r \notin known
        BY <3>1, <1>1 DEF RunStarts, Watched, Listed
      <4> QED
        BY <4>1, <1>1 DEF Watched, Watching, None
    <3>2. CASE Concludes(r)
      <4>1. ~Done(r)
        BY <3>2 DEF Concludes, Done
      <4> QED
        BY <4>1, <1>1, <1>7 DEF FailedIsDone
    <3> QED
      BY <3>1, <3>2, <1>2, <1>7
  <2>2. pc = "failed" => cur \in Runs
    BY <1>1 DEF Watched, Watching, Listed
  <2> QED
    BY <2>1, <2>2, <1>1, <1>3, <1>5, <1>7 DEF FailedIsDone, waitVars
<1>11. CASE fresh'
  <2>1. Concludes(r) /\ fresh' = fresh
    BY <1>2, <1>11 DEF RunStarts, Concludes, RerunByHand
  <2>2. ~Done(r) /\ r \in Listed
    BY <2>1 DEF Concludes, Done, Listed
  <2>3. Listed' = Listed
    BY <2>2, <1>6
  <2>4. StillSo'
    BY <1>1, <1>3, <1>5, <2>1, <2>2, <2>3 DEF StillSo, waitVars, Watched, Listed
  <2>5. verdict # "green"
    BY <1>1, <1>11, <2>1, <2>2 DEF Earned, AllPassed, StillSo
  <2>6. Earned'
    BY <1>1, <1>3, <2>5 DEF Earned, AllPassed, waitVars
  <2> QED
    BY <1>8, <1>9, <1>10, <2>4, <2>6 DEF VInv
<1>12. CASE ~fresh'
  <2>1. StillSo'
    BY <1>12 DEF StillSo
  <2>2. Earned'
    BY <1>1, <1>3, <1>12 DEF Earned, AllPassed, waitVars
  <2> QED
    BY <1>8, <1>9, <1>10, <2>1, <2>2 DEF VInv
<1> QED
  BY <1>11, <1>12

\* The wait itself: what it concludes is what it has read.
LEMMA WaitKeepsVerdicts ==
    ASSUME VInv, Wait
    PROVE  VInv'
<1>1. VTypes /\ Watched /\ FailedIsDone /\ StillSo /\ Earned
  BY DEF VInv
<1>2. /\ pc # "decided" /\ verdict = None /\ job = "idle" /\ job' = job /\ meddling' = meddling
      /\ (~Rerun => UNCHANGED <<run, started>>)
  <2>1. pc # "decided" /\ job' = job /\ meddling' = meddling
    BY DEF Wait, Start, NotYet, Discovered, NextRun, TimePasses, WatchTimesOut, WatchPasses, WatchEnds,
           StateUnreadable, ReadPassed, ReadFailed, ReadGoing, FailureStands, Rerun, RerunRefused,
           LateLook, Aggregate, FetchChecks
  <2>2. ~Rerun => UNCHANGED <<run, started>>
    BY DEF Wait, Start, NotYet, Discovered, NextRun, TimePasses, WatchTimesOut, WatchPasses, WatchEnds,
           StateUnreadable, ReadPassed, ReadFailed, ReadGoing, FailureStands, RerunRefused,
           LateLook, Aggregate, FetchChecks, ghVars
  <2>3. verdict = None /\ job = "idle"
    BY <2>1, <1>1 DEF Earned, None
  <2> QED
    BY <2>1, <2>2, <2>3
<1>3. ~Rerun => Listed' = Listed /\ (\A r : Done(r)' <=> Done(r)) /\ (\A r : Succeeded(r)' <=> Succeeded(r))
  BY <1>2 DEF Listed, Done, Succeeded
<1>4. pc \in Watching => cur \in known /\ cur \in Runs /\ cur \notin todo /\ results[cur] = None
  BY <1>1 DEF Watched, Listed
<1>5. CASE Start \/ NotYet
  <2>1. /\ UNCHANGED <<fresh, todo, known, looked, cur, results>> /\ pc \in {"start", "discover"}
        /\ \/ pc' \in {"start", "discover"} /\ verdict' = verdict
           \/ pc' = "decided" /\ verdict' \in {"no-ci", "no-run"}
    BY <1>5 DEF Start, NotYet, Decide, ghVars
  <2>2. ~Rerun
    BY <2>1 DEF Rerun
  <2>3. VTypes' /\ Watched'
    BY <2>1, <2>2, <1>1, <1>2, <1>3 DEF VTypes, Watched, Watching, Answers
  <2>4. FailedIsDone' /\ StillSo'
    BY <2>1, <2>2, <1>1, <1>2, <1>3 DEF FailedIsDone, StillSo, Watched
  <2>5. Earned'
    BY <2>1, <1>2 DEF Earned, None
  <2> QED
    BY <2>3, <2>4, <2>5 DEF VInv
<1>6. CASE Discovered
  <2>1. /\ UNCHANGED <<fresh, looked, cur>> /\ pc = "discover"
        /\ \/ pc' = "decided" /\ verdict' = "timeout" /\ results' = Unresolve(Listed)
              /\ UNCHANGED <<todo, known>>
           \/ pc' = "next" /\ verdict' = verdict /\ results' = results /\ todo' = Listed /\ known' = Listed
    BY <1>6 DEF Discovered, Decide, ghVars
  <2>2. ~Rerun
    BY <2>1 DEF Rerun
  <2>3. known = {} /\ todo = {} /\ ~looked /\ \A r \in Runs : results[r] = None
    BY <2>1, <1>1 DEF Watched
  <2>4. VTypes'
    BY <2>1, <2>2, <1>1, <1>2 DEF VTypes, Unresolve, Answers
  <2>5. Watched'
    BY <2>1, <2>2, <2>3, <1>3 DEF Watched, Watching, Unresolve, Listed, None
  <2>6. FailedIsDone' /\ StillSo'
    BY <2>1, <2>3 DEF FailedIsDone, StillSo, Unresolve, None
  <2>7. Earned'
    BY <2>1, <1>2 DEF Earned, None
  <2> QED
    BY <2>4, <2>5, <2>6, <2>7 DEF VInv
<1>7. CASE NextRun
  <2>1. /\ UNCHANGED <<fresh, looked, known, results, verdict>> /\ pc = "next" /\ pc' = "watch"
        /\ cur' \in todo /\ todo' = todo \ {cur'}
    BY <1>7 DEF NextRun, ghVars
  <2>2. ~Rerun
    BY <2>1 DEF Rerun
  <2>3. VTypes' /\ Watched'
    BY <2>1, <2>2, <1>1, <1>2, <1>3 DEF VTypes, Watched, Watching
  <2>4. FailedIsDone' /\ StillSo'
    BY <2>1, <2>2, <1>1, <1>2, <1>3 DEF FailedIsDone, StillSo, Watched, Listed
  <2>5. Earned'
    BY <2>1, <1>2 DEF Earned, None
  <2> QED
    BY <2>3, <2>4, <2>5 DEF VInv
<1>8. CASE TimePasses \/ WatchEnds \/ ReadFailed \/ (ReadGoing /\ pc' = "watch")
  <2>1. /\ UNCHANGED <<fresh, looked, known, todo, cur, results, verdict>>
        /\ pc \in Watching /\ pc' \in Watching /\ (pc' = "failed" => Done(cur) /\ ~Succeeded(cur))
    BY <1>8 DEF TimePasses, WatchEnds, ReadFailed, ReadGoing, Result, Watching, ghVars, waitVars, watchVars
  <2>2. ~Rerun
    BY <1>8 DEF Rerun, TimePasses, WatchEnds, ReadFailed, ReadGoing
  <2>3. VTypes' /\ Watched'
    BY <2>1, <2>2, <1>1, <1>2, <1>3 DEF VTypes, Watched, Watching
  <2>4. FailedIsDone' /\ StillSo'
    BY <2>1, <2>2, <1>1, <1>2, <1>3 DEF FailedIsDone, StillSo, Watched, Listed
  <2>5. Earned'
    BY <2>1, <1>2 DEF Earned, Watching, None
  <2> QED
    BY <2>3, <2>4, <2>5 DEF VInv
<1>9. CASE WatchTimesOut \/ StateUnreadable \/ (ReadGoing /\ pc' # "watch")
  <2>1. /\ UNCHANGED <<run, started, fresh, known, todo, looked, verdict>>
        /\ pc \in Watching /\ pc' = "next" /\ results' = [results EXCEPT ![cur] = "unresolved"]
    BY <1>9 DEF WatchTimesOut, StateUnreadable, ReadGoing, Result, Watching, ghVars, watchVars
  <2> QED
    BY <2>1, <1>2, ResultKeepsVerdicts
<1>10. CASE WatchPasses \/ ReadPassed
  <2>1. /\ UNCHANGED <<run, started, fresh, known, todo, looked, verdict>> /\ Done(cur)
        /\ pc \in Watching /\ pc' = "next" /\ results' = [results EXCEPT ![cur] = "passed"]
    BY <1>10 DEF WatchPasses, ReadPassed, Succeeded, Result, Watching, ghVars, watchVars
  <2> QED
    BY <2>1, <1>2, ResultKeepsVerdicts
<1>11. CASE FailureStands \/ RerunRefused
  <2>1. /\ UNCHANGED <<run, started, fresh, known, todo, looked, verdict>> /\ pc = "failed"
        /\ pc \in Watching /\ pc' = "next" /\ results' = [results EXCEPT ![cur] = "failed"]
    BY <1>11 DEF FailureStands, RerunRefused, Result, Watching, ghVars, watchVars
  <2>2. meddling = 0 => Done(cur) /\ ~Succeeded(cur)
    BY <2>1, <1>1 DEF FailedIsDone
  <2> QED
    BY <2>1, <2>2, <1>2, ResultKeepsVerdicts
<1>12. CASE Rerun
  <2>1. /\ UNCHANGED <<todo, known, looked, cur, results, verdict>> /\ fresh' = FALSE
        /\ pc = "failed" /\ pc' = "watch"
    BY <1>12 DEF Rerun
  <2>2. PICK S : Restart(cur, S)
    BY <1>12 DEF Rerun
  <2>3. cur \in known /\ cur \in Runs /\ results[cur] = None
    BY <2>1, <1>4 DEF Watching
  <2>4. /\ run' \in [Runs -> Run] /\ started' \in Nat
        /\ run'[cur].phase = "going" /\ \A q \in Runs \ {cur} : run'[q] = run[q]
    BY <2>2, <2>3, <1>1, RestartedRun
  <2>5. \A q \in Runs \ {cur} : (Done(q)' <=> Done(q)) /\ (Succeeded(q)' <=> Succeeded(q))
    BY <2>4 DEF Done, Succeeded
  <2>6. Listed' = Listed
    BY <2>3, <2>4, <1>1 DEF Listed, Watched
  <2>7. VTypes' /\ Watched'
    BY <2>1, <2>4, <2>6, <1>1, <1>2 DEF VTypes, Watched, Watching
  <2>8. FailedIsDone'
    BY <2>1, <2>3, <2>5, <1>1, <1>2 DEF FailedIsDone, None
  <2>9. StillSo' /\ Earned'
    BY <2>1, <1>2 DEF StillSo, Earned, None
  <2> QED
    BY <2>7, <2>8, <2>9 DEF VInv
<1>13. CASE LateLook
  <2>1. /\ pc = "next" /\ todo = {} /\ ~looked /\ looked' = TRUE /\ cur' = cur
        /\ fresh' = \A r \in known : Done(r)
        /\ \/ /\ results' = Unresolve(Late) /\ known' = known \cup Late /\ UNCHANGED <<pc, todo, verdict>>
           \/ /\ todo' = Late /\ known' = known \cup Late /\ UNCHANGED <<pc, results, verdict>>
           \/ /\ pc' = "decided" /\ verdict' = "error" /\ UNCHANGED <<todo, known, results>>
    BY <1>13 DEF LateLook, Decide
  <2>2. ~Rerun
    BY <2>1 DEF Rerun
  <2>3. /\ Late \subseteq Runs /\ Late \subseteq Listed /\ known \subseteq Listed /\ Listed \subseteq Runs
        /\ known \cup Late = Listed /\ \A r \in Runs \ known : results[r] = None
    BY <1>1, <1>2 DEF Late, Watched, Listed
  <2>4. \A r \in Runs : results'[r] \in {"passed", "failed"} => results'[r] = results[r] /\ r \in known
    BY <2>1, <2>3 DEF Unresolve, None
  <2>5. VTypes'
    BY <2>1, <2>2, <1>1, <1>2 DEF VTypes, Unresolve, Answers
  <2>6. Watched'
    BY <2>1, <2>2, <2>3, <1>3 DEF Watched, Watching, Unresolve, None, Late
  <2>7. FailedIsDone'
    BY <2>1, <2>2, <2>4, <1>1, <1>2, <1>3 DEF FailedIsDone
  <2>8. StillSo'
    BY <2>1, <2>2, <2>3, <2>4, <1>2, <1>3 DEF StillSo
  <2>9. Earned'
    BY <2>1, <1>2 DEF Earned, None
  <2> QED
    BY <2>5, <2>6, <2>7, <2>8, <2>9 DEF VInv
<1>14. CASE Aggregate
  <2>1. /\ UNCHANGED <<fresh, todo, known, looked, cur, results>> /\ pc = "next" /\ looked
        /\ \/ Verdict(known) = "green" /\ pc' = "verify" /\ verdict' = verdict
           \/ Verdict(known) # "green" /\ pc' = "decided" /\ verdict' = Verdict(known)
    BY <1>14 DEF Aggregate, Decide, ghVars
  <2>2. ~Rerun
    BY <2>1 DEF Rerun
  <2>3. Verdict(known) \in {"red", "green", "timeout"} /\ (Verdict(known) = "green" => AllPassed)
    BY DEF Verdict, AllPassed
  <2>4. VTypes'
    BY <2>1, <2>2, <2>3, <1>1, <1>2 DEF VTypes, Answers
  <2>5. Watched'
    BY <2>1, <2>2, <1>1, <1>2, <1>3 DEF Watched, Watching
  <2>6. FailedIsDone' /\ StillSo'
    BY <2>1, <2>2, <2>3, <1>1, <1>2, <1>3 DEF FailedIsDone, StillSo, Watched, Listed, None
  <2>7. Earned'
    BY <2>1, <2>3, <1>2 DEF Earned, AllPassed, None
  <2> QED
    BY <2>4, <2>5, <2>6, <2>7 DEF VInv
<1>15. CASE FetchChecks
  <2>1. /\ UNCHANGED <<fresh, todo, known, looked, cur, results>> /\ pc = "verify"
        /\ \/ pc' = pc /\ verdict' = verdict
           \/ pc' = "decided" /\ verdict' \in {"not-run", "error"}
           \/ pc' = "decided" /\ verdict' = "green" /\ Ran(CheckRuns(known))
    <3>1. CASE Projects = {}
      <4>1. Ran(CheckRuns(known))
        BY <3>1 DEF Ran, Complete
      <4> QED
        BY <4>1, <3>1, <1>15 DEF FetchChecks, Decide, ghVars
    <3>2. CASE Projects # {}
      <4>1. ~Ran({})
        BY <3>2, NoChecks
      <4> QED
        BY <4>1, <3>2, <1>15 DEF FetchChecks, Decide, ghVars
    <3> QED
      BY <3>1, <3>2
  <2>2. ~Rerun
    BY <2>1 DEF Rerun
  <2>3. Ran(CheckRuns(known))' <=> Ran(CheckRuns(known))
    BY <2>1, <2>2, <1>2, SameChecks
  <2>4. looked /\ AllPassed
    BY <2>1, <1>1 DEF Earned
  <2>5. VTypes'
    BY <2>1, <2>2, <1>1, <1>2 DEF VTypes, Answers
  <2>6. Watched'
    BY <2>1, <2>2, <1>1, <1>2, <1>3 DEF Watched, Watching
  <2>7. FailedIsDone' /\ StillSo'
    BY <2>1, <2>2, <1>1, <1>2, <1>3 DEF FailedIsDone, StillSo, Watched, Listed, None
  <2>8. Earned'
    BY <2>1, <2>3, <2>4, <1>2 DEF Earned, AllPassed, None
  <2> QED
    BY <2>5, <2>6, <2>7, <2>8 DEF VInv
<1> QED
  BY <1>5, <1>6, <1>7, <1>8, <1>9, <1>10, <1>11, <1>12, <1>13, <1>14, <1>15 DEF Wait

\* The publish workflow judges what the wait judged, by the same election.
LEMMA JobKeepsVerdicts ==
    ASSUME VInv, PublishJob
    PROVE  VInv'
<1>1. VTypes /\ Watched /\ FailedIsDone /\ StillSo /\ Earned
  BY DEF VInv
<1>2. UNCHANGED <<ghVars, waitVars, meddling>>
  BY DEF PublishJob, JobStarts, JobPolls, JobWaits
<1>3. /\ Listed' = Listed /\ (\A r : Done(r)' <=> Done(r)) /\ (\A r : Succeeded(r)' <=> Succeeded(r))
      /\ Ran(CheckRuns(known))' <=> Ran(CheckRuns(known))
  BY <1>2, SameChecks DEF ghVars, waitVars
<1>4. Watched' /\ FailedIsDone' /\ StillSo'
  BY <1>1, <1>2, <1>3 DEF Watched, FailedIsDone, StillSo, ghVars, waitVars
<1>5. CASE JobStarts
  <2>1. verdict = "green" /\ Projects # {} /\ job' = "polling"
    BY <1>5 DEF JobStarts
  <2> QED
    BY <2>1, <1>1, <1>2, <1>3, <1>4 DEF VInv, VTypes, Earned, AllPassed, ghVars, waitVars
<1>6. CASE JobPolls
  <2> DEFINE C == JobCheckRuns(CheckRuns(Listed))
  <2>1. job = "polling" /\ job' \in {"late", "passed", "refused"}
    BY <1>6 DEF JobPolls
  <2>2. verdict = "green" /\ Projects # {}
    BY <2>1, <1>1 DEF Earned
  <2>3. ASSUME fresh PROVE job' = "passed"
    <3>1. known = Listed /\ Ran(CheckRuns(known))
      BY <2>2, <2>3, <1>1 DEF Earned, StillSo
    <3>2. /\ \A p \in Projects : LatestCheckRuns(CheckRuns(Listed), p) # {}
          /\ \A p \in Projects : FailingCheckRuns(LatestCheckRuns(CheckRuns(Listed), p)) = {}
      BY <3>1 DEF Ran, Complete
    <3>3. C # {}
      BY <3>2, <2>2 DEF JobCheckRuns
    <3>4. \A c \in C : c.completed /\ c.conclusion = "success"
      BY <3>2 DEF JobCheckRuns, FailingCheckRuns
    <3>5. FailingCheckRuns(C) = {}
      BY <3>4 DEF FailingCheckRuns
    <3> QED
      BY <3>3, <3>4, <3>5, <1>6 DEF JobPolls
  <2> QED
    BY <2>1, <2>2, <2>3, <1>1, <1>2, <1>3, <1>4 DEF VInv, VTypes, Earned, AllPassed, ghVars, waitVars
<1>7. CASE JobWaits
  <2>1. job = "late" /\ job' \in {"polling", "refused"}
    BY <1>7 DEF JobWaits
  <2>2. verdict = "green" /\ Projects # {} /\ ~fresh
    BY <2>1, <1>1 DEF Earned
  <2> QED
    BY <2>1, <2>2, <1>1, <1>2, <1>3, <1>4 DEF VInv, VTypes, Earned, AllPassed, ghVars, waitVars
<1> QED
  BY <1>5, <1>6, <1>7 DEF PublishJob

\* Whatever runs come and go, fail and are run again while the wait looks, and
\* whatever GitHub's answers miss: a green verdict stands on every run and on
\* every project's own jobs, a failure on what concluded, and the publish
\* workflow's wait agrees.
THEOREM VerdictsAreRight == Spec => []VerdictsStand
<1>1. Init => VInv
  <2> SUFFICES ASSUME Init PROVE VInv
    OBVIOUS
  <2>1. /\ run = [r \in Runs |-> Absent] /\ started = 0 /\ meddling = 0 /\ pc = "start"
        /\ todo = {} /\ known = {} /\ looked = FALSE /\ results = [r \in Runs |-> None]
        /\ verdict = None /\ job = "idle"
    BY DEF Init
  <2>2. Absent \in Run
    <3>1. NoJob \in Job
      BY DEF NoJob, Job
    <3> QED
      BY <3>1 DEF Absent, Run
  <2>3. VTypes
    BY <2>1, <2>2 DEF VTypes, Answers, None
  <2>4. Watched /\ FailedIsDone /\ StillSo
    BY <2>1 DEF Watched, FailedIsDone, StillSo, Watching, None
  <2>5. Earned
    BY <2>1 DEF Earned, None
  <2> QED
    BY <2>3, <2>4, <2>5 DEF VInv
<1>2. VInv /\ [Next]_vars => VInv'
  <2> SUFFICES ASSUME VInv, [Next]_vars PROVE VInv'
    OBVIOUS
  <2>1. CASE Next
    BY <2>1, GitHubKeepsVerdicts, WaitKeepsVerdicts, JobKeepsVerdicts DEF Next
  <2>2. CASE UNCHANGED vars
    <3>1. UNCHANGED <<ghVars, waitVars, meddling, job>>
      BY <2>2 DEF vars
    <3>2. /\ Listed' = Listed /\ (\A r : Done(r)' <=> Done(r)) /\ (\A r : Succeeded(r)' <=> Succeeded(r))
          /\ Ran(CheckRuns(known))' <=> Ran(CheckRuns(known))
      BY <3>1, SameChecks DEF ghVars, waitVars
    <3> QED
      BY <3>1, <3>2 DEF VInv, VTypes, Watched, FailedIsDone, StillSo, Earned, AllPassed, ghVars, waitVars
  <2> QED
    BY <2>1, <2>2
<1>3. VInv => VerdictsStand
  <2> SUFFICES ASSUME VInv PROVE VerdictsStand
    OBVIOUS
  <2>1. GreenIsEarned
    <3> SUFFICES ASSUME verdict = "green", fresh
                 PROVE  known = Listed /\ (\A r \in Listed : results[r] = "passed") /\ Ran(CheckRuns(Listed))
      BY DEF GreenIsEarned
    <3> QED
      BY DEF VInv, Earned, StillSo, AllPassed
  <2>2. JobAgrees
    BY DEF VInv, Earned, JobAgrees
  <2>3. FailureIsReal
    BY DEF VInv, FailedIsDone, FailureIsReal
  <2> QED
    BY <2>1, <2>2, <2>3 DEF VerdictsStand
<1> QED
  BY <1>1, <1>2, <1>3, PTL DEF Spec
=============================================================================
