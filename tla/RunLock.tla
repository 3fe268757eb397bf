------------------------------ MODULE RunLock ------------------------------
(***************************************************************************)
(* The advisory lock of a repository's release state: flock(2) on a file   *)
(* that is never removed, the table of the locks a process holds, guarded  *)
(* by a mutex, and the `lock' check, which probes the flock to tell an     *)
(* interrupted release from a live one.                                    *)
(***************************************************************************)
EXTENDS Integers, FiniteSets

CONSTANTS
    Thread,     \* the goroutines of all processes
    Proc,       \* the processes
    ProcOf,     \* [Thread -> Proc]
    Nobody,     \* no thread
    MaxCalls    \* how many commands and checks run (a bound)

\* What a run gives the constants, and every theorem assumes of them.
RunLockAssumption ==
    /\ ProcOf \in [Thread -> Proc]
    /\ Nobody \notin Thread
    /\ MaxCalls \in Nat

\* A descriptor of the lock file: one opened to hold it, or to probe it.
Fd == Thread \X {"lock", "probe"}
Unlocked == <<Nobody, "none">>

VARIABLES
    file,    \* the lock file exists
    flock,   \* the descriptor the kernel's lock belongs to
    mu,      \* [Proc -> Thread]: who holds heldMu
    locks,   \* [Proc -> [fd, depth]]: this process's entry in locks
    inprog,  \* a release's in-progress state exists
    pc,      \* where each goroutine is
    wait,    \* what its Acquire does when the lock is held
    mine,    \* the Locks it took and has not released
    answer,  \* what its last call returned
    calls
vars == <<file, flock, mu, locks, inprog, pc, wait, mine, answer, calls>>

NoEntry == [fd |-> Nobody, depth |-> 0]
Holds(p) == locks[p].fd # Nobody

Init ==
    /\ file \in BOOLEAN /\ flock = Unlocked
    /\ mu = [p \in Proc |-> Nobody]
    /\ locks = [p \in Proc |-> NoEntry]
    /\ inprog = FALSE
    /\ pc = [t \in Thread |-> "idle"]
    /\ wait = [t \in Thread |-> "refuse"]
    /\ mine = [t \in Thread |-> 0]
    /\ answer = [t \in Thread |-> "none"]
    /\ calls = 0

-----------------------------------------------------------------------------
Goto(t, l) == pc' = [pc EXCEPT ![t] = l]
Answer(t, a) == Goto(t, "idle") /\ answer' = [answer EXCEPT ![t] = a]
Enter(t) == mu' = [mu EXCEPT ![ProcOf[t]] = t]
Leave(t) == mu' = [mu EXCEPT ![ProcOf[t]] = Nobody]

Call(t, l) ==
    /\ pc[t] = "idle" /\ calls < MaxCalls
    /\ calls' = calls + 1
    /\ Goto(t, l) /\ answer' = [answer EXCEPT ![t] = "none"]

(* Acquire. *)

Acquire(t) ==
    /\ Call(t, "acquire")
    /\ \E w \in {"wait", "refuse"} : wait' = [wait EXCEPT ![t] = w]
    /\ UNCHANGED <<file, flock, mu, locks, inprog, mine>>

Shared(h) == h
Deepened(h) == [h EXCEPT !.depth = @ + 1]

\* Under heldMu: a lock this process holds is nested; any other is taken.
Look(t) ==
    LET p == ProcOf[t]
    IN  /\ pc[t] = "acquire" /\ mu[p] = Nobody
        /\ \/ /\ Holds(p)
              /\ locks' = [locks EXCEPT ![p] = Deepened(@)]
              /\ mine' = [mine EXCEPT ![t] = @ + 1]
              /\ Answer(t, "taken") /\ UNCHANGED mu
           \/ /\ ~Holds(p)
              /\ Goto(t, IF file THEN "open" ELSE "create") /\ Enter(t)
              /\ UNCHANGED <<locks, mine, answer>>
        /\ UNCHANGED <<file, flock, inprog, wait, calls>>

\* The file is missing: a preview takes nothing, anything else creates it.
Create(t) ==
    /\ pc[t] = "create"
    /\ \/ file' = TRUE /\ Goto(t, "open") /\ UNCHANGED <<mu, answer>>
       \/ Answer(t, "preview") /\ Leave(t) /\ UNCHANGED file
    /\ UNCHANGED <<flock, locks, inprog, wait, mine, calls>>

\* flock conflicts between any two descriptors, those of one process too.
Free(t) == flock = Unlocked

\* flock without waiting: taken; or held, and refused or waited for, with
\* heldMu let go; or the descriptor cannot be opened or locked.
TryLock(t) ==
    /\ pc[t] = "open"
    /\ \/ /\ Free(t)
          /\ flock' = <<t, "lock">> /\ Goto(t, "register")
          /\ UNCHANGED <<mu, answer>>
       \/ /\ ~Free(t) /\ wait[t] = "refuse"
          /\ Answer(t, "refused") /\ Leave(t) /\ UNCHANGED flock
       \/ /\ ~Free(t) /\ wait[t] = "wait"
          /\ Goto(t, "blocked") /\ Leave(t) /\ UNCHANGED <<flock, answer>>
       \/ /\ Answer(t, "error") /\ Leave(t) /\ UNCHANGED flock
    /\ UNCHANGED <<file, locks, inprog, wait, mine, calls>>

\* The kernel gives the lock to one of those waiting.
Granted(t) ==
    /\ pc[t] = "blocked" /\ Free(t)
    /\ flock' = <<t, "lock">> /\ Goto(t, "register")
    /\ UNCHANGED <<file, mu, locks, inprog, wait, mine, answer, calls>>

\* Under heldMu, taken again by one that waited: the process's holder.
Register(t) ==
    LET p == ProcOf[t]
    IN  /\ pc[t] = "register" /\ mu[p] \in {t, Nobody}
        /\ locks' = [locks EXCEPT ![p] = [fd |-> t, depth |-> 0]]
        /\ mine' = [mine EXCEPT ![t] = @ + 1]
        /\ Answer(t, "taken") /\ Leave(t)
        /\ UNCHANGED <<file, flock, inprog, wait, calls>>

(* Lock.Release. *)

Outermost(h) == h.depth = 0

LeavesLocked == UNCHANGED flock
Unlocks == flock' = Unlocked

\* A nested Lock leaves the lock with its outer holder; the outermost takes
\* the entry away and unlocks.
Given(h) == IF h.fd = Nobody \/ Outermost(h) THEN NoEntry ELSE [h EXCEPT !.depth = @ - 1]

Release(t) ==
    LET p == ProcOf[t]
    IN  /\ pc[t] = "idle" /\ mine[t] > 0 /\ mu[p] = Nobody
        /\ mine' = [mine EXCEPT ![t] = @ - 1]
        /\ locks' = [locks EXCEPT ![p] = Given(@)]
        /\ IF Holds(p) /\ Outermost(locks[p]) THEN Unlocks ELSE UNCHANGED flock
        /\ UNCHANGED <<file, mu, inprog, pc, wait, answer, calls>>

(* The work the lock is for, as far as the check sees it. *)

WriteState(t) ==
    /\ pc[t] = "idle" /\ mine[t] > 0
    /\ inprog' = ~inprog
    /\ UNCHANGED <<file, flock, mu, locks, pc, wait, mine, answer, calls>>

(* checkLock: ExistsUnheld's flock and unlock, whether the file exists, and *)
(* then the in-progress states.                                             *)

Probe(t) ==
    /\ Call(t, IF file THEN "probe" ELSE "absent")
    /\ UNCHANGED <<file, flock, mu, locks, inprog, wait, mine>>

\* A file ExistsUnheld did not find and the check does is taken for a held one.
LookAgain(t) ==
    /\ pc[t] = "absent"
    /\ IF file THEN Answer(t, "live") ELSE Goto(t, "judge") /\ UNCHANGED answer
    /\ UNCHANGED <<file, flock, mu, locks, inprog, wait, mine, calls>>

TryProbe(t) ==
    /\ pc[t] = "probe"
    /\ \/ /\ Free(t)
          /\ flock' = <<t, "probe">> /\ Goto(t, "probing") /\ UNCHANGED answer
       \/ /\ ~Free(t)
          /\ Answer(t, "live") /\ UNCHANGED flock
       \/ Answer(t, "error") /\ UNCHANGED flock
    /\ UNCHANGED <<file, mu, locks, inprog, wait, mine, calls>>

EndProbe(t) ==
    /\ pc[t] = "probing"
    /\ flock' = Unlocked /\ Goto(t, "judge")
    /\ UNCHANGED <<file, mu, locks, inprog, wait, mine, answer, calls>>

Report(t) ==
    /\ pc[t] = "judge"
    /\ Answer(t, IF inprog THEN "interrupted" ELSE "clean")
    /\ UNCHANGED <<file, flock, mu, locks, inprog, wait, mine, calls>>

(* A process dies: its memory goes, and the kernel drops its lock. *)

Crash(p) ==
    LET dead == {t \in Thread : ProcOf[t] = p}
    IN  /\ \E t \in dead : pc[t] # "idle" \/ mine[t] > 0
        /\ pc' = [t \in Thread |-> IF t \in dead THEN "idle" ELSE pc[t]]
        /\ mine' = [t \in Thread |-> IF t \in dead THEN 0 ELSE mine[t]]
        /\ answer' = [t \in Thread |-> IF t \in dead THEN "none" ELSE answer[t]]
        /\ mu' = [mu EXCEPT ![p] = Nobody]
        /\ locks' = [locks EXCEPT ![p] = NoEntry]
        /\ flock' = IF flock[1] \in dead THEN Unlocked ELSE flock
        /\ UNCHANGED <<file, inprog, wait, calls>>

Progress(t) ==
    \/ Look(t) \/ Create(t) \/ TryLock(t) \/ Granted(t) \/ Register(t)
    \/ Release(t) \/ LookAgain(t) \/ TryProbe(t) \/ EndProbe(t) \/ Report(t)

Next ==
    \/ \E t \in Thread : Acquire(t) \/ Probe(t) \/ WriteState(t) \/ Progress(t)
    \/ \E p \in Proc : Crash(p)

Spec == Init /\ [][Next]_vars

\* Every goroutine keeps running, and gives back the Locks it took.
FairSpec == Spec /\ \A t \in Thread : WF_vars(Progress(t))

-----------------------------------------------------------------------------
Places == {"idle", "acquire", "create", "open", "blocked", "register",
           "absent", "probe", "probing", "judge"}
Answers == {"none", "taken", "preview", "refused", "error", "live",
            "interrupted", "clean"}

\* Every variable keeps its type; a nesting depth is never negative.
TypeOK ==
    /\ file \in BOOLEAN /\ inprog \in BOOLEAN
    /\ flock \in Fd \cup {Unlocked}
    /\ mu \in [Proc -> Thread \cup {Nobody}]
    /\ locks \in [Proc -> [fd : Thread \cup {Nobody}, depth : Nat]]
    /\ pc \in [Thread -> Places]
    /\ wait \in [Thread -> {"wait", "refuse"}]
    /\ mine \in [Thread -> Nat]
    /\ answer \in [Thread -> Answers]
    /\ calls \in Nat

\* A process with an entry in its table holds the kernel's lock by that
\* entry's descriptor, and so one process at a time has an entry, however
\* nested, concurrent and waiting acquires, releases, probes and crashes mix.
TableHolds == \A p \in Proc : Holds(p) => flock = <<locks[p].fd, "lock">>
Exclusive == \A p, q \in Proc : Holds(p) /\ Holds(q) => p = q

\* The lock keeps its promise to the commands that take it.
Holder == IF \E p \in Proc : Holds(p) THEN CHOOSE p \in Proc : Holds(p) ELSE Nobody
Promise == INSTANCE ReleaseLock WITH holder <- Holder, out <- mine
KeepsPromise == Promise!Spec

\* The kernel's lock never stays with nobody to give it back.
NeverOrphaned ==
    flock # Unlocked =>
        LET t == flock[1]
        IN  \/ locks[ProcOf[t]].fd = t /\ flock[2] = "lock"
            \/ pc[t] = "register" /\ flock[2] = "lock"
            \/ pc[t] = "probing" /\ flock[2] = "probe"

\* An Acquire that waits for a holder ends, when holders give the lock back.
WaitsEnd == \A t \in Thread : pc[t] = "blocked" ~> pc[t] # "blocked"

=============================================================================
