----------------------------- MODULE MCCheckout -----------------------------
(* What a release takes before it works, the run's lock and a checkout of    *)
(* its own.  A behaviour is either of Checkout, with a file releases must    *)
(* find clean and one that may be changed when they start; or of RunLock,    *)
(* with one process of two goroutines beside another of one.                 *)
EXTENDS Checkout
CONSTANTS scoped, other, a1, a2, b1, A, B, Nobody

TwoFiles == {scoped, other}
OneScoped == {scoped}
Threads == {a1, a2, b1}

VARIABLES
    file, flock, mu, locks, inprog, at, wait, taken, answer, calls,
    about    \* what the behaviour is about: "checkout" or "lock"

L == INSTANCE RunLock WITH
       Thread <- Threads, Proc <- {A, B}, ProcOf <- [t \in Threads |-> IF t = b1 THEN B ELSE A],
       MaxCalls <- 4, pc <- at, mine <- taken

lockVars == <<file, flock, mu, locks, inprog, at, wait, taken, answer, calls>>
all == <<vars, lockVars, about>>

ASSUME MCAssumption == L!RunLockAssumption

KeepsPromise == L!KeepsPromise
WaitsEnd == L!WaitsEnd

MCInit ==
  /\ Init /\ L!Init
  /\ \/ about = "checkout" /\ file
     \/ about = "lock"
MCNext ==
  \/ about = "checkout" /\ Next /\ UNCHANGED <<lockVars, about>>
  \/ about = "lock" /\ L!Next /\ UNCHANGED <<vars, about>>
MCSpec ==
  /\ MCInit /\ [][MCNext]_all
  /\ \A t \in Threads : WF_all(L!Progress(t) /\ UNCHANGED <<vars, about>>)
=============================================================================
