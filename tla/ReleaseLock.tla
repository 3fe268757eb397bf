---------------------------- MODULE ReleaseLock ----------------------------
(***************************************************************************)
(* What the release lock promises the commands that take it: it belongs to *)
(* one process at a time, from its first Lock taken to its last given      *)
(* back, or to the death of the process.                                   *)
(***************************************************************************)
EXTENDS Integers

CONSTANTS Thread, Proc, ProcOf, Nobody

VARIABLES
    holder,  \* the process the lock belongs to
    out      \* [Thread -> Nat]: the Locks each goroutine has

Init == holder = Nobody /\ out = [t \in Thread |-> 0]

Take(t) ==
    /\ holder \in {Nobody, ProcOf[t]}
    /\ holder' = ProcOf[t] /\ out' = [out EXCEPT ![t] = @ + 1]

Give(t) ==
    /\ out[t] > 0
    /\ out' = [out EXCEPT ![t] = @ - 1]
    /\ holder' = IF \A u \in Thread : ProcOf[u] = holder => out'[u] = 0
                 THEN Nobody ELSE holder

Die(p) ==
    /\ out' = [t \in Thread |-> IF ProcOf[t] = p THEN 0 ELSE out[t]]
    /\ holder' = IF holder = p THEN Nobody ELSE holder

Next ==
    \/ \E t \in Thread : Take(t) \/ Give(t)
    \/ \E p \in Proc : Die(p)

Spec == Init /\ [][Next]_<<holder, out>>
=============================================================================
