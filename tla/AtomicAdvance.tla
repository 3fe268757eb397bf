--------------------------- MODULE AtomicAdvance ---------------------------
(***************************************************************************)
(* What a move of the release branch promises the people working on it:    *)
(* the branch and the files it changes move in one step, only onto or off  *)
(* a commit of the release, and never over a change of theirs.  A release  *)
(* that dies may leave files behind the branch, never an edit.             *)
(***************************************************************************)
EXTENDS Integers, Sequences

CONSTANTS File, Nothing

VARIABLES log, branch, on, wt, edit
state == <<log, branch, on, wt, edit>>

Tree(c) == log[c].tree
HEAD == IF on THEN branch ELSE 1
Changed(c, d) == {f \in File : Tree(c)[f] # Tree(d)[f]}
Clean(F) == \A f \in F : wt[f] = Tree(HEAD)[f] /\ edit[f] = Nothing
Written(c, F) == [f \in File |-> IF f \in F THEN Tree(c)[f] ELSE wt[f]]

Init ==
    /\ Len(log) = 1 /\ branch = 1 /\ on = TRUE
    /\ wt = Tree(1) /\ edit = [f \in File |-> Nothing]

\* A release commits beside the branch.
Prepare == \E c \in {Len(log) + 1} :
    /\ Len(log') = c /\ SubSeq(log', 1, Len(log)) = log /\ log'[c].by = "release"
    /\ UNCHANGED <<branch, on, wt, edit>>

\* Onto a release's commit on top of the branch, or off it again.
Move == \E c \in 1 .. Len(log) :
    /\ \/ log[c].by = "release" /\ branch \in log[c].anc
       \/ log[branch].by = "release" /\ log[c].anc = log[branch].anc \ {branch}
    /\ on /\ Clean(Changed(branch, c))
    /\ branch' = c /\ wt' = Written(c, Changed(branch, c))
    /\ UNCHANGED <<log, on, edit>>

\* A release dies over files nobody had edited.
Tear ==
    /\ \E F \in SUBSET File, c \in 1 .. Len(log) :
           Clean(F) /\ wt' = Written(c, F)
    /\ UNCHANGED <<log, branch, on, edit>>

\* A person writes a file, or undoes a change of it.
Edit == \E f \in File :
    /\ \A g \in File \ {f} : wt'[g] = wt[g] /\ edit'[g] = edit[g]
    /\ edit'[f] # Nothing \/ wt'[f] = Tree(HEAD)[f]
    /\ UNCHANGED <<log, branch, on>>

\* A person commits what people edited.
CommitEdits ==
    /\ on /\ Len(log') = Len(log) + 1 /\ SubSeq(log', 1, Len(log)) = log
    /\ branch' = Len(log')
    /\ log'[branch'].anc = log[branch].anc \cup {branch'} /\ log'[branch'].by = "person"
    /\ \A f \in File : log'[branch'].tree[f] = IF edit[f] # Nothing THEN wt[f] ELSE Tree(branch)[f]
    /\ edit' = [f \in File |-> Nothing] /\ UNCHANGED <<on, wt>>

\* A person changes branches.
Switch == LET to == IF on THEN 1 ELSE branch IN
    /\ \A f \in Changed(HEAD, to) : wt[f] = Tree(HEAD)[f]
    /\ on' = ~on /\ wt' = Written(to, Changed(HEAD, to))
    /\ UNCHANGED <<log, branch, edit>>

Next == Prepare \/ Move \/ Tear \/ Edit \/ CommitEdits \/ Switch

Spec == Init /\ [][Next]_state
=============================================================================
