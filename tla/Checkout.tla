------------------------------ MODULE Checkout ------------------------------
(***************************************************************************)
(* How a release moves the branch people work on: it commits in a checkout *)
(* of its own, moves the branch by compare-and-swap, then writes the files *)
(* the commit changes into the working tree; and, when it stops before its *)
(* candidate was pushed, takes the move back the same way.  Meanwhile      *)
(* people edit those files, commit, and switch branches.                   *)
(***************************************************************************)
EXTENDS Integers, Sequences, FiniteSets

CONSTANTS
    File,        \* the repository's files
    Scope,       \* those that must be clean for a release to start
    Hazards,     \* what may happen: "window", "switch", "restore", "crash"
    MaxCommits,  \* the history's length past which nobody commits (a bound)
    MaxEdits     \* how many times people write a file (a bound)

ASSUME CheckoutAssumption ==
    /\ Scope \subseteq File
    /\ Hazards \subseteq {"window", "switch", "restore", "crash"}
    /\ MaxCommits \in Nat \ {0} /\ MaxEdits \in Nat

\* A commit is its position in log; content is who wrote it: the commit of a
\* release, or the how-manieth edit of a person.
Root == 1
None == 0
Pristine == <<"commit", Root>>

VARIABLES
    log,      \* the commits: what each contains, its tree, whose it is
    branch,   \* the release branch's tip
    on,       \* HEAD is the release branch, and not another at the root
    wt,       \* [File -> content]: the working tree and its index
    edit,     \* what a person wrote into each file and has not committed
    written,  \* how many edits people made
    torn,     \* files a broken-off move left behind the branch
    pc,       \* where the release is
    tip,      \* where it left the branch (Checkout.Tip)
    head,     \* its checkout's commit
    last,     \* the move a discard takes back (Checkout.last)
    pushed,   \* its candidate is on origin
    mine,     \* the commits of this attempt
    broke,    \* a write of its files failed
    outcome   \* how the last attempt ended
people == <<on, edit, written>>
session == <<tip, head, last, pushed, mine, broke>>
vars == <<log, branch, on, wt, edit, written, torn, pc, tip, head, last, pushed, mine, broke, outcome>>

Tree(c) == log[c].tree
Commit(c, tree, who) ==
    Append(log, [anc |-> log[c].anc \cup {Len(log) + 1}, tree |-> tree, by |-> who])
NoMove == [old |-> None, new |-> None]

HEAD == IF on THEN branch ELSE Root
Changed(c, d) == {f \in File : Tree(c)[f] # Tree(d)[f]}
LiveChanges == {f \in File : wt[f] # Tree(HEAD)[f]}

Init ==
    /\ log = <<[anc |-> {Root}, tree |-> [f \in File |-> Pristine], by |-> "person"]>>
    /\ branch = Root /\ on = TRUE
    /\ wt = [f \in File |-> Pristine]
    /\ edit = [f \in File |-> None] /\ written = 0
    /\ torn = {}
    /\ pc = "idle" /\ tip = None /\ head = None /\ last = NoMove
    /\ pushed = FALSE /\ mine = {} /\ broke = FALSE /\ outcome = "none"

-----------------------------------------------------------------------------
(* The release. *)

End(how) == pc' = "idle" /\ outcome' = how

\* Enter refuses uncommitted changes in its scope; the checkout is of the tip.
Enter ==
    /\ pc = "idle" /\ on /\ LiveChanges \cap Scope = {}
    /\ pc' = "work" /\ tip' = branch /\ head' = branch
    /\ last' = NoMove /\ pushed' = FALSE /\ mine' = {} /\ broke' = FALSE
    /\ outcome' = "none"
    /\ UNCHANGED <<log, branch, wt, torn, people>>

\* A step commits in the checkout: the bump before the push, others after it.
MakeCommit ==
    /\ pc = "work" /\ (pushed \/ last = NoMove) /\ Len(log) < MaxCommits
    /\ \E F \in (SUBSET File) \ {{}} :
           log' = Commit(head, [f \in File |-> IF f \in F THEN <<"commit", Len(log) + 1>>
                                               ELSE Tree(head)[f]], "release")
    /\ head' = Len(log) + 1 /\ mine' = mine \cup {Len(log) + 1}
    /\ pc' = "advance"
    /\ UNCHANGED <<branch, wt, torn, people, tip, last, pushed, broke, outcome>>

\* git status of the paths: the changes people made among them.
EditedInScope(paths) == LiveChanges \cap paths \cap Scope
EditedAmong(paths) == LiveChanges \cap paths

\* Advance's conditions, and those of TakeBack, which does not ask where HEAD is.
Advance ==
    /\ pc = "advance"
    /\ pc' = IF branch = tip /\ on /\ EditedAmong(Changed(tip, head)) = {}
             THEN "swap" ELSE "stop"
    /\ UNCHANGED <<log, branch, wt, torn, people, session, outcome>>

\* git update-ref with an old value: a branch somebody moved is not moved.
Swaps(from) == branch = from

SwapRef ==
    /\ pc = "swap"
    /\ IF Swaps(tip) THEN branch' = head /\ pc' = "restore"
       ELSE pc' = "stop" /\ UNCHANGED branch
    /\ UNCHANGED <<log, wt, torn, people, session, outcome>>

WrittenInScope(c, paths) == [f \in File |-> IF f \in paths \cap Scope THEN Tree(c)[f] ELSE wt[f]]
Written(c, paths) == [f \in File |-> IF f \in paths THEN Tree(c)[f] ELSE wt[f]]

Remembered(old, new) == [old |-> old, new |-> new]

\* The move is remembered only when every file is written.
RestorePaths ==
    /\ pc = "restore"
    /\ wt' = Written(head, Changed(tip, head))
    /\ torn' = torn \ Changed(tip, head)
    /\ tip' = head /\ last' = Remembered(tip, head)
    /\ pc' = "work"
    /\ UNCHANGED <<log, branch, people, head, pushed, mine, broke, outcome>>

RestoreFails ==
    /\ "restore" \in Hazards /\ pc = "restore"
    /\ \E F \in SUBSET Changed(tip, head) :
           /\ F # Changed(tip, head) /\ wt' = Written(head, F)
           /\ torn' = torn \cup (Changed(tip, head) \ F)
    /\ pc' = "stop" /\ broke' = TRUE
    /\ UNCHANGED <<log, branch, people, tip, head, last, pushed, mine, outcome>>

Push ==
    /\ pc = "work" /\ last # NoMove /\ ~pushed
    /\ pushed' = TRUE
    /\ UNCHANGED <<log, branch, wt, torn, people, pc, tip, head, last, mine, broke, outcome>>

StepFails ==
    /\ pc = "work" /\ pc' = "stop"
    /\ UNCHANGED <<log, branch, wt, torn, people, session, outcome>>

Finish ==
    /\ pc = "work" /\ pushed /\ End("released")
    /\ UNCHANGED <<log, branch, wt, torn, people, session>>

\* stop and discard: past the push all is kept; before it, the last move is
\* taken back, when there is one and when nobody's work is on it.
MovedTo == last.new

Stop ==
    /\ pc = "stop"
    /\ IF pushed THEN End("kept")
       ELSE IF MovedTo = None THEN End("discarded")
       ELSE IF branch = last.new /\ EditedAmong(Changed(last.old, last.new)) = {}
            THEN pc' = "unswap" /\ UNCHANGED outcome
       ELSE End("kept")
    /\ UNCHANGED <<log, branch, wt, torn, people, session>>

UnswapRef ==
    /\ pc = "unswap"
    /\ IF Swaps(last.new) THEN branch' = last.old /\ pc' = "unrestore" /\ UNCHANGED outcome
       ELSE End("kept") /\ UNCHANGED branch
    /\ UNCHANGED <<log, wt, torn, people, session>>

UnrestorePaths ==
    /\ pc = "unrestore"
    /\ wt' = Written(last.old, Changed(last.old, last.new))
    /\ torn' = torn \ Changed(last.old, last.new)
    /\ tip' = last.old /\ last' = NoMove /\ End("discarded")
    /\ UNCHANGED <<log, branch, people, head, pushed, mine, broke>>

UnrestoreFails ==
    LET paths == Changed(last.old, last.new)
    IN  /\ "restore" \in Hazards /\ pc = "unrestore" /\ End("failed") /\ broke' = TRUE
        /\ \E F \in SUBSET paths :
               /\ F # paths /\ wt' = Written(last.old, F)
               /\ torn' = torn \cup (paths \ F)
        /\ UNCHANGED <<log, branch, people, tip, head, last, pushed, mine>>

\* The files a broken-off move has not written are behind the branch.
Unwritten ==
    CASE pc = "restore" -> Changed(tip, head)
      [] pc = "unrestore" -> Changed(last.old, last.new)
      [] OTHER -> {}

Crash ==
    /\ "crash" \in Hazards /\ pc # "idle" /\ End("crashed")
    /\ torn' = torn \cup Unwritten
    /\ UNCHANGED <<log, branch, wt, people, session>>

-----------------------------------------------------------------------------
(* People. *)

Between == pc \in {"swap", "restore", "unswap", "unrestore"}

\* The paths of the move under way, which only the hazard lets people write.
Moving ==
    IF pc \in {"swap", "restore"} THEN Changed(tip, head)
    ELSE IF pc \in {"unswap", "unrestore"} THEN Changed(last.old, last.new) ELSE {}

Edit(f) ==
    /\ written < MaxEdits
    /\ "window" \in Hazards \/ f \notin Moving
    /\ written' = written + 1
    /\ wt' = [wt EXCEPT ![f] = <<"edit", written + 1>>]
    /\ edit' = [edit EXCEPT ![f] = written + 1]
    /\ torn' = torn \ {f}
    /\ UNCHANGED <<log, branch, on, pc, session, outcome>>

\* git restore: the file is HEAD's again.
Undo(f) ==
    /\ f \in LiveChanges
    /\ wt' = [wt EXCEPT ![f] = Tree(HEAD)[f]]
    /\ edit' = [edit EXCEPT ![f] = None]
    /\ torn' = torn \ {f}
    /\ UNCHANGED <<log, branch, on, written, pc, session, outcome>>

\* git commit of what people edited.
CommitEdits ==
    LET F == {f \in File : edit[f] # None}
    IN  /\ on /\ F # {} /\ Len(log) < MaxCommits
        /\ log' = Commit(branch, [f \in File |-> IF f \in F THEN wt[f] ELSE Tree(branch)[f]], "person")
        /\ branch' = Len(log) + 1
        /\ edit' = [f \in File |-> None]
        /\ UNCHANGED <<on, wt, written, torn, pc, session, outcome>>

\* git switch: changes are carried along, and refused where they would be
\* lost.  While a move may have to be taken back it is a hazard.
Switch ==
    LET to == IF on THEN Root ELSE branch
    IN  /\ LiveChanges \cap Changed(HEAD, to) = {}
        /\ "window" \in Hazards \/ ~Between
        /\ "switch" \in Hazards \/ pc = "idle" \/ pushed \/ last = NoMove
        /\ on' = ~on
        /\ wt' = Written(to, Changed(HEAD, to))
        /\ UNCHANGED <<log, branch, edit, written, torn, pc, session, outcome>>

Release ==
    \/ Enter \/ MakeCommit \/ Advance \/ SwapRef \/ RestorePaths \/ RestoreFails
    \/ Push \/ StepFails \/ Finish \/ Stop \/ UnswapRef \/ UnrestorePaths \/ UnrestoreFails
    \/ Crash

People == CommitEdits \/ Switch \/ \E f \in File : Edit(f) \/ Undo(f)

Next == Release \/ People

Spec == Init /\ [][Next]_vars

-----------------------------------------------------------------------------
Content == ({"commit"} \X (1 .. MaxCommits)) \cup ({"edit"} \X (1 .. MaxEdits))
Refs == 0 .. Len(log)

\* Every variable keeps its type, a ref names a commit, and a move that can
\* be taken back is onto a later commit.
TypeOK ==
    /\ log \in Seq([anc : SUBSET (1 .. MaxCommits), tree : [File -> Content],
                    by : {"person", "release"}])
    /\ branch \in 1 .. Len(log) /\ on \in BOOLEAN
    /\ wt \in [File -> Content] /\ edit \in [File -> 0 .. MaxEdits]
    /\ written \in 0 .. MaxEdits /\ torn \subseteq File
    /\ pc \in {"idle", "work", "advance", "swap", "restore", "stop", "unswap", "unrestore"}
    /\ tip \in Refs /\ head \in Refs
    /\ last \in {NoMove} \cup {m \in [old : Refs, new : Refs] : 0 < m.old /\ m.old < m.new}
    /\ pushed \in BOOLEAN /\ broke \in BOOLEAN /\ mine \subseteq 1 .. Len(log)
    /\ outcome \in {"none", "released", "kept", "discarded", "failed", "crashed"}

\* What a person wrote and has not committed stays in the working tree,
\* whatever a release moves, takes back or leaves half done.
EditsKept == \A f \in File : edit[f] # None => wt[f] = <<"edit", edit[f]>>

\* Between releases every file is the checked-out commit's or holds an edit;
\* the rest is what a move that broke off left behind, and what it names.
FilesFollowBranch ==
    pc = "idle" => \A f \in File \ torn : wt[f] = Tree(HEAD)[f] \/ edit[f] # None

\* A person's commit on the branch is never taken off it.
ForeignNeverLost ==
    [][\A c \in log[branch].anc : log[c].by = "person" => c \in log'[branch'].anc]_vars

\* When a release says it was discarded, the branch holds none of its commits,
\* if every file it had to write could be written.
DiscardIsClean == outcome = "discarded" /\ ~broke => mine \cap log[branch].anc = {}

\* The files as they are once the move under way is written out.
Settled ==
    CASE pc = "restore" -> Written(head, Changed(tip, head))
      [] pc = "unrestore" -> Written(last.old, Changed(last.old, last.new))
      [] OTHER -> wt

\* The two writes of a move are one to everybody else: the branch and the
\* files it changes move together, from where the release left the branch.
Atomic == INSTANCE AtomicAdvance WITH wt <- Settled, Nothing <- None
MovesAtOnce == Atomic!Spec
=============================================================================
