--------------------------- MODULE CheckoutProofs ---------------------------
(* Proofs about Checkout, for any files, scope and numbers of commits and    *)
(* edits.                                                                    *)
EXTENDS Checkout, TLAPS

Commits == [anc : SUBSET (1 .. MaxCommits), tree : [File -> Content], by : {"person", "release"}]

\* d is a release's commit made on c.
OnTop(c, d) ==
    /\ c \in 1 .. Len(log) /\ d \in 1 .. Len(log) /\ c < d
    /\ log[d].anc = log[c].anc \cup {d} /\ log[d].by = "release"

\* Where the release is, what it made and what it would take back agree.
Position ==
    /\ pc # "idle" => tip \in 1 .. Len(log) /\ head \in 1 .. Len(log)
    /\ pc = "work" => head = tip
    /\ pc \in {"advance", "swap", "restore"} => OnTop(tip, head)
    /\ last # NoMove => OnTop(last.old, last.new)
    /\ pc \in {"unswap", "unrestore"} => last # NoMove
    /\ \A c \in 1 .. Len(log) : log[c].anc \subseteq 1 .. c
    /\ Len(log) <= MaxCommits

Structure == TypeOK /\ Position

\* Appending a commit keeps every other one.
LEMMA Appended ==
    ASSUME Structure, NEW c \in 1 .. Len(log), NEW tree \in [File -> Content],
           NEW who \in {"person", "release"}, log' = Commit(c, tree, who),
           Len(log) < MaxCommits
    PROVE  /\ Len(log') = Len(log) + 1
           /\ \A d \in 1 .. Len(log) : log'[d] = log[d]
           /\ log'[Len(log) + 1] = [anc |-> log[c].anc \cup {Len(log) + 1}, tree |-> tree, by |-> who]
           /\ log' \in Seq(Commits)
           /\ Len(log) \in Nat /\ Len(log) + 1 \in 1 .. MaxCommits
<1> DEFINE new == [anc |-> log[c].anc \cup {Len(log) + 1}, tree |-> tree, by |-> who]
<1>1. log \in Seq(Commits) /\ Len(log) \in Nat
  BY DEF Structure, TypeOK, Commits
<1>2. Len(log) + 1 \in 1 .. MaxCommits
  BY <1>1, CheckoutAssumption
<1>3. log[c] \in Commits
  BY <1>1
<1>4. new \in Commits
  BY <1>2, <1>3 DEF Commits
<1>5. log' = Append(log, new)
  BY DEF Commit
<1> HIDE DEF new
<1>6. /\ log' \in Seq(Commits) /\ Len(log') = Len(log) + 1
      /\ \A d \in 1 .. Len(log) : log'[d] = log[d]
      /\ log'[Len(log) + 1] = new
  BY <1>1, <1>4, <1>5
<1> QED
  BY <1>1, <1>2, <1>6 DEF new

\* Every tree in the history is a tree, and what is written from it is one.
LEMMA Trees ==
    ASSUME Structure, NEW c \in 1 .. Len(log)
    PROVE  /\ Tree(c) \in [File -> Content]
           /\ \A F \in SUBSET File : Written(c, F) \in [File -> Content]
<1>1. log \in Seq(Commits) /\ wt \in [File -> Content]
  BY DEF Structure, TypeOK, Commits
<1>2. log[c] \in Commits
  BY <1>1
<1>3. Tree(c) \in [File -> Content]
  BY <1>2 DEF Tree, Commits
<1> QED
  BY <1>1, <1>3 DEF Written

\* Every step keeps the types and the positions.
LEMMA StructureKept == Structure /\ Next => Structure'
<1> SUFFICES ASSUME Structure, Next PROVE Structure'
  OBVIOUS
<1>t. TypeOK /\ Position
  BY DEF Structure
<1>n. Len(log) \in Nat /\ Len(log) >= 1 /\ branch \in 1 .. Len(log)
  BY <1>t DEF TypeOK
<1>c. \A c, d : Changed(c, d) \in SUBSET File
  BY DEF Changed
<1>1. CASE Enter
  <2>1. /\ UNCHANGED <<log, branch, wt, torn, on, edit, written>>
        /\ pc' = "work" /\ tip' = branch /\ head' = branch /\ last' = NoMove
        /\ pushed' = FALSE /\ mine' = {} /\ broke' = FALSE /\ outcome' = "none"
    BY <1>1 DEF Enter, people
  <2>2. TypeOK'
    <3>1. /\ branch' \in 1 .. Len(log') /\ tip' \in Refs' /\ head' \in Refs'
          /\ mine' \subseteq 1 .. Len(log')
      BY <1>n, <2>1 DEF Refs
    <3>2. /\ wt' \in [File -> Content] /\ edit' \in [File -> 0 .. MaxEdits]
          /\ written' \in 0 .. MaxEdits /\ torn' \subseteq File
          /\ log' \in Seq([anc : SUBSET (1 .. MaxCommits), tree : [File -> Content],
                          by : {"person", "release"}])
      BY <1>t, <2>1 DEF TypeOK
    <3>3. on' \in BOOLEAN /\ pushed' \in BOOLEAN /\ broke' \in BOOLEAN
      BY <1>t, <2>1, Zenon DEF TypeOK
    <3> QED
      BY <2>1, <3>1, <3>2, <3>3 DEF TypeOK
  <2>3. Position'
    <3>1. \A c \in 1 .. Len(log) : log[c].anc \subseteq 1 .. c
      BY <1>t DEF Position
    <3>2. Len(log) <= MaxCommits
      BY <1>t DEF Position
    <3>3. pc' = "work" /\ tip' = head' /\ last' = NoMove /\ log' = log /\ tip' \in 1 .. Len(log)
      BY <1>n, <2>1
    <3> QED
      BY <3>1, <3>2, <3>3 DEF Position
  <2> QED
    BY <2>2, <2>3 DEF Structure
<1>2. CASE MakeCommit
  <2>1. PICK F \in (SUBSET File) \ {{}} :
          log' = Commit(head, [f \in File |-> IF f \in F THEN <<"commit", Len(log) + 1>>
                                              ELSE Tree(head)[f]], "release")
    BY <1>2 DEF MakeCommit
  <2> DEFINE tree == [f \in File |-> IF f \in F THEN <<"commit", Len(log) + 1>> ELSE Tree(head)[f]]
  <2>2. pc = "work" /\ head = tip /\ head \in 1 .. Len(log) /\ Len(log) < MaxCommits
    BY <1>2, <1>t DEF MakeCommit, Position
  <2>3. <<"commit", Len(log) + 1>> \in Content
    BY <1>n, <2>2, CheckoutAssumption DEF Content
  <2>4. tree \in [File -> Content]
    BY <2>2, <2>3, Trees
  <2> HIDE DEF tree
  <2>5. /\ Len(log') = Len(log) + 1
        /\ \A d \in 1 .. Len(log) : log'[d] = log[d]
        /\ log'[Len(log) + 1] = [anc |-> log[head].anc \cup {Len(log) + 1}, tree |-> tree, by |-> "release"]
        /\ log' \in Seq(Commits)
    BY <2>1, <2>2, <2>4, Appended DEF tree
  <2>6. TypeOK'
    <3>1. /\ UNCHANGED <<branch, wt, torn, on, edit, written, tip, last, pushed, broke, outcome>>
          /\ head' = Len(log) + 1 /\ mine' = mine \cup {Len(log) + 1} /\ pc' = "advance"
      BY <1>2 DEF MakeCommit, people
    <3>2. Refs \subseteq Refs' /\ Len(log) + 1 \in Refs'
      BY <1>n, <2>5 DEF Refs
    <3>3. last' \in {NoMove} \cup {m \in [old : Refs', new : Refs'] : 0 < m.old /\ m.old < m.new}
      BY <1>t, <3>1, <3>2 DEF TypeOK
    <3>4. tip' \in Refs' /\ head' \in Refs' /\ branch' \in 1 .. Len(log') /\ mine' \subseteq 1 .. Len(log')
      <4>1. tip \in Refs /\ mine \subseteq 1 .. Len(log)
        BY <1>t DEF TypeOK
      <4>2. 1 .. Len(log) \subseteq 1 .. Len(log') /\ Len(log) + 1 \in 1 .. Len(log')
        BY <1>n, <2>5
      <4> QED
        BY <1>n, <3>1, <3>2, <4>1, <4>2
    <3>5. log' \in Seq([anc : SUBSET (1 .. MaxCommits), tree : [File -> Content],
                        by : {"person", "release"}])
      BY <2>5 DEF Commits
    <3>6. on' \in BOOLEAN /\ pushed' \in BOOLEAN /\ broke' \in BOOLEAN
      BY <1>t, <3>1, Zenon DEF TypeOK
    <3>7. /\ wt' \in [File -> Content] /\ edit' \in [File -> 0 .. MaxEdits]
          /\ written' \in 0 .. MaxEdits /\ torn' \subseteq File
      BY <1>t, <3>1 DEF TypeOK
    <3>8. /\ pc' \in {"idle", "work", "advance", "swap", "restore", "stop", "unswap", "unrestore"}
          /\ outcome' \in {"none", "released", "kept", "discarded", "failed", "crashed"}
      BY <1>t, <3>1 DEF TypeOK
    <3> QED
      BY <3>3, <3>4, <3>5, <3>6, <3>7, <3>8 DEF TypeOK
  <2>7. OnTop(tip, head)'
    <3>1. tip' = head /\ head' = Len(log) + 1
      BY <1>2, <2>2 DEF MakeCommit
    <3>2. log'[head] = log[head] /\ head < Len(log) + 1 /\ head \in 1 .. Len(log')
          /\ Len(log) + 1 \in 1 .. Len(log')
      BY <1>n, <2>2, <2>5
    <3>3. log'[Len(log) + 1].anc = log[head].anc \cup {Len(log) + 1}
          /\ log'[Len(log) + 1].by = "release"
      BY <2>5
    <3> QED
      BY <3>1, <3>2, <3>3 DEF OnTop
  <2>8. last' # NoMove => OnTop(last.old, last.new)'
    <3>1. \A c, d : OnTop(c, d) => OnTop(c, d)'
      BY <1>n, <2>5 DEF OnTop
    <3> QED
      BY <1>t, <3>1, <1>2 DEF MakeCommit, Position
  <2>9. \A c \in 1 .. Len(log') : log'[c].anc \subseteq 1 .. c
    BY <1>t, <1>n, <2>2, <2>5 DEF Position
  <2>10. Position'
    <3>1. pc' = "advance" /\ tip' = tip /\ head' = Len(log) + 1
      BY <1>2 DEF MakeCommit
    <3>2. tip' \in 1 .. Len(log') /\ head' \in 1 .. Len(log') /\ Len(log') <= MaxCommits
      BY <1>n, <2>2, <2>5, <3>1, CheckoutAssumption
    <3> QED
      BY <2>7, <2>8, <2>9, <3>1, <3>2 DEF Position
  <2> QED
    BY <2>6, <2>10 DEF Structure
<1>3. CASE Advance \/ SwapRef \/ Push \/ StepFails \/ Finish \/ Stop \/ UnswapRef \/ Crash
  <2>1. UNCHANGED <<log, wt, edit, on, written, tip, head, last, mine, broke>> /\ torn' \subseteq File
    BY <1>3, <1>t, <1>c DEF Advance, SwapRef, Push, StepFails, Finish, Stop, UnswapRef, Crash,
            people, session, Unwritten, TypeOK
  <2>2. branch' \in 1 .. Len(log)
    BY <1>3, <1>t, <1>n DEF Advance, SwapRef, Push, StepFails, Finish, Stop, UnswapRef, Crash, Position, OnTop
  <2>3. /\ pc' \in {"idle", "work", "advance", "swap", "restore", "stop", "unswap", "unrestore"}
        /\ outcome' \in {"none", "released", "kept", "discarded", "failed", "crashed"}
        /\ pushed' \in BOOLEAN
    BY <1>3, <1>t DEF Advance, SwapRef, Push, StepFails, Finish, Stop, UnswapRef, Crash,
            session, End, TypeOK
  <2>4. TypeOK'
    BY <1>t, <2>1, <2>2, <2>3 DEF TypeOK, Refs
  <2>5. /\ pc' # "idle" => pc # "idle"
        /\ pc' = "work" => pc = "work"
        /\ pc' \in {"advance", "swap", "restore"} => pc \in {"advance", "swap", "restore"}
        /\ pc' \in {"unswap", "unrestore"} => last # NoMove
    BY <1>3, <1>t DEF Advance, SwapRef, Push, StepFails, Finish, Stop, UnswapRef, Crash,
            End, Position, MovedTo, NoMove
  <2>6. Position'
    BY <1>t, <2>1, <2>5 DEF Position, OnTop
  <2> QED
    BY <2>4, <2>6 DEF Structure
<1>4. CASE RestorePaths
  <2>1. OnTop(tip, head) /\ wt' \in [File -> Content]
    BY <1>4, <1>t, <1>c, Trees DEF RestorePaths, Position, OnTop
  <2>2. Remembered(tip, head) \in {m \in [old : Refs, new : Refs] : 0 < m.old /\ m.old < m.new}
    BY <1>n, <2>1 DEF Remembered, OnTop, Refs
  <2> QED
    BY <1>4, <1>t, <1>n, <2>1, <2>2
       DEF RestorePaths, Structure, TypeOK, Position, OnTop, Remembered, people, Refs
<1>5. CASE RestoreFails
  <2>1. wt' \in [File -> Content]
    <3>1. PICK F \in SUBSET Changed(tip, head) : wt' = Written(head, F)
      BY <1>5 DEF RestoreFails
    <3>2. F \in SUBSET File /\ head \in 1 .. Len(log)
      BY <1>5, <1>t, <1>c, <3>1 DEF RestoreFails, Position
    <3> QED
      BY <3>1, <3>2, Trees
  <2>2. torn' \subseteq File
    BY <1>5, <1>t, <1>c DEF RestoreFails, TypeOK
  <2> QED
    BY <1>5, <1>t, <2>1, <2>2 DEF RestoreFails, Structure, TypeOK, Position, OnTop, people, session, Refs
<1>6. CASE UnrestorePaths
  <2>1. OnTop(last.old, last.new) /\ wt' \in [File -> Content]
    BY <1>6, <1>t, <1>c, Trees DEF UnrestorePaths, Position, OnTop
  <2> QED
    BY <1>6, <1>t, <1>n, <2>1
       DEF UnrestorePaths, End, Structure, TypeOK, Position, OnTop, people, Refs, NoMove
<1>7. CASE UnrestoreFails
  <2>1. wt' \in [File -> Content]
    <3>1. PICK F \in SUBSET Changed(last.old, last.new) : wt' = Written(last.old, F)
      BY <1>7 DEF UnrestoreFails
    <3>2. F \in SUBSET File /\ last.old \in 1 .. Len(log)
      BY <1>7, <1>t, <1>c, <3>1 DEF UnrestoreFails, Position, OnTop
    <3> QED
      BY <3>1, <3>2, Trees
  <2>2. torn' \subseteq File
    BY <1>7, <1>t, <1>c DEF UnrestoreFails, TypeOK
  <2> QED
    BY <1>7, <1>t, <2>1, <2>2 DEF UnrestoreFails, End, Structure, TypeOK, Position, OnTop, people, session, Refs
<1>8. ASSUME NEW f \in File, Edit(f) PROVE Structure'
  <2>1. written + 1 \in 1 .. MaxEdits
    BY <1>8, <1>t, CheckoutAssumption DEF Edit, TypeOK
  <2>2. wt' \in [File -> Content] /\ edit' \in [File -> 0 .. MaxEdits]
    BY <1>8, <1>t, <2>1 DEF Edit, TypeOK, Content
  <2> QED
    BY <1>8, <1>t, <2>1, <2>2 DEF Edit, Structure, TypeOK, Position, OnTop, session, Refs
<1>9. ASSUME NEW f \in File, Undo(f) PROVE Structure'
  <2>1. HEAD \in 1 .. Len(log)
    BY <1>n DEF HEAD, Root
  <2>2. Tree(HEAD) \in [File -> Content]
    BY <2>1, Trees
  <2> QED
    BY <1>9, <1>t, <2>2, CheckoutAssumption DEF Undo, Structure, TypeOK, Position, OnTop, session, Refs, None
<1>10. CASE CommitEdits
  <2> DEFINE F == {f \in File : edit[f] # None}
  <2> DEFINE tree == [f \in File |-> IF f \in F THEN wt[f] ELSE Tree(branch)[f]]
  <2>1. log' = Commit(branch, tree, "person") /\ Len(log) < MaxCommits
    BY <1>10 DEF CommitEdits
  <2>2. tree \in [File -> Content]
    BY <1>t, <1>n, Trees DEF TypeOK
  <2> HIDE DEF tree
  <2>3. /\ Len(log') = Len(log) + 1
        /\ \A d \in 1 .. Len(log) : log'[d] = log[d]
        /\ log'[Len(log) + 1] = [anc |-> log[branch].anc \cup {Len(log) + 1}, tree |-> tree, by |-> "person"]
        /\ log' \in Seq(Commits)
    BY <1>n, <2>1, <2>2, Appended
  <2>4. edit' \in [File -> 0 .. MaxEdits]
    BY <1>10, CheckoutAssumption DEF CommitEdits, None
  <2>5. TypeOK'
    <3>1. /\ UNCHANGED <<on, wt, written, torn, pc, tip, head, last, pushed, mine, broke, outcome>>
          /\ branch' = Len(log) + 1
      BY <1>10 DEF CommitEdits, session
    <3>2. Refs \subseteq Refs' /\ Len(log) + 1 \in Refs'
      BY <1>n, <2>3 DEF Refs
    <3>3. last' \in {NoMove} \cup {m \in [old : Refs', new : Refs'] : 0 < m.old /\ m.old < m.new}
      BY <1>t, <3>1, <3>2 DEF TypeOK
    <3>4. tip' \in Refs' /\ head' \in Refs' /\ branch' \in 1 .. Len(log') /\ mine' \subseteq 1 .. Len(log')
      BY <1>t, <1>n, <2>3, <3>1, <3>2 DEF TypeOK
    <3>5. log' \in Seq([anc : SUBSET (1 .. MaxCommits), tree : [File -> Content],
                        by : {"person", "release"}])
      BY <2>3 DEF Commits
    <3>6. on' \in BOOLEAN /\ pushed' \in BOOLEAN /\ broke' \in BOOLEAN
      BY <1>t, <3>1, Zenon DEF TypeOK
    <3>7. /\ wt' \in [File -> Content] /\ edit' \in [File -> 0 .. MaxEdits]
          /\ written' \in 0 .. MaxEdits /\ torn' \subseteq File
      BY <1>t, <3>1, <2>4 DEF TypeOK
    <3>8. /\ pc' \in {"idle", "work", "advance", "swap", "restore", "stop", "unswap", "unrestore"}
          /\ outcome' \in {"none", "released", "kept", "discarded", "failed", "crashed"}
      BY <1>t, <3>1 DEF TypeOK
    <3> QED
      BY <3>3, <3>4, <3>5, <3>6, <3>7, <3>8 DEF TypeOK
  <2>6. \A c, d : OnTop(c, d) => OnTop(c, d)'
    BY <1>n, <2>3 DEF OnTop
  <2>7. \A c \in 1 .. Len(log') : log'[c].anc \subseteq 1 .. c
    BY <1>t, <1>n, <2>3 DEF Position
  <2>8. Position'
    <3>1. UNCHANGED <<pc, tip, head, last>>
      BY <1>10 DEF CommitEdits, session
    <3>2. pc' # "idle" => tip' \in 1 .. Len(log') /\ head' \in 1 .. Len(log')
      BY <1>t, <1>n, <2>3, <3>1 DEF Position
    <3>3. Len(log') <= MaxCommits
      BY <1>n, <2>1, <2>3, CheckoutAssumption
    <3> QED
      BY <1>t, <2>6, <2>7, <3>1, <3>2, <3>3 DEF Position
  <2> QED
    BY <2>5, <2>8 DEF Structure
<1>11. CASE Switch
  <2>1. wt' \in [File -> Content]
    BY <1>11, <1>n, <1>c, Trees DEF Switch, Root
  <2> QED
    BY <1>11, <1>t, <2>1 DEF Switch, Structure, TypeOK, Position, OnTop, session, Refs
<1> QED
  BY <1>1, <1>2, <1>3, <1>4, <1>5, <1>6, <1>7, <1>8, <1>9, <1>10, <1>11 DEF Next, Release, People

\* The inductive invariant the other theorems rest on.
THEOREM StructureHolds == Spec => []Structure
<1>1. Init => Structure
  <2> SUFFICES ASSUME Init PROVE Structure
    OBVIOUS
  <2>1. Pristine \in Content
    BY CheckoutAssumption DEF Pristine, Content, Root
  <2>2. log = <<[anc |-> {1}, tree |-> [f \in File |-> Pristine], by |-> "person"]>>
    BY DEF Init, Root
  <2>3. [anc |-> {1}, tree |-> [f \in File |-> Pristine], by |-> "person"] \in Commits
    BY <2>1, CheckoutAssumption DEF Commits
  <2>4. log \in Seq(Commits) /\ Len(log) = 1 /\ log[1].anc = {1}
    BY <2>2, <2>3
  <2>5. TypeOK
    <3>1. wt \in [File -> Content] /\ edit \in [File -> 0 .. MaxEdits] /\ written \in 0 .. MaxEdits
      BY <2>1, CheckoutAssumption DEF Init, None
    <3>2. /\ branch \in 1 .. Len(log) /\ tip \in Refs /\ head \in Refs /\ mine \subseteq 1 .. Len(log)
          /\ torn \subseteq File
      BY <2>4 DEF Init, Refs, None, Root
    <3>3. on \in BOOLEAN /\ pushed \in BOOLEAN /\ broke \in BOOLEAN /\ pc = "idle" /\ outcome = "none" /\ last = NoMove
      BY DEF Init
    <3> QED
      BY <2>4, <3>1, <3>2, <3>3 DEF TypeOK, Commits
  <2>6. Position
    BY <2>4, CheckoutAssumption DEF Init, Position
  <2> QED
    BY <2>5, <2>6 DEF Structure
<1>2. Structure /\ UNCHANGED vars => Structure'
  BY DEF vars, people, session, Structure, TypeOK, Position, OnTop, Refs
<1> QED
  BY <1>1, <1>2, StructureKept, PTL DEF Spec

\* Every variable keeps its type, and what can be taken back is a later commit.
THEOREM TypeCorrect == Spec => []TypeOK
<1>1. Structure => TypeOK
  BY DEF Structure
<1> QED
  BY <1>1, StructureHolds, PTL

\* What a person has not committed is in no commit, is in the working tree,
\* and is in no file a move is about to write.
Unsaved ==
    /\ \A f \in File : edit[f] # None =>
           /\ wt[f] = <<"edit", edit[f]>> /\ edit[f] <= written
           /\ \A c \in 1 .. Len(log) : log[c].tree[f] # <<"edit", edit[f]>>
    /\ \A f \in File, c \in 1 .. Len(log), n \in Nat :
           n > written => log[c].tree[f] # <<"edit", n>>
    /\ \A f \in Moving : edit[f] = None

\* A file without changes holds no edit.
LEMMA CleanFiles ==
    ASSUME Structure, Unsaved, NEW f \in File, f \notin LiveChanges
    PROVE  edit[f] = None
<1>1. HEAD \in 1 .. Len(log)
  BY DEF Structure, TypeOK, HEAD, Root
<1>2. wt[f] = log[HEAD].tree[f]
  BY DEF LiveChanges, Tree
<1> QED
  BY <1>1, <1>2 DEF Unsaved

\* Every step of the release, and everybody's, leaves uncommitted work where
\* it is, if nobody writes a file while a move is writing it.
LEMMA UnsavedKept ==
    ASSUME "window" \notin Hazards, Structure, Unsaved, Next
    PROVE  Unsaved'
<1>t. TypeOK /\ Position
  BY DEF Structure
<1>n. Len(log) \in Nat /\ Len(log) >= 1 /\ branch \in 1 .. Len(log)
  BY <1>t DEF TypeOK
<1>e. \A f \in File : edit[f] \in Nat /\ written \in Nat
  BY <1>t, CheckoutAssumption DEF TypeOK
<1>c. \A c, d : Changed(c, d) \in SUBSET File
  BY DEF Changed
<1>1. CASE MakeCommit
  <2>1. PICK F \in (SUBSET File) \ {{}} :
          log' = Commit(head, [f \in File |-> IF f \in F THEN <<"commit", Len(log) + 1>>
                                              ELSE Tree(head)[f]], "release")
    BY <1>1 DEF MakeCommit
  <2> DEFINE tree == [f \in File |-> IF f \in F THEN <<"commit", Len(log) + 1>> ELSE Tree(head)[f]]
  <2>2. head \in 1 .. Len(log) /\ Len(log) < MaxCommits
    BY <1>1, <1>t DEF MakeCommit, Position
  <2>3. <<"commit", Len(log) + 1>> \in Content
    BY <1>n, <2>2, CheckoutAssumption DEF Content
  <2>4. tree \in [File -> Content]
    BY <2>2, <2>3, Trees
  <2>5. \A f \in File : tree[f] = <<"commit", Len(log) + 1>> \/ tree[f] = log[head].tree[f]
    BY DEF Tree
  <2> HIDE DEF tree
  <2>6. /\ Len(log') = Len(log) + 1
        /\ \A d \in 1 .. Len(log) : log'[d] = log[d]
        /\ log'[Len(log) + 1].tree = tree
    <3>1. log' = Commit(head, tree, "release")
      BY <2>1 DEF tree
    <3>2. log'[Len(log) + 1] = [anc |-> log[head].anc \cup {Len(log) + 1}, tree |-> tree, by |-> "release"]
      BY <2>2, <2>4, <3>1, Appended
    <3>3. Len(log') = Len(log) + 1 /\ \A d \in 1 .. Len(log) : log'[d] = log[d]
      BY <2>2, <2>4, <3>1, Appended
    <3> QED
      BY <3>2, <3>3
  <2>7. \A f \in File, n \in Nat : <<"commit", Len(log) + 1>> # <<"edit", n>>
    OBVIOUS
  <2>8. UNCHANGED <<wt, edit, written>> /\ Moving' = {}
    BY <1>1 DEF MakeCommit, people, Moving
  <2>9. \A c \in 1 .. Len(log') : c \in 1 .. Len(log) \/ c = Len(log) + 1
    BY <1>n, <2>6
  <2>10. \A f \in File, n \in Nat : tree[f] = <<"edit", n>> => log[head].tree[f] = <<"edit", n>>
    BY <2>5, <2>7
  <2> QED
    <3>1. ASSUME NEW f \in File, NEW n \in Nat, NEW c \in 1 .. Len(log'),
                 \A d \in 1 .. Len(log) : log[d].tree[f] # <<"edit", n>>
          PROVE  log'[c].tree[f] # <<"edit", n>>
      BY <2>2, <2>6, <2>9, <2>10, <3>1
    <3>2. \A f \in File : edit'[f] # None =>
              /\ wt'[f] = <<"edit", edit'[f]>> /\ edit'[f] <= written'
              /\ \A c \in 1 .. Len(log') : log'[c].tree[f] # <<"edit", edit'[f]>>
      BY <1>e, <2>8, <3>1 DEF Unsaved
    <3>3. \A f \in File, c \in 1 .. Len(log'), n \in Nat :
              n > written' => log'[c].tree[f] # <<"edit", n>>
      BY <2>8, <3>1 DEF Unsaved
    <3> QED
      BY <2>8, <3>2, <3>3 DEF Unsaved
<1>2. CASE Enter \/ Advance \/ SwapRef \/ Push \/ StepFails \/ Finish \/ Stop \/ UnswapRef \/ Crash
  <2>1. UNCHANGED <<log, wt, edit, written>>
    BY <1>2 DEF Enter, Advance, SwapRef, Push, StepFails, Finish, Stop, UnswapRef, Crash, people, session
  <2>2. \A f \in Moving' : edit[f] = None
    <3>1. CASE Advance
      <4>1. SUFFICES ASSUME pc' = "swap" PROVE \A f \in Moving' : edit[f] = None
        BY <3>1 DEF Advance, Moving
      <4>2. EditedAmong(Changed(tip, head)) = {} /\ Moving' = Changed(tip, head)
        BY <3>1, <4>1 DEF Advance, session, Moving, Changed, Tree
      <4> QED
        BY <1>c, <4>2, CleanFiles DEF EditedAmong
    <3>2. CASE Stop
      <4>1. SUFFICES ASSUME pc' = "unswap" PROVE \A f \in Moving' : edit[f] = None
        BY <3>2 DEF Stop, End, Moving
      <4>2. EditedAmong(Changed(last.old, last.new)) = {} /\ Moving' = Changed(last.old, last.new)
        BY <3>2, <4>1 DEF Stop, End, session, Moving, Changed, Tree
      <4> QED
        BY <1>c, <4>2, CleanFiles DEF EditedAmong
    <3>3. CASE SwapRef \/ UnswapRef
      <4>1. Moving' \subseteq Moving
        BY <3>3 DEF SwapRef, UnswapRef, session, End, Moving, Changed, Tree
      <4> QED
        BY <4>1 DEF Unsaved
    <3>4. CASE Enter \/ Push \/ StepFails \/ Finish \/ Crash
      BY <3>4 DEF Enter, Push, StepFails, Finish, Crash, End, Moving
    <3> QED
      BY <1>2, <3>1, <3>2, <3>3, <3>4
  <2> QED
    BY <2>1, <2>2 DEF Unsaved
<1>3. CASE RestorePaths \/ RestoreFails \/ UnrestorePaths \/ UnrestoreFails
  <2>1. UNCHANGED <<log, edit, written>> /\ Moving' = {}
    BY <1>3 DEF RestorePaths, RestoreFails, UnrestorePaths, UnrestoreFails, people, session, End, Moving
  <2>2. \A f \in File \ Moving : wt'[f] = wt[f]
    BY <1>3 DEF RestorePaths, RestoreFails, UnrestorePaths, UnrestoreFails, Moving, Written
  <2> QED
    BY <2>1, <2>2 DEF Unsaved
<1>4. ASSUME NEW f \in File, Edit(f) PROVE Unsaved'
  <2>1. /\ UNCHANGED <<log, pc, tip, head, last>> /\ written' = written + 1 /\ f \notin Moving
        /\ edit' = [edit EXCEPT ![f] = written + 1] /\ wt' = [wt EXCEPT ![f] = <<"edit", written + 1>>]
    BY <1>4 DEF Edit, session
  <2>2. Moving' = Moving
    BY <2>1 DEF Moving, Changed, Tree
  <2>3. /\ edit'[f] = written + 1 /\ wt'[f] = <<"edit", written + 1>>
        /\ \A g \in File \ {f} : edit'[g] = edit[g] /\ wt'[g] = wt[g]
    BY <1>t, <2>1 DEF TypeOK
  <2> QED
    BY <1>e, <1>c, <2>1, <2>2, <2>3 DEF Unsaved, Moving
<1>5. ASSUME NEW f \in File, Undo(f) PROVE Unsaved'
  <2>1. /\ UNCHANGED <<log, pc, tip, head, last, written>>
        /\ edit' = [edit EXCEPT ![f] = None] /\ \A g \in File \ {f} : wt'[g] = wt[g]
    BY <1>5 DEF Undo, session
  <2>2. Moving' = Moving
    BY <2>1 DEF Moving, Changed, Tree
  <2>3. edit'[f] = None /\ \A g \in File \ {f} : edit'[g] = edit[g]
    BY <1>t, <2>1 DEF TypeOK
  <2>4. Moving \subseteq File
    BY <1>c DEF Moving
  <2> QED
    BY <2>1, <2>2, <2>3, <2>4 DEF Unsaved
<1>6. CASE CommitEdits
  <2> DEFINE tree == [f \in File |-> IF edit[f] # None THEN wt[f] ELSE Tree(branch)[f]]
  <2>1. log' = Commit(branch, tree, "person") /\ Len(log) < MaxCommits
    BY <1>6 DEF CommitEdits
  <2>2. tree \in [File -> Content]
    BY <1>t, <1>n, Trees DEF TypeOK
  <2>3. \A f \in File, n \in Nat : n > written => tree[f] # <<"edit", n>>
    BY <1>n, <1>e DEF Unsaved, Tree
  <2> HIDE DEF tree
  <2>4. /\ Len(log') = Len(log) + 1
        /\ \A d \in 1 .. Len(log) : log'[d] = log[d]
        /\ log'[Len(log) + 1].tree = tree
    <3>1. log'[Len(log) + 1] = [anc |-> log[branch].anc \cup {Len(log) + 1}, tree |-> tree, by |-> "person"]
      BY <1>n, <2>1, <2>2, Appended
    <3>2. Len(log') = Len(log) + 1 /\ \A d \in 1 .. Len(log) : log'[d] = log[d]
      BY <1>n, <2>1, <2>2, Appended
    <3> QED
      BY <3>1, <3>2
  <2>5. \A c \in 1 .. Len(log') : c \in 1 .. Len(log) \/ c = Len(log) + 1
    BY <1>n, <2>4
  <2>6. written' = written /\ \A f \in File : edit'[f] = None
    BY <1>6 DEF CommitEdits
  <2>7. Moving' \subseteq File
    BY DEF Moving, Changed
  <2> QED
    BY <2>3, <2>4, <2>5, <2>6, <2>7 DEF Unsaved
<1>7. CASE Switch
  <2> DEFINE to == IF on THEN Root ELSE branch
  <2>1. /\ UNCHANGED <<log, edit, written, pc>> /\ ~Between
        /\ wt' = Written(to, Changed(HEAD, to)) /\ LiveChanges \cap Changed(HEAD, to) = {}
    BY <1>7 DEF Switch
  <2>2. Moving' = {}
    BY <2>1 DEF Moving, Between
  <2>3. \A f \in File : edit[f] # None => wt'[f] = wt[f]
    BY <2>1, CleanFiles DEF Written
  <2> QED
    BY <2>1, <2>2, <2>3 DEF Unsaved
<1> QED
  BY <1>1, <1>2, <1>3, <1>4, <1>5, <1>6, <1>7 DEF Next, Release, People

\* What a person wrote and has not committed stays in the working tree,
\* whatever a release moves, takes back or leaves half done, unless it is
\* saved between a move's look at the file and its write.
THEOREM EditsSurvive ==
    ASSUME "window" \notin Hazards
    PROVE  Spec => []EditsKept
<1>1. Init => Unsaved
  <2> SUFFICES ASSUME Init PROVE Unsaved
    OBVIOUS
  <2>1. \A f \in File : edit[f] = None
    BY DEF Init
  <2>2. Len(log) = 1 /\ \A f \in File : log[1].tree[f] = <<"commit", 1>>
    <3>1. log = <<[anc |-> {1}, tree |-> [f \in File |-> <<"commit", 1>>], by |-> "person"]>>
      BY DEF Init, Pristine, Root
    <3> QED
      BY <3>1
  <2>3. Moving = {}
    BY DEF Init, Moving
  <2> QED
    BY <2>1, <2>2, <2>3 DEF Unsaved
<1>2. Structure /\ Unsaved /\ [Next]_vars => Unsaved'
  <2>1. CASE Next
    BY <2>1, UnsavedKept
  <2>2. CASE UNCHANGED vars
    BY <2>2 DEF vars, people, session, Unsaved, Moving, Changed, Tree
  <2> QED
    BY <2>1, <2>2
<1>3. Unsaved => EditsKept
  BY DEF Unsaved, EditsKept
<1> QED
  BY <1>1, <1>2, <1>3, StructureHolds, PTL DEF Spec

\* A step appends at most one commit, which contains the one it is made on,
\* and keeps the others.
LEMMA LogGrows ==
    ASSUME Structure, Next
    PROVE  /\ \A c \in 1 .. Len(log) : log'[c] = log[c]
           /\ Len(log) <= Len(log')
           /\ MakeCommit => /\ Len(log') = Len(log) + 1
                            /\ log'[Len(log) + 1].by = "release"
           /\ CommitEdits => log'[branch'].anc = log[branch].anc \cup {Len(log) + 1}
<1>t. TypeOK /\ Position
  BY DEF Structure
<1>n. Len(log) \in Nat /\ branch \in 1 .. Len(log)
  BY <1>t DEF TypeOK
<1>1. CASE MakeCommit
  <2>1. PICK F \in (SUBSET File) \ {{}} :
          log' = Commit(head, [f \in File |-> IF f \in F THEN <<"commit", Len(log) + 1>>
                                              ELSE Tree(head)[f]], "release")
    BY <1>1 DEF MakeCommit
  <2> DEFINE tree == [f \in File |-> IF f \in F THEN <<"commit", Len(log) + 1>> ELSE Tree(head)[f]]
  <2>2. head \in 1 .. Len(log) /\ Len(log) < MaxCommits
    BY <1>1, <1>t DEF MakeCommit, Position
  <2>3. <<"commit", Len(log) + 1>> \in Content
    BY <1>n, <2>2, CheckoutAssumption DEF Content
  <2>4. tree \in [File -> Content] /\ log' = Commit(head, tree, "release")
    BY <2>1, <2>2, <2>3, Trees
  <2> HIDE DEF tree
  <2>5. /\ Len(log') = Len(log) + 1
        /\ \A d \in 1 .. Len(log) : log'[d] = log[d]
        /\ log'[Len(log) + 1] = [anc |-> log[head].anc \cup {Len(log) + 1}, tree |-> tree, by |-> "release"]
    BY <2>2, <2>4, Appended
  <2>6. ~CommitEdits
    BY <1>1, <2>2 DEF MakeCommit, CommitEdits, session
  <2> QED
    BY <1>n, <2>5, <2>6
<1>2. CASE CommitEdits
  <2> DEFINE tree == [f \in File |-> IF f \in {g \in File : edit[g] # None} THEN wt[f] ELSE Tree(branch)[f]]
  <2>1. log' = Commit(branch, tree, "person") /\ Len(log) < MaxCommits /\ branch' = Len(log) + 1
    BY <1>2 DEF CommitEdits
  <2>2. tree \in [File -> Content]
    BY <1>t, <1>n, Trees DEF TypeOK
  <2> HIDE DEF tree
  <2>3. /\ Len(log') = Len(log) + 1
        /\ \A d \in 1 .. Len(log) : log'[d] = log[d]
        /\ log'[Len(log) + 1] = [anc |-> log[branch].anc \cup {Len(log) + 1}, tree |-> tree, by |-> "person"]
    BY <1>n, <2>1, <2>2, Appended
  <2>4. ~MakeCommit
    BY <1>2 DEF MakeCommit, CommitEdits, session
  <2> QED
    BY <1>n, <2>1, <2>3, <2>4
<1>3. CASE ~MakeCommit /\ ~CommitEdits
  <2>1. log' = log
    BY <1>3 DEF Next, Release, People, Enter, Advance, SwapRef, RestorePaths, RestoreFails, Push,
            StepFails, Finish, Stop, UnswapRef, UnrestorePaths, UnrestoreFails, Crash, Edit, Undo, Switch
  <2> QED
    BY <1>3, <1>n, <2>1
<1> QED
  BY <1>1, <1>2, <1>3

\* Only three steps move the branch.
LEMMA Movers ==
    ASSUME Next, branch' # branch
    PROVE  SwapRef \/ UnswapRef \/ CommitEdits
BY DEF Next, Release, People, Enter, MakeCommit, Advance, RestorePaths, RestoreFails, Push,
    StepFails, Finish, Stop, UnrestorePaths, UnrestoreFails, Crash, Edit, Undo, Switch

\* A person's commit on the branch is never taken off it: the release moves
\* the branch from where it left it to a commit made on that, and takes only
\* its own commit back.
THEOREM ForeignSurvives == Spec => ForeignNeverLost
<1> DEFINE Kept == \A c \in log[branch].anc : log[c].by = "person" => c \in log'[branch'].anc
<1>1. Structure /\ [Next]_vars => Kept
  <2> SUFFICES ASSUME Structure, [Next]_vars, NEW c \in log[branch].anc, log[c].by = "person"
               PROVE  c \in log'[branch'].anc
    OBVIOUS
  <2>t. Position /\ branch \in 1 .. Len(log)
    BY DEF Structure, TypeOK
  <2>1. CASE UNCHANGED vars
    BY <2>1 DEF vars
  <2>2. CASE Next /\ branch' = branch
    BY <2>t, <2>2, LogGrows
  <2>3. CASE SwapRef /\ branch' # branch
    <3>1. branch = tip /\ branch' = head /\ log' = log /\ OnTop(tip, head)
      BY <2>t, <2>3 DEF SwapRef, Swaps, Position
    <3> QED
      BY <3>1 DEF OnTop
  <2>4. CASE UnswapRef /\ branch' # branch
    <3>1. branch = last.new /\ branch' = last.old /\ log' = log /\ OnTop(last.old, last.new)
      BY <2>t, <2>4 DEF UnswapRef, Swaps, Position
    <3>2. c # last.new
      BY <3>1 DEF OnTop
    <3> QED
      BY <3>1, <3>2 DEF OnTop
  <2>5. CASE CommitEdits
    BY <2>5, LogGrows DEF Next, People
  <2> QED
    BY <2>1, <2>2, <2>3, <2>4, <2>5, Movers
<1>2. Structure /\ [Next]_vars => [Kept]_vars
  BY <1>1
<1> QED
  BY <1>2, StructureHolds, PTL DEF Spec, ForeignNeverLost

\* What an attempt made and where it is: nothing of it is on the branch
\* before its move, and only its one commit until its candidate is pushed.
Untouched == mine \cap log[branch].anc = {}

Accounts ==
    /\ ~pushed /\ pc = "work" /\ last = NoMove => mine = {}
    /\ ~pushed /\ pc \in {"advance", "swap", "restore"} => last = NoMove /\ mine = {head}
    /\ ~pushed /\ pc \in {"advance", "swap"} => Untouched
    /\ ~pushed /\ pc # "idle" /\ last # NoMove => mine = {last.new}
    /\ ~pushed /\ pc = "stop" /\ last = NoMove /\ ~broke => Untouched
    /\ pc \in {"unswap", "unrestore"} => ~pushed
    /\ pc = "unrestore" => Untouched
    /\ outcome = "discarded" => pc = "idle" /\ (broke \/ Untouched)

\* Every step keeps the accounts.
LEMMA AccountsKept ==
    ASSUME Structure, Accounts, Next
    PROVE  Accounts'
<1>t. TypeOK /\ Position
  BY DEF Structure
<1>n. Len(log) \in Nat /\ branch \in 1 .. Len(log) /\ mine \subseteq 1 .. Len(log)
  BY <1>t DEF TypeOK
<1>a. \A c \in 1 .. Len(log) : log[c].anc \subseteq 1 .. Len(log)
  BY <1>t, <1>n DEF Position
<1>1. CASE Enter
  BY <1>1 DEF Enter, Accounts
<1>2. CASE MakeCommit
  <2>1. /\ UNCHANGED <<branch, last, pushed, broke, outcome>> /\ pc = "work" /\ pc' = "advance"
        /\ head' = Len(log) + 1 /\ mine' = mine \cup {Len(log) + 1} /\ (pushed \/ last = NoMove)
    BY <1>2 DEF MakeCommit
  <2>2. log'[branch'] = log[branch] /\ Len(log) + 1 \notin log[branch].anc
    BY <1>2, <1>n, <1>a, <2>1, LogGrows
  <2> QED
    BY <2>1, <2>2 DEF Accounts, Untouched
<1>3. CASE Advance \/ Push \/ StepFails \/ Finish \/ Crash
  <2>1. UNCHANGED <<log, branch, last, mine, head, broke>>
    BY <1>3 DEF Advance, Push, StepFails, Finish, Crash, session
  <2>2. Untouched' = Untouched
    BY <2>1 DEF Untouched
  <2>3. mine = {} => Untouched
    BY DEF Untouched
  <2>4. CASE Advance
    BY <2>1, <2>2, <2>4 DEF Advance, session, Accounts
  <2>5. CASE Push
    BY <2>1, <2>2, <2>5 DEF Push, Accounts
  <2>6. CASE StepFails
    BY <2>1, <2>2, <2>3, <2>6 DEF StepFails, session, Accounts
  <2>7. CASE Finish \/ Crash
    BY <2>1, <2>2, <2>7 DEF Finish, Crash, session, End, Accounts
  <2> QED
    BY <1>3, <2>4, <2>5, <2>6, <2>7
<1>4. CASE SwapRef
  <2>1. /\ UNCHANGED <<log, last, mine, head, pushed, broke, outcome>> /\ pc = "swap"
        /\ \/ pc' = "restore"
           \/ pc' = "stop" /\ branch' = branch
    BY <1>4 DEF SwapRef, session
  <2>2. branch' = branch => Untouched' = Untouched
    BY <2>1 DEF Untouched
  <2> QED
    BY <2>1, <2>2 DEF Accounts
<1>5. CASE RestorePaths
  <2>1. /\ UNCHANGED <<log, branch, mine, pushed, broke, outcome>> /\ pc = "restore" /\ pc' = "work"
        /\ last' = [old |-> tip, new |-> head]
    BY <1>5 DEF RestorePaths, Remembered
  <2>2. last'.new = head /\ last' # NoMove
    BY <1>t, <2>1 DEF NoMove, None, Position, OnTop
  <2> QED
    BY <2>1, <2>2 DEF Accounts
<1>6. CASE Stop
  <2>1. UNCHANGED <<log, branch, last, mine, pushed, broke>> /\ pc = "stop"
    BY <1>6 DEF Stop, session
  <2>2. Untouched' = Untouched
    BY <2>1 DEF Untouched
  <2>3. last # NoMove => last.new # None
    BY <1>t DEF Position, OnTop, None
  <2>4. \/ pc' = "idle" /\ outcome' = "kept"
        \/ pc' = "idle" /\ outcome' = "discarded" /\ ~pushed /\ last = NoMove
        \/ pc' = "unswap" /\ outcome' = outcome /\ ~pushed
    BY <1>6, <2>3 DEF Stop, End, MovedTo
  <2> QED
    BY <2>1, <2>2, <2>4 DEF Accounts
<1>7. CASE UnswapRef
  <2>1. UNCHANGED <<log, last, mine, pushed, broke>> /\ pc = "unswap" /\ ~pushed /\ last # NoMove
    BY <1>7, <1>t DEF UnswapRef, session, Accounts, Position
  <2>2. CASE pc' = "unrestore"
    <3>1. branch' = last.old /\ outcome' = outcome
      BY <1>7, <2>2 DEF UnswapRef, End
    <3>2. OnTop(last.old, last.new)
      BY <1>t, <2>1 DEF Position
    <3>3. last.new \notin log[last.old].anc
      <4>1. log[last.old].anc \subseteq 1 .. last.old
        BY <1>t, <3>2 DEF Position, OnTop
      <4>2. last.new \notin 1 .. last.old
        BY <1>n, <3>2 DEF OnTop
      <4> QED
        BY <4>1, <4>2
    <3>4. mine = {last.new}
      BY <2>1 DEF Accounts
    <3>5. Untouched'
      BY <2>1, <3>1, <3>3, <3>4 DEF Untouched
    <3> QED
      BY <2>1, <2>2, <3>1, <3>4, <3>5 DEF Accounts
  <2>3. CASE pc' # "unrestore"
    <3>1. pc' = "idle" /\ outcome' = "kept"
      BY <1>7, <2>3 DEF UnswapRef, End
    <3> QED
      BY <2>1, <3>1 DEF Accounts
  <2> QED
    BY <2>2, <2>3
<1>8. CASE UnrestorePaths
  <2>1. UNCHANGED <<log, branch, mine, pushed, broke>> /\ pc = "unrestore" /\ pc' = "idle"
    BY <1>8 DEF UnrestorePaths, End
  <2>2. Untouched'
    BY <2>1 DEF Accounts, Untouched
  <2> QED
    BY <2>1, <2>2 DEF Accounts
<1>9. CASE CommitEdits
  <2>1. UNCHANGED <<pc, tip, head, last, pushed, mine, broke, outcome>>
    BY <1>9 DEF CommitEdits, session
  <2>2. log'[branch'].anc = log[branch].anc \cup {Len(log) + 1}
    BY <1>9, LogGrows
  <2>3. Len(log) + 1 \notin mine
    BY <1>n
  <2>4. Untouched => Untouched'
    BY <2>1, <2>2, <2>3 DEF Untouched
  <2> QED
    BY <2>1, <2>4 DEF Accounts
<1>10. ASSUME NEW f \in File, Edit(f) \/ Undo(f) PROVE Accounts'
  <2>1. UNCHANGED <<log, branch, pc, tip, head, last, pushed, mine, broke, outcome>>
    BY <1>10 DEF Edit, Undo, session
  <2>2. Untouched' = Untouched
    BY <2>1 DEF Untouched
  <2> QED
    BY <2>1, <2>2 DEF Accounts
<1>11. CASE Switch
  <2>1. UNCHANGED <<log, branch, pc, tip, head, last, pushed, mine, broke, outcome>>
    BY <1>11 DEF Switch, session
  <2>2. Untouched' = Untouched
    BY <2>1 DEF Untouched
  <2> QED
    BY <2>1, <2>2 DEF Accounts
<1>12. CASE RestoreFails
  <2>1. /\ UNCHANGED <<mine, head, last, pushed, outcome>> /\ pc = "restore" /\ pc' = "stop" /\ broke'
    BY <1>12 DEF RestoreFails
  <2> QED
    BY <2>1 DEF Accounts
<1>13. CASE UnrestoreFails
  <2>1. /\ UNCHANGED <<mine, last, pushed>> /\ pc = "unrestore" /\ pc' = "idle" /\ outcome' = "failed"
    BY <1>13 DEF UnrestoreFails, End
  <2> QED
    BY <2>1 DEF Accounts
<1> QED
  BY <1>1, <1>2, <1>3, <1>4, <1>5, <1>6, <1>7, <1>8, <1>9, <1>10, <1>11, <1>12, <1>13 DEF Next, Release, People

\* When a release says it was discarded, the branch holds none of its commits,
\* unless writing a file failed after the branch had moved.
THEOREM DiscardsAreClean == Spec => []DiscardIsClean
<1>1. Init => Accounts
  BY DEF Init, Accounts, Untouched
<1>2. Structure /\ Accounts /\ [Next]_vars => Accounts'
  <2>1. CASE Next
    BY <2>1, AccountsKept
  <2>2. CASE UNCHANGED vars
    BY <2>2 DEF vars, people, session, Accounts, Untouched
  <2> QED
    BY <2>1, <2>2
<1>3. Accounts => DiscardIsClean
  BY DEF Accounts, DiscardIsClean, Untouched
<1> QED
  BY <1>1, <1>2, <1>3, StructureHolds, PTL DEF Spec

-----------------------------------------------------------------------------
(* The two writes of a move are one to everybody else, and the working tree *)
(* follows the branch, when nobody writes a moving file or changes branches *)
(* while a move may still be taken back.                                    *)

\* A move goes on only with HEAD on the branch, and one that can be taken back
\* leaves it there.
Attached ==
    /\ pc \in {"swap", "restore", "unswap", "unrestore"} => on
    /\ pc # "idle" /\ ~pushed /\ last # NoMove => on

\* A move that is about to happen finds its files clean.
Clean(F) == \A f \in F : wt[f] = Tree(branch)[f]
Ready ==
    /\ pc = "swap" /\ branch = tip => Clean(Changed(tip, head))
    /\ pc = "unswap" /\ branch = last.new => Clean(Changed(last.old, last.new))

\* While its files are written the branch holds what they will be, and they
\* what they were or will be.
HalfWritten(from, to) ==
    \A f \in Changed(from, to) :
        Tree(branch)[f] = Tree(to)[f] /\ wt[f] \in {Tree(from)[f], Tree(to)[f]}
UnderWay ==
    /\ pc = "restore" => HalfWritten(tip, head)
    /\ pc = "unrestore" => HalfWritten(last.new, last.old)

\* At any time, the files no move is writing follow the branch.
Followed == \A f \in File \ (torn \cup Unwritten) : wt[f] = Tree(HEAD)[f] \/ edit[f] # None

Whole == \A c \in 1 .. Len(log) : c \in log[c].anc

Standing == Attached /\ Ready /\ UnderWay /\ Followed /\ Whole

LEMMA ChangedIsFiles == \A c, d : Changed(c, d) \subseteq File /\ Changed(c, d) = Changed(d, c)
BY DEF Changed

\* What the two steps that commit append.
LEMMA OneMore ==
    ASSUME Structure, MakeCommit \/ CommitEdits
    PROVE  /\ Len(log') = Len(log) + 1 /\ SubSeq(log', 1, Len(log)) = log
           /\ \A c \in 1 .. Len(log) : log'[c] = log[c]
           /\ MakeCommit => /\ log'[Len(log) + 1].by = "release"
                            /\ log'[Len(log) + 1].anc = log[head].anc \cup {Len(log) + 1}
           /\ CommitEdits => /\ log'[Len(log) + 1].by = "person"
                             /\ log'[Len(log) + 1].anc = log[branch].anc \cup {Len(log) + 1}
                             /\ \A f \in File : log'[Len(log) + 1].tree[f] =
                                    IF edit[f] # None THEN wt[f] ELSE Tree(branch)[f]
<1>t. TypeOK /\ Position
  BY DEF Structure
<1>n. Len(log) \in Nat /\ branch \in 1 .. Len(log) /\ log \in Seq(Commits)
  BY <1>t DEF TypeOK, Commits
<1>p. ASSUME Len(log') = Len(log) + 1, \A c \in 1 .. Len(log) : log'[c] = log[c], log' \in Seq(Commits)
      PROVE  SubSeq(log', 1, Len(log)) = log
  <2>1. Len(SubSeq(log', 1, Len(log))) = Len(log) /\ SubSeq(log', 1, Len(log)) \in Seq(Commits)
    BY <1>n, <1>p
  <2>2. \A c \in 1 .. Len(log) : SubSeq(log', 1, Len(log))[c] = log[c]
    BY <1>n, <1>p
  <2> QED
    BY <1>n, <2>1, <2>2
<1>1. CASE MakeCommit
  <2>1. PICK F \in (SUBSET File) \ {{}} :
          log' = Commit(head, [f \in File |-> IF f \in F THEN <<"commit", Len(log) + 1>>
                                              ELSE Tree(head)[f]], "release")
    BY <1>1 DEF MakeCommit
  <2> DEFINE tree == [f \in File |-> IF f \in F THEN <<"commit", Len(log) + 1>> ELSE Tree(head)[f]]
  <2>2. head \in 1 .. Len(log) /\ Len(log) < MaxCommits
    BY <1>1, <1>t DEF MakeCommit, Position
  <2>3. <<"commit", Len(log) + 1>> \in Content
    BY <1>n, <2>2, CheckoutAssumption DEF Content
  <2>4. tree \in [File -> Content] /\ log' = Commit(head, tree, "release")
    BY <2>1, <2>2, <2>3, Trees
  <2> HIDE DEF tree
  <2>5. /\ Len(log') = Len(log) + 1 /\ log' \in Seq(Commits)
        /\ \A d \in 1 .. Len(log) : log'[d] = log[d]
        /\ log'[Len(log) + 1] = [anc |-> log[head].anc \cup {Len(log) + 1}, tree |-> tree, by |-> "release"]
    BY <2>2, <2>4, Appended
  <2>6. ~CommitEdits
    BY <1>1 DEF MakeCommit, CommitEdits, session
  <2> QED
    BY <1>p, <2>5, <2>6
<1>2. CASE CommitEdits
  <2> DEFINE tree == [f \in File |-> IF f \in {g \in File : edit[g] # None} THEN wt[f] ELSE Tree(branch)[f]]
  <2>1. log' = Commit(branch, tree, "person") /\ Len(log) < MaxCommits
    BY <1>2 DEF CommitEdits
  <2>2. tree \in [File -> Content]
    BY <1>t, <1>n, Trees DEF TypeOK
  <2>3. \A f \in File : tree[f] = IF edit[f] # None THEN wt[f] ELSE Tree(branch)[f]
    OBVIOUS
  <2> HIDE DEF tree
  <2>4. /\ Len(log') = Len(log) + 1 /\ log' \in Seq(Commits)
        /\ \A d \in 1 .. Len(log) : log'[d] = log[d]
        /\ log'[Len(log) + 1] = [anc |-> log[branch].anc \cup {Len(log) + 1}, tree |-> tree, by |-> "person"]
    BY <1>n, <2>1, <2>2, Appended
  <2>5. ~MakeCommit
    BY <1>2 DEF MakeCommit, CommitEdits, session
  <2> QED
    BY <1>p, <2>3, <2>4, <2>5
<1> QED
  BY <1>1, <1>2

\* A commit contains itself.
LEMMA WholeKept ==
    ASSUME Structure, Whole, Next
    PROVE  Whole'
<1>n. Len(log) \in Nat
  BY DEF Structure, TypeOK
<1>1. CASE MakeCommit \/ CommitEdits
  <2>1. /\ Len(log') = Len(log) + 1 /\ \A c \in 1 .. Len(log) : log'[c] = log[c]
        /\ Len(log) + 1 \in log'[Len(log) + 1].anc
    BY <1>1, OneMore
  <2> QED
    BY <1>n, <2>1 DEF Whole
<1>2. CASE ~MakeCommit /\ ~CommitEdits
  <2>1. log' = log
    BY <1>2 DEF Next, Release, People, Enter, Advance, SwapRef, RestorePaths, RestoreFails, Push,
            StepFails, Finish, Stop, UnswapRef, UnrestorePaths, UnrestoreFails, Crash, Edit, Undo, Switch
  <2> QED
    BY <2>1 DEF Whole
<1> QED
  BY <1>1, <1>2

\* People change branches only where no move depends on it.
LEMMA AttachedKept ==
    ASSUME "window" \notin Hazards, "switch" \notin Hazards, Structure, Accounts, Attached, Next
    PROVE  Attached'
<1>t. Position
  BY DEF Structure
<1>1. CASE Switch
  <2>1. UNCHANGED <<pc, last, pushed>> /\ ~Between /\ (pc = "idle" \/ pushed \/ last = NoMove)
    BY <1>1 DEF Switch, session
  <2> QED
    BY <2>1 DEF Attached, Between
<1>2. CASE RestorePaths
  BY <1>2 DEF RestorePaths, people, Attached
<1>3. CASE Stop
  <2>1. UNCHANGED <<last, pushed, on>> /\ pc = "stop"
    BY <1>3 DEF Stop, session, people
  <2>2. pc' = "idle" \/ (pc' = "unswap" /\ ~pushed /\ last # NoMove)
    BY <1>3 DEF Stop, End, MovedTo, NoMove
  <2> QED
    BY <2>1, <2>2 DEF Attached
<1>4. CASE Enter \/ MakeCommit \/ Advance \/ SwapRef \/ RestoreFails \/ Push \/ StepFails \/ Finish
  BY <1>4 DEF Enter, MakeCommit, Advance, SwapRef, RestoreFails, Push, StepFails, Finish, End,
          people, session, Attached
<1>5. CASE UnswapRef \/ UnrestorePaths \/ UnrestoreFails \/ Crash
  BY <1>5 DEF UnswapRef, UnrestorePaths, UnrestoreFails, Crash, End, people, session, Attached
<1>6. CASE CommitEdits \/ \E f \in File : Edit(f) \/ Undo(f)
  BY <1>6 DEF CommitEdits, Edit, Undo, session, Attached
<1> QED
  BY <1>1, <1>2, <1>3, <1>4, <1>5, <1>6 DEF Next, Release, People

\* Nobody but the move makes its files differ from the branch before it.
LEMMA ReadyKept ==
    ASSUME "window" \notin Hazards, Structure, Attached, Ready, Next
    PROVE  Ready'
<1>t. TypeOK /\ Position
  BY DEF Structure
<1>n. Len(log) \in Nat /\ branch \in 1 .. Len(log)
  BY <1>t DEF TypeOK
<1>1. CASE Advance
  <2>1. UNCHANGED <<log, branch, wt, tip, head, last>> /\ pc' \in {"swap", "stop"}
    BY <1>1 DEF Advance, session
  <2>2. pc' = "swap" => on /\ LiveChanges \cap Changed(tip, head) = {}
    BY <1>1 DEF Advance, EditedAmong
  <2>3. pc' = "swap" => Clean(Changed(tip, head))
    BY <2>2 DEF LiveChanges, HEAD, Clean, Changed
  <2> QED
    BY <2>1, <2>3 DEF Ready, Clean, Changed, Tree
<1>2. CASE Stop
  <2>1. UNCHANGED <<log, branch, wt, tip, head, last, on, pushed>> /\ pc' \in {"unswap", "idle"} /\ pc = "stop"
    BY <1>2 DEF Stop, session, End, people
  <2>2. pc' = "unswap" => LiveChanges \cap Changed(last.old, last.new) = {} /\ ~pushed /\ last # NoMove
    BY <1>2 DEF Stop, EditedAmong, End, MovedTo, NoMove
  <2>3. pc' = "unswap" => Clean(Changed(last.old, last.new))
    BY <2>1, <2>2 DEF Attached, LiveChanges, HEAD, Clean, Changed
  <2> QED
    BY <2>1, <2>3 DEF Ready, Clean, Changed, Tree
<1>3. ASSUME NEW f \in File, Edit(f) PROVE Ready'
  <2>1. UNCHANGED <<log, branch, pc, tip, head, last>> /\ f \notin Moving
    BY <1>3 DEF Edit, session
  <2>2. \A g \in File \ {f} : wt'[g] = wt[g]
    BY <1>3, <1>t DEF Edit, TypeOK
  <2> QED
    BY <2>1, <2>2 DEF Ready, Clean, Changed, Tree, Moving
<1>4. ASSUME NEW f \in File, Undo(f) PROVE Ready'
  <2>1. UNCHANGED <<log, branch, pc, tip, head, last, on>>
    BY <1>4 DEF Undo, session
  <2>2. wt'[f] = Tree(HEAD)[f] /\ \A g \in File \ {f} : wt'[g] = wt[g]
    BY <1>4, <1>t DEF Undo, TypeOK
  <2>3. pc \in {"swap", "unswap"} => HEAD = branch
    BY DEF Attached, HEAD
  <2> QED
    BY <2>1, <2>2, <2>3 DEF Ready, Clean, Changed, Tree
<1>5. CASE CommitEdits
  <2>1. UNCHANGED <<pc, tip, head, last>> /\ branch' = Len(log) + 1
    BY <1>5 DEF CommitEdits, session
  <2>2. pc = "swap" => tip # Len(log) + 1
    BY <1>t, <1>n DEF Position
  <2>3. pc = "unswap" => last.new # Len(log) + 1
    BY <1>t, <1>n DEF Position, OnTop
  <2> QED
    BY <2>1, <2>2, <2>3 DEF Ready
<1>6. CASE Switch
  BY <1>6 DEF Switch, Between, Ready
<1>7. CASE Enter \/ MakeCommit \/ SwapRef \/ RestorePaths \/ RestoreFails \/ Push \/ StepFails \/ Finish
  BY <1>7 DEF Enter, MakeCommit, SwapRef, RestorePaths, RestoreFails, Push, StepFails, Finish, End, Ready
<1>8. CASE UnswapRef \/ UnrestorePaths \/ UnrestoreFails \/ Crash
  BY <1>8 DEF UnswapRef, UnrestorePaths, UnrestoreFails, Crash, End, Ready
<1> QED
  BY <1>1, <1>2, <1>3, <1>4, <1>5, <1>6, <1>7, <1>8 DEF Next, Release, People

\* While a move's files are written, whatever people do to them leaves them
\* as they were or as the move will have them.
LEMMA UnderWayKept ==
    ASSUME "window" \notin Hazards, Structure, Unsaved, Attached, Ready, UnderWay, Next
    PROVE  UnderWay'
<1>t. TypeOK /\ Position
  BY DEF Structure
<1>n. Len(log) \in Nat /\ branch \in 1 .. Len(log)
  BY <1>t DEF TypeOK
<1>1. CASE SwapRef
  <2>1. UNCHANGED <<log, wt, tip, head, last>> /\ pc = "swap"
    BY <1>1 DEF SwapRef, session
  <2>2. pc' = "stop" \/ (pc' = "restore" /\ branch = tip /\ branch' = head)
    BY <1>1 DEF SwapRef, Swaps
  <2> QED
    BY <2>1, <2>2 DEF Ready, Clean, UnderWay, HalfWritten, Changed, Tree
<1>2. CASE UnswapRef
  <2>1. UNCHANGED <<log, wt, tip, head, last>> /\ pc = "unswap"
    BY <1>2 DEF UnswapRef, session
  <2>2. pc' = "idle" \/ (pc' = "unrestore" /\ branch = last.new /\ branch' = last.old)
    BY <1>2 DEF UnswapRef, Swaps, End
  <2> QED
    BY <2>1, <2>2 DEF Ready, Clean, UnderWay, HalfWritten, Changed, Tree
<1>3. ASSUME NEW f \in File, Edit(f) PROVE UnderWay'
  <2>1. UNCHANGED <<log, branch, pc, tip, head, last>> /\ f \notin Moving
    BY <1>3 DEF Edit, session
  <2>2. \A g \in File \ {f} : wt'[g] = wt[g]
    BY <1>3, <1>t DEF Edit, TypeOK
  <2> QED
    BY <2>1, <2>2 DEF UnderWay, HalfWritten, Changed, Tree, Moving
<1>4. ASSUME NEW f \in File, Undo(f) PROVE UnderWay'
  <2>1. UNCHANGED <<log, branch, pc, tip, head, last, on>>
    BY <1>4 DEF Undo, session
  <2>2. wt'[f] = Tree(HEAD)[f] /\ \A g \in File \ {f} : wt'[g] = wt[g]
    BY <1>4, <1>t DEF Undo, TypeOK
  <2>3. pc \in {"restore", "unrestore"} => HEAD = branch
    BY DEF Attached, HEAD
  <2> QED
    BY <2>1, <2>2, <2>3 DEF UnderWay, HalfWritten, Changed, Tree
<1>5. CASE CommitEdits
  <2>1. UNCHANGED <<pc, tip, head, last, wt>> /\ branch' = Len(log) + 1
    BY <1>5 DEF CommitEdits, session
  <2>2. \A f \in File : edit[f] = None => Tree(branch)'[f] = Tree(branch)[f]
    BY <1>5, <2>1, OneMore DEF Tree
  <2>3. CASE pc = "restore"
    <3>1. tip \in 1 .. Len(log) /\ head \in 1 .. Len(log)
      BY <1>t, <2>3 DEF Position
    <3>2. Changed(tip, head)' = Changed(tip, head) /\ Tree(tip)' = Tree(tip) /\ Tree(head)' = Tree(head)
      BY <1>5, <2>1, <3>1, OneMore DEF Changed, Tree
    <3>3. \A f \in Changed(tip, head) : f \in File /\ edit[f] = None
      BY <2>3 DEF Unsaved, Moving, Changed
    <3> QED
      BY <2>1, <2>2, <2>3, <3>2, <3>3 DEF UnderWay, HalfWritten
  <2>4. CASE pc = "unrestore"
    <3>1. last.old \in 1 .. Len(log) /\ last.new \in 1 .. Len(log)
      BY <1>t, <2>4 DEF Position, OnTop
    <3>2. /\ Changed(last.new, last.old)' = Changed(last.new, last.old)
          /\ Tree(last.new)' = Tree(last.new) /\ Tree(last.old)' = Tree(last.old)
      BY <1>5, <2>1, <3>1, OneMore DEF Changed, Tree
    <3>3. \A f \in Changed(last.new, last.old) : f \in File /\ edit[f] = None
      BY <2>4 DEF Unsaved, Moving, Changed
    <3> QED
      BY <2>1, <2>2, <2>4, <3>2, <3>3 DEF UnderWay, HalfWritten
  <2> QED
    BY <2>1, <2>3, <2>4 DEF UnderWay
<1>6. CASE Switch
  BY <1>6 DEF Switch, Between, UnderWay
<1>7. CASE Enter \/ MakeCommit \/ Advance \/ RestorePaths \/ RestoreFails \/ Push \/ StepFails \/ Finish
  BY <1>7 DEF Enter, MakeCommit, Advance, RestorePaths, RestoreFails, Push, StepFails, Finish, End, UnderWay
<1>8. CASE Stop \/ UnrestorePaths \/ UnrestoreFails \/ Crash
  BY <1>8 DEF Stop, UnrestorePaths, UnrestoreFails, Crash, End, UnderWay
<1> QED
  BY <1>1, <1>2, <1>3, <1>4, <1>5, <1>6, <1>7, <1>8 DEF Next, Release, People

\* A file follows the branch, holds an edit, or is one a move has not written.
LEMMA FollowedKept ==
    ASSUME "window" \notin Hazards, Structure, Unsaved, Attached, UnderWay, Followed, Next
    PROVE  Followed'
<1>t. TypeOK /\ Position
  BY DEF Structure
<1>n. Len(log) \in Nat /\ branch \in 1 .. Len(log)
  BY <1>t DEF TypeOK
<1>h. HEAD \in 1 .. Len(log)
  BY <1>n DEF HEAD, Root
<1>1. CASE Enter \/ Advance \/ Push \/ StepFails \/ Finish \/ Stop
  <2>1. UNCHANGED <<log, branch, on, wt, edit, torn>> /\ Unwritten = {}
    BY <1>1 DEF Enter, Advance, Push, StepFails, Finish, Stop, people, Unwritten
  <2> QED
    BY <2>1 DEF Followed, HEAD, Tree
<1>2. CASE MakeCommit
  <2>1. UNCHANGED <<branch, on, wt, edit, torn>> /\ Unwritten = {}
    BY <1>2 DEF MakeCommit, people, Unwritten
  <2>2. Tree(HEAD)' = Tree(HEAD)
    BY <1>2, <1>h, <2>1, OneMore DEF HEAD, Tree
  <2> QED
    BY <2>1, <2>2 DEF Followed
<1>3. CASE SwapRef \/ UnswapRef
  <2>1. UNCHANGED <<log, on, wt, edit, torn, tip, head, last>> /\ Unwritten = {} /\ on
    BY <1>3 DEF SwapRef, UnswapRef, people, session, Unwritten, Attached
  <2>2. \/ branch' = branch
        \/ branch = tip /\ branch' = head /\ Unwritten' = Changed(tip, head)
        \/ branch = last.new /\ branch' = last.old /\ Unwritten' = Changed(last.old, last.new)
    BY <1>3, <2>1 DEF SwapRef, UnswapRef, Swaps, Unwritten, Changed, Tree
  <2>3. \A f \in File \ Unwritten' : Tree(branch)'[f] = Tree(branch)[f]
    BY <2>1, <2>2 DEF Changed, Tree
  <2> QED
    BY <2>1, <2>3 DEF Followed, HEAD, Tree
<1>4. CASE RestorePaths \/ RestoreFails
  <2>1. UNCHANGED <<log, branch, on, edit>> /\ pc = "restore" /\ Unwritten' = {} /\ HEAD = branch
    BY <1>4 DEF RestorePaths, RestoreFails, people, Unwritten, Attached, HEAD
  <2>2. PICK F \in SUBSET Changed(tip, head) :
          /\ wt' = Written(head, F)
          /\ torn \ F \subseteq torn' /\ Changed(tip, head) \ F \subseteq torn'
    BY <1>4 DEF RestorePaths, RestoreFails
  <2>3. \A f \in F : Tree(branch)[f] = Tree(head)[f]
    BY <2>1 DEF UnderWay, HalfWritten
  <2>4. Unwritten = Changed(tip, head)
    BY <2>1 DEF Unwritten
  <2>5. ASSUME NEW f \in File, f \notin torn' PROVE wt'[f] = Tree(HEAD)[f] \/ edit[f] # None
    <3>1. CASE f \in F
      BY <2>1, <2>2, <2>3, <3>1 DEF Written
    <3>2. CASE f \notin F
      BY <2>1, <2>2, <2>4, <2>5, <3>2 DEF Written, Followed
    <3> QED
      BY <3>1, <3>2
  <2> QED
    BY <2>1, <2>5 DEF Followed, HEAD, Tree
<1>5. CASE UnrestorePaths \/ UnrestoreFails
  <2>1. UNCHANGED <<log, branch, on, edit>> /\ pc = "unrestore" /\ Unwritten' = {} /\ HEAD = branch
    BY <1>5 DEF UnrestorePaths, UnrestoreFails, End, people, Unwritten, Attached, HEAD
  <2>2. PICK F \in SUBSET Changed(last.old, last.new) :
          /\ wt' = Written(last.old, F)
          /\ torn \ F \subseteq torn' /\ Changed(last.old, last.new) \ F \subseteq torn'
    BY <1>5 DEF UnrestorePaths, UnrestoreFails
  <2>3. \A f \in F : Tree(branch)[f] = Tree(last.old)[f]
    BY <2>1, ChangedIsFiles DEF UnderWay, HalfWritten
  <2>4. Unwritten = Changed(last.old, last.new)
    BY <2>1 DEF Unwritten
  <2>5. ASSUME NEW f \in File, f \notin torn' PROVE wt'[f] = Tree(HEAD)[f] \/ edit[f] # None
    <3>1. CASE f \in F
      BY <2>1, <2>2, <2>3, <3>1 DEF Written
    <3>2. CASE f \notin F
      BY <2>1, <2>2, <2>4, <2>5, <3>2 DEF Written, Followed
    <3> QED
      BY <3>1, <3>2
  <2> QED
    BY <2>1, <2>5 DEF Followed, HEAD, Tree
<1>6. CASE Crash
  BY <1>6 DEF Crash, people, session, End, Followed, HEAD, Tree, Unwritten
<1>7. ASSUME NEW f \in File, Edit(f) PROVE Followed'
  <2>1. /\ UNCHANGED <<log, branch, on, pc, tip, head, last>> /\ torn' = torn \ {f}
        /\ edit'[f] # None /\ \A g \in File \ {f} : wt'[g] = wt[g] /\ edit'[g] = edit[g]
    BY <1>7, <1>t, CheckoutAssumption DEF Edit, TypeOK, session, None
  <2>2. Unwritten' = Unwritten
    BY <2>1 DEF Unwritten, Changed, Tree
  <2> QED
    BY <2>1, <2>2 DEF Followed, HEAD, Tree
<1>8. ASSUME NEW f \in File, Undo(f) PROVE Followed'
  <2>1. /\ UNCHANGED <<log, branch, on, pc, tip, head, last>> /\ torn' = torn \ {f}
        /\ wt'[f] = Tree(HEAD)[f] /\ \A g \in File \ {f} : wt'[g] = wt[g] /\ edit'[g] = edit[g]
    BY <1>8, <1>t DEF Undo, TypeOK, session
  <2>2. Unwritten' = Unwritten
    BY <2>1 DEF Unwritten, Changed, Tree
  <2> QED
    BY <2>1, <2>2 DEF Followed, HEAD, Tree
<1>9. CASE CommitEdits
  <2>1. UNCHANGED <<on, wt, torn, pc, tip, head, last>> /\ on /\ branch' = Len(log) + 1
    BY <1>9 DEF CommitEdits, session
  <2>2. \A f \in File : Tree(HEAD)'[f] = IF edit[f] # None THEN wt[f] ELSE Tree(HEAD)[f]
    BY <1>9, <2>1, OneMore DEF Tree, HEAD
  <2>3. Unwritten' = Unwritten
    <3>1. pc = "restore" => tip \in 1 .. Len(log) /\ head \in 1 .. Len(log)
      BY <1>t DEF Position
    <3>2. pc = "unrestore" => last.old \in 1 .. Len(log) /\ last.new \in 1 .. Len(log)
      BY <1>t DEF Position, OnTop
    <3>3. \A c \in 1 .. Len(log) : log'[c] = log[c]
      BY <1>9, OneMore
    <3>4. pc = "restore" => Changed(tip, head)' = Changed(tip, head)
      BY <2>1, <3>1, <3>3 DEF Changed, Tree
    <3>5. pc = "unrestore" => Changed(last.old, last.new)' = Changed(last.old, last.new)
      BY <2>1, <3>2, <3>3 DEF Changed, Tree
    <3> QED
      BY <2>1, <3>4, <3>5 DEF Unwritten
  <2> QED
    BY <2>1, <2>2, <2>3 DEF Followed
<1>10. CASE Switch
  <2> DEFINE to == IF on THEN Root ELSE branch
  <2>1. /\ UNCHANGED <<log, branch, edit, torn, pc>> /\ ~Between /\ on' = ~on
        /\ wt' = Written(to, Changed(HEAD, to))
    BY <1>10 DEF Switch
  <2>2. Tree(HEAD)' = Tree(to)
    BY <2>1 DEF HEAD, Tree
  <2>3. Unwritten = {}
    BY <2>1 DEF Unwritten, Between
  <2>4. \A f \in File : wt'[f] = Tree(to)[f] \/ (wt'[f] = wt[f] /\ Tree(HEAD)[f] = Tree(to)[f])
    BY <2>1 DEF Written, Changed
  <2> QED
    BY <2>1, <2>2, <2>3, <2>4 DEF Followed
<1> QED
  BY <1>1, <1>2, <1>3, <1>4, <1>5, <1>6, <1>7, <1>8, <1>9, <1>10 DEF Next, Release, People

\* What the theorems below rest on.
THEOREM StandingHolds ==
    ASSUME "window" \notin Hazards, "switch" \notin Hazards
    PROVE  Spec => [](Structure /\ Unsaved /\ Standing)
<1>1. Init => Unsaved /\ Standing
  <2> SUFFICES ASSUME Init PROVE Unsaved /\ Standing
    OBVIOUS
  <2>1. log = <<[anc |-> {1}, tree |-> [f \in File |-> <<"commit", 1>>], by |-> "person"]>>
    BY DEF Init, Pristine, Root
  <2>2. Len(log) = 1 /\ log[1].anc = {1} /\ \A f \in File : log[1].tree[f] = <<"commit", 1>>
    BY <2>1
  <2>3. /\ pc = "idle" /\ HEAD = 1 /\ Moving = {} /\ \A f \in File : edit[f] = None /\ wt[f] = <<"commit", 1>>
    BY DEF Init, Pristine, Root, HEAD, Moving
  <2>4. Unsaved
    BY <2>2, <2>3 DEF Unsaved
  <2>5. Attached /\ Ready /\ UnderWay
    BY <2>3 DEF Attached, Ready, UnderWay
  <2>6. Followed /\ Whole
    BY <2>2, <2>3 DEF Followed, Whole, Tree
  <2> QED
    BY <2>4, <2>5, <2>6 DEF Standing
<1>2. Init => Accounts
  BY DEF Init, Accounts, Untouched
<1>3. Structure /\ Unsaved /\ Accounts /\ Standing /\ [Next]_vars => Unsaved' /\ Accounts' /\ Standing'
  <2> SUFFICES ASSUME Structure, Unsaved, Accounts, Standing, [Next]_vars
               PROVE  Unsaved' /\ Accounts' /\ Standing'
    OBVIOUS
  <2>1. CASE Next
    BY <2>1, UnsavedKept, AccountsKept, AttachedKept, ReadyKept, UnderWayKept, FollowedKept, WholeKept
       DEF Standing
  <2>2. CASE UNCHANGED vars
    <3>1. Unsaved' /\ Accounts'
      BY <2>2 DEF vars, people, session, Unsaved, Moving, Changed, Tree, Accounts, Untouched
    <3>2. Attached' /\ Ready' /\ UnderWay'
      BY <2>2 DEF vars, people, session, Standing, Attached, Ready, Clean, UnderWay, HalfWritten, Changed, Tree
    <3>3. Followed' /\ Whole'
      BY <2>2 DEF vars, people, session, Standing, Followed, Unwritten, Changed, Tree, HEAD, Whole
    <3> QED
      BY <3>1, <3>2, <3>3 DEF Standing
  <2> QED
    BY <2>1, <2>2
<1> QED
  BY <1>1, <1>2, <1>3, StructureHolds, PTL DEF Spec

\* Between releases every file is the checked-out commit's or holds an edit,
\* but for what a move that broke off left behind.
THEOREM FilesFollow ==
    ASSUME "window" \notin Hazards, "switch" \notin Hazards
    PROVE  Spec => []FilesFollowBranch
<1>1. Standing => FilesFollowBranch
  BY DEF Standing, Followed, FilesFollowBranch, Unwritten
<1> QED
  BY <1>1, StandingHolds, PTL

\* A step of Checkout is a step of its promise, or none to anybody else: only
\* the compare-and-swap is a move, and only a death over unwritten files a tear.
LEMMA StepsMoveAtOnce ==
    ASSUME "window" \notin Hazards, Structure, Unsaved, Standing, Next
    PROVE  Atomic!Next \/ UNCHANGED <<log, branch, on, Settled, edit>>
<1>t. TypeOK /\ Position /\ Attached /\ Ready /\ UnderWay /\ Whole
  BY DEF Structure, Standing
<1>n. Len(log) \in Nat /\ branch \in 1 .. Len(log)
  BY <1>t DEF TypeOK
<1>s. pc \notin {"restore", "unrestore"} => Settled = wt
  BY DEF Settled
<1>1. CASE Enter \/ Advance \/ Push \/ StepFails \/ Finish \/ Stop
  <2>1. UNCHANGED <<log, branch, on, wt, edit>> /\ pc \notin {"restore", "unrestore"}
        /\ pc' \notin {"restore", "unrestore"}
    BY <1>1 DEF Enter, Advance, Push, StepFails, Finish, Stop, End, people
  <2> QED
    BY <2>1 DEF Settled
<1>2. CASE MakeCommit
  <2>1. UNCHANGED <<branch, on, wt, edit>> /\ pc = "work" /\ pc' = "advance"
    BY <1>2 DEF MakeCommit, people
  <2>2. Settled' = Settled
    BY <2>1 DEF Settled
  <2>3. Atomic!Prepare
    BY <1>2, <2>1, <2>2, OneMore DEF Atomic!Prepare
  <2> QED
    BY <2>3 DEF Atomic!Next
<1>3. CASE SwapRef
  <2>1. UNCHANGED <<log, wt, tip, head, last, on, edit>> /\ pc = "swap"
    BY <1>3 DEF SwapRef, session, people
  <2>2. CASE branch' = branch /\ pc' = "stop"
    BY <2>1, <2>2 DEF Settled
  <2>3. CASE branch = tip /\ branch' = head /\ pc' = "restore"
    <3>1. log[head].by = "release" /\ tip \in log[head].anc /\ head \in 1 .. Len(log) /\ on
      BY <1>t, <2>1 DEF Position, OnTop, Whole, Attached
    <3>2. Settled = wt /\ Settled' = Written(head, Changed(tip, head))
      BY <2>1, <2>3 DEF Settled, Written, Changed, Tree
    <3>3. \A f \in Changed(tip, head) : wt[f] = Tree(branch)[f] /\ edit[f] = None
      BY <1>t, <2>1, <2>3 DEF Ready, Clean, Unsaved, Moving
    <3>4. Atomic!Clean(Changed(tip, head))
      BY <3>1, <3>2, <3>3 DEF Atomic!Clean, Atomic!HEAD, Atomic!Tree, Tree
    <3>5. Atomic!Changed(branch, head) = Changed(tip, head)
      BY <2>3 DEF Atomic!Changed, Atomic!Tree, Changed, Tree
    <3>6. Atomic!Written(head, Changed(tip, head)) = Settled'
      BY <3>2 DEF Atomic!Written, Atomic!Tree, Written, Tree
    <3>7. Atomic!Move
      BY <2>1, <2>3, <3>1, <3>4, <3>5, <3>6 DEF Atomic!Move
    <3> QED
      BY <3>7 DEF Atomic!Next
  <2> QED
    BY <1>3, <2>2, <2>3 DEF SwapRef, Swaps
<1>4. CASE UnswapRef
  <2>1. UNCHANGED <<log, wt, tip, head, last, on, edit>> /\ pc = "unswap"
    BY <1>4 DEF UnswapRef, session, people
  <2>2. CASE branch' = branch /\ pc' = "idle"
    BY <2>1, <2>2 DEF Settled
  <2>3. CASE branch = last.new /\ branch' = last.old /\ pc' = "unrestore"
    <3>1. OnTop(last.old, last.new) /\ on
      BY <1>t, <2>1 DEF Position, Attached
    <3>2. log[branch].by = "release" /\ last.old \in 1 .. Len(log)
      BY <2>3, <3>1 DEF OnTop
    <3>3. log[last.old].anc = log[branch].anc \ {branch}
      <4>1. log[last.old].anc \subseteq 1 .. last.old /\ last.old < last.new
        BY <1>t, <3>1 DEF Position, OnTop
      <4>2. last.new \notin log[last.old].anc
        BY <1>n, <3>1, <4>1 DEF OnTop
      <4> QED
        BY <2>3, <3>1, <4>2 DEF OnTop
    <3>4. Settled = wt /\ Settled' = Written(last.old, Changed(last.old, last.new))
      BY <2>1, <2>3 DEF Settled, Written, Changed, Tree
    <3>5. \A f \in Changed(last.old, last.new) : wt[f] = Tree(branch)[f] /\ edit[f] = None
      BY <1>t, <2>1, <2>3 DEF Ready, Clean, Unsaved, Moving
    <3>6. Atomic!Clean(Changed(last.old, last.new))
      BY <3>1, <3>4, <3>5 DEF Atomic!Clean, Atomic!HEAD, Atomic!Tree, Tree
    <3>7. Atomic!Changed(branch, last.old) = Changed(last.old, last.new)
      BY <2>3 DEF Atomic!Changed, Atomic!Tree, Changed, Tree
    <3>8. Atomic!Written(last.old, Changed(last.old, last.new)) = Settled'
      BY <3>4 DEF Atomic!Written, Atomic!Tree, Written, Tree
    <3>9. Atomic!Move
      BY <2>1, <2>3, <3>1, <3>2, <3>3, <3>6, <3>7, <3>8 DEF Atomic!Move
    <3> QED
      BY <3>9 DEF Atomic!Next
  <2> QED
    BY <1>4, <2>2, <2>3 DEF UnswapRef, Swaps, End
<1>5. CASE RestorePaths \/ UnrestorePaths
  <2>1. UNCHANGED <<log, branch, on, edit>> /\ wt' = Settled /\ pc' \notin {"restore", "unrestore"}
    BY <1>5 DEF RestorePaths, UnrestorePaths, End, people, Settled
  <2> QED
    BY <2>1 DEF Settled
<1>6. CASE pc \in {"restore", "unrestore"} /\ (RestoreFails \/ UnrestoreFails \/ Crash)
  <2> DEFINE from == IF pc = "restore" THEN tip ELSE last.new
             to == IF pc = "restore" THEN head ELSE last.old
             paths == Changed(from, to)
  <2>1. UNCHANGED <<log, branch, on, edit>> /\ pc' \notin {"restore", "unrestore"}
    BY <1>6 DEF RestoreFails, UnrestoreFails, Crash, End, people
  <2>2. from \in 1 .. Len(log)
    BY <1>t, <1>6 DEF Position, OnTop
  <2>3. Settled = Written(to, paths)
    BY <1>6, ChangedIsFiles DEF Settled
  <2>4. PICK F \in SUBSET paths : wt' = Written(to, F)
    <3>1. CASE Crash
      <4>1. wt' = wt
        BY <3>1 DEF Crash
      <4>2. wt = Written(to, {})
        BY <1>t DEF TypeOK, Written
      <4> QED
        BY <4>1, <4>2
    <3>2. CASE RestoreFails
      BY <3>2 DEF RestoreFails
    <3>3. CASE UnrestoreFails
      BY <3>3, ChangedIsFiles DEF UnrestoreFails
    <3> QED
      BY <1>6, <3>1, <3>2, <3>3
  <2>5. \A f \in paths : /\ f \in File /\ edit[f] = None /\ Tree(branch)[f] = Tree(to)[f]
                         /\ wt[f] \in {Tree(from)[f], Tree(to)[f]}
    BY <1>t, <1>6, ChangedIsFiles DEF UnderWay, HalfWritten, Unsaved, Moving
  <2>6. HEAD = branch
    BY <1>t, <1>6 DEF Attached, HEAD
  <2> HIDE DEF from, to, paths
  <2> DEFINE behind == {f \in paths \ F : wt[f] = Tree(from)[f]}
  <2>7. Settled' = wt'
    BY <2>1 DEF Settled
  <2>8. behind \in SUBSET File
    BY <2>5
  <2>9. Atomic!Clean(behind)
    BY <2>3, <2>5, <2>6 DEF Atomic!Clean, Atomic!HEAD, HEAD, Root, Atomic!Tree, Tree, Written
  <2>10. Settled' = Atomic!Written(from, behind)
    BY <2>3, <2>4, <2>5, <2>7 DEF Atomic!Written, Atomic!Tree, Tree, Written
  <2>11. Atomic!Tear
    BY <2>1, <2>2, <2>8, <2>9, <2>10 DEF Atomic!Tear
  <2> QED
    BY <2>11 DEF Atomic!Next
<1>7. CASE pc \notin {"restore", "unrestore"} /\ (RestoreFails \/ UnrestoreFails \/ Crash)
  <2>1. UNCHANGED <<log, branch, on, wt, edit>> /\ pc' \notin {"restore", "unrestore"}
    BY <1>7 DEF RestoreFails, UnrestoreFails, Crash, End, people
  <2> QED
    BY <1>7, <2>1 DEF Settled
<1>8. ASSUME NEW f \in File, Edit(f) PROVE Atomic!Edit
  <2>1. /\ UNCHANGED <<log, branch, on, pc, tip, head, last>> /\ f \notin Moving
        /\ edit'[f] # None /\ \A g \in File \ {f} : wt'[g] = wt[g] /\ edit'[g] = edit[g]
    BY <1>8, <1>t, CheckoutAssumption DEF Edit, TypeOK, session, None
  <2>2. \A g \in File \ {f} : Settled'[g] = Settled[g]
    BY <2>1 DEF Settled, Written, Changed, Tree
  <2> QED
    BY <2>1, <2>2 DEF Atomic!Edit
<1>9. ASSUME NEW f \in File, Undo(f) PROVE Atomic!Edit
  <2>1. /\ UNCHANGED <<log, branch, on, pc, tip, head, last>>
        /\ wt'[f] = Tree(HEAD)[f] /\ \A g \in File \ {f} : wt'[g] = wt[g] /\ edit'[g] = edit[g]
    BY <1>9, <1>t DEF Undo, TypeOK, session
  <2>2. \A g \in File \ {f} : Settled'[g] = Settled[g]
    BY <2>1 DEF Settled, Written, Changed, Tree
  <2>3. Settled'[f] = Tree(HEAD)[f]
    <3>1. CASE pc = "restore"
      BY <1>t, <2>1, <3>1 DEF Settled, Written, Changed, Tree, UnderWay, HalfWritten, Attached, HEAD
    <3>2. CASE pc = "unrestore"
      BY <1>t, <2>1, <3>2 DEF Settled, Written, Changed, Tree, UnderWay, HalfWritten, Attached, HEAD
    <3>3. CASE pc \notin {"restore", "unrestore"}
      BY <2>1, <3>3 DEF Settled
    <3> QED
      BY <3>1, <3>2, <3>3
  <2> QED
    BY <2>1, <2>2, <2>3 DEF Atomic!Edit, Atomic!HEAD, Atomic!Tree, HEAD, Tree, Root
<1>10. CASE CommitEdits
  <2>1. UNCHANGED <<on, wt, torn, pc, tip, head, last>> /\ on /\ branch' = Len(log) + 1
        /\ edit' = [f \in File |-> None]
    BY <1>10 DEF CommitEdits, session
  <2>2. \A c \in 1 .. Len(log) : log'[c] = log[c]
    BY <1>10, OneMore
  <2>3. Settled' = Settled
    <3>1. CASE pc = "restore"
      <4>1. tip \in 1 .. Len(log) /\ head \in 1 .. Len(log)
        BY <1>t, <3>1 DEF Position
      <4> QED
        BY <2>1, <2>2, <3>1, <4>1 DEF Settled, Written, Changed, Tree
    <3>2. CASE pc = "unrestore"
      <4>1. last.old \in 1 .. Len(log) /\ last.new \in 1 .. Len(log)
        BY <1>t, <3>2 DEF Position, OnTop
      <4> QED
        BY <2>1, <2>2, <3>2, <4>1 DEF Settled, Written, Changed, Tree
    <3>3. CASE pc \notin {"restore", "unrestore"}
      BY <2>1, <3>3 DEF Settled
    <3> QED
      BY <3>1, <3>2, <3>3
  <2>4. \A f \in File : edit[f] # None => Settled[f] = wt[f]
    BY DEF Unsaved, Moving, Settled, Written
  <2>5. \A f \in File : log'[branch'].tree[f] =
            IF edit[f] # None THEN Settled[f] ELSE Tree(branch)[f]
    BY <1>10, <2>1, <2>4, OneMore
  <2>6. /\ Len(log') = Len(log) + 1 /\ SubSeq(log', 1, Len(log)) = log /\ branch' = Len(log')
        /\ log'[branch'].anc = log[branch].anc \cup {branch'} /\ log'[branch'].by = "person"
    BY <1>10, <2>1, OneMore
  <2>7. Atomic!CommitEdits
    BY <2>1, <2>3, <2>5, <2>6 DEF Atomic!CommitEdits, Atomic!Tree, Tree
  <2> QED
    BY <2>7 DEF Atomic!Next
<1>11. CASE Switch
  <2> DEFINE to == IF on THEN Root ELSE branch
  <2>1. /\ UNCHANGED <<log, branch, edit, pc>> /\ ~Between /\ on' = ~on
        /\ wt' = Written(to, Changed(HEAD, to)) /\ LiveChanges \cap Changed(HEAD, to) = {}
    BY <1>11 DEF Switch
  <2>2. Settled = wt /\ Settled' = wt'
    BY <2>1 DEF Settled, Between
  <2>3. \A f \in Changed(HEAD, to) : wt[f] = Tree(HEAD)[f]
    BY <2>1 DEF LiveChanges, Changed
  <2>4. Atomic!Switch
    BY <2>1, <2>2, <2>3 DEF Atomic!Switch, Atomic!HEAD, Atomic!Changed, Atomic!Written, Atomic!Tree,
       HEAD, Changed, Written, Tree, Root
  <2> QED
    BY <2>4 DEF Atomic!Next
<1> QED
  BY <1>1, <1>2, <1>3, <1>4, <1>5, <1>6, <1>7, <1>8, <1>9, <1>10, <1>11
     DEF Next, Release, People, Atomic!Next

\* The branch and the files a release changes move together, from where the
\* release left the branch and never over a change of a person's.
THEOREM MoveIsOne ==
    ASSUME "window" \notin Hazards, "switch" \notin Hazards
    PROVE  Spec => MovesAtOnce
<1>1. Init => Atomic!Init
  <2> SUFFICES ASSUME Init PROVE Atomic!Init
    OBVIOUS
  <2>1. log = <<[anc |-> {1}, tree |-> [f \in File |-> <<"commit", 1>>], by |-> "person"]>>
    BY DEF Init, Pristine, Root
  <2>2. Len(log) = 1 /\ log[1].tree = [f \in File |-> <<"commit", 1>>]
    BY <2>1
  <2>3. Settled = [f \in File |-> <<"commit", 1>>]
    BY DEF Init, Settled, Pristine, Root
  <2> QED
    BY <2>2, <2>3 DEF Init, Atomic!Init, Atomic!Tree, Root
<1>2. Structure /\ Unsaved /\ Standing /\ [Next]_vars => [Atomic!Next]_<<log, branch, on, Settled, edit>>
  <2> SUFFICES ASSUME Structure, Unsaved, Standing, [Next]_vars
               PROVE  Atomic!Next \/ UNCHANGED <<log, branch, on, Settled, edit>>
    OBVIOUS
  <2>1. CASE Next
    BY <2>1, StepsMoveAtOnce
  <2>2. CASE UNCHANGED vars
    BY <2>2 DEF vars, people, session, Settled, Written, Changed, Tree
  <2> QED
    BY <2>1, <2>2
<1> QED
  BY <1>1, <1>2, StandingHolds, PTL DEF Spec, MovesAtOnce, Atomic!Spec, Atomic!state
=============================================================================
