--------------------------- MODULE RunLockProofs ---------------------------
(* Proofs about RunLock, for any number of processes and goroutines.         *)
EXTENDS RunLock, FiniteSetTheorems, TLAPS

\* A process's entry is its own goroutine's, whose descriptor has the
\* kernel's lock; so has that of a goroutine about to register, or probing.
Owned ==
    /\ \A p \in Proc : Holds(p) => ProcOf[locks[p].fd] = p
    /\ TableHolds
    /\ \A t \in Thread : pc[t] = "register" =>
           flock = <<t, "lock">> /\ \A p \in Proc : ~Holds(p)
    /\ \A t \in Thread : pc[t] = "probing" => flock = <<t, "probe">>

Structure == TypeOK /\ Owned

\* No two processes have an entry.
LEMMA OneOwner == Structure => Exclusive
<1> SUFFICES ASSUME Structure, NEW p \in Proc, NEW q \in Proc, Holds(p), Holds(q)
             PROVE  p = q
  BY DEF Exclusive
<1>1. <<locks[p].fd, "lock">> = <<locks[q].fd, "lock">>
  BY DEF Structure, Owned, TableHolds
<1>2. ProcOf[locks[p].fd] = p /\ ProcOf[locks[q].fd] = q
  BY DEF Structure, Owned
<1> QED
  BY <1>1, <1>2

\* While nobody's descriptor has the kernel's lock, no process has an entry.
LEMMA FreeIsUnheld ==
    ASSUME RunLockAssumption, Structure, flock = Unlocked
    PROVE  \A p \in Proc : ~Holds(p)
BY DEF RunLockAssumption, Structure, TypeOK, Owned, TableHolds, Holds, Unlocked

Entry == [fd : Thread \cup {Nobody}, depth : Nat]

\* Nesting keeps an entry's descriptor; so does a release of a nested Lock.
LEMMA Entries ==
    ASSUME NEW h \in Entry
    PROVE  /\ Deepened(h) \in Entry /\ Deepened(h).fd = h.fd
           /\ Given(h) \in Entry
           /\ h.fd # Nobody /\ ~Outermost(h) => Given(h).fd = h.fd
           /\ h.fd = Nobody \/ Outermost(h) => Given(h).fd = Nobody
<1>1. NoEntry \in Entry /\ NoEntry.fd = Nobody
  BY DEF NoEntry, Entry
<1>2. Deepened(h) \in Entry /\ Deepened(h).fd = h.fd
  BY DEF Entry, Deepened
<1>3. CASE h.fd = Nobody \/ Outermost(h)
  BY <1>1, <1>2, <1>3 DEF Given
<1>4. CASE ~(h.fd = Nobody \/ Outermost(h))
  <2>1. Given(h) = [h EXCEPT !.depth = @ - 1]
    BY <1>4 DEF Given
  <2>2. h.depth \in Nat \ {0}
    BY <1>4 DEF Outermost, Entry
  <2>3. Given(h) \in Entry /\ Given(h).fd = h.fd
    BY <2>1, <2>2 DEF Entry
  <2> QED
    BY <1>2, <1>4, <2>3
<1> QED
  BY <1>3, <1>4

\* Every step keeps the types.
LEMMA TypeKept ==
    ASSUME RunLockAssumption
    PROVE  Structure /\ Next => TypeOK'
<1> SUFFICES ASSUME Structure, Next PROVE TypeOK'
  OBVIOUS
<1> USE DEF RunLockAssumption, Structure, TypeOK, Places, Answers, Fd, Unlocked,
        Goto, Answer, Enter, Leave
<1>1. ASSUME NEW t \in Thread, Acquire(t) PROVE TypeOK'
  BY <1>1 DEF Acquire, Call
<1>2. ASSUME NEW t \in Thread, Look(t) PROVE TypeOK'
  <2>1. ProcOf[t] \in Proc
    OBVIOUS
  <2>2. Deepened(locks[ProcOf[t]]) \in Entry
    BY <2>1, Entries DEF Entry
  <2>3. CASE Holds(ProcOf[t])
    <3>1. /\ locks' = [locks EXCEPT ![ProcOf[t]] = Deepened(@)]
          /\ mine' = [mine EXCEPT ![t] = @ + 1]
          /\ pc' = [pc EXCEPT ![t] = "idle"] /\ answer' = [answer EXCEPT ![t] = "taken"]
          /\ UNCHANGED <<file, flock, mu, inprog, wait, calls>>
      BY <1>2, <2>3 DEF Look
    <3>2. locks' \in [Proc -> Entry]
      BY <2>1, <2>2, <3>1 DEF Entry
    <3> QED
      BY <3>1, <3>2 DEF Entry
  <2>4. CASE ~Holds(ProcOf[t])
    <3>1. /\ pc' = [pc EXCEPT ![t] = IF file THEN "open" ELSE "create"]
          /\ mu' = [mu EXCEPT ![ProcOf[t]] = t]
          /\ UNCHANGED <<file, flock, locks, inprog, wait, mine, answer, calls>>
      BY <1>2, <2>4 DEF Look
    <3> QED
      BY <2>1, <3>1
  <2> QED
    BY <2>3, <2>4
<1>3. ASSUME NEW t \in Thread, Create(t) PROVE TypeOK'
  BY <1>3 DEF Create
<1>4. ASSUME NEW t \in Thread, TryLock(t) PROVE TypeOK'
  <2>1. /\ pc' \in [Thread -> Places] /\ answer' \in [Thread -> Answers]
        /\ mu' \in [Proc -> Thread \cup {Nobody}]
    BY <1>4 DEF TryLock
  <2>2. flock' \in Fd \cup {Unlocked}
    BY <1>4 DEF TryLock
  <2> QED
    BY <1>4, <2>1, <2>2 DEF TryLock
<1>5. ASSUME NEW t \in Thread, Granted(t) PROVE TypeOK'
  BY <1>5 DEF Granted
<1>6. ASSUME NEW t \in Thread, Register(t) PROVE TypeOK'
  BY <1>6 DEF Register
<1>7. ASSUME NEW t \in Thread, Release(t) PROVE TypeOK'
  <2>1. ProcOf[t] \in Proc
    OBVIOUS
  <2>2. Given(locks[ProcOf[t]]) \in Entry
    BY <2>1, Entries DEF Entry
  <2>3. flock' \in Fd \cup {Unlocked}
    BY <1>7 DEF Release, Unlocks
  <2> QED
    BY <1>7, <2>1, <2>2, <2>3 DEF Release, Entry
<1>8. ASSUME NEW t \in Thread, WriteState(t) PROVE TypeOK'
  BY <1>8 DEF WriteState
<1>9. ASSUME NEW t \in Thread, Probe(t) PROVE TypeOK'
  BY <1>9 DEF Probe, Call
<1>10. ASSUME NEW t \in Thread, TryProbe(t) PROVE TypeOK'
  <2>1. pc' \in [Thread -> Places] /\ answer' \in [Thread -> Answers]
    BY <1>10 DEF TryProbe
  <2>2. flock' \in Fd \cup {Unlocked}
    BY <1>10 DEF TryProbe
  <2> QED
    BY <1>10, <2>1, <2>2 DEF TryProbe
<1>11. ASSUME NEW t \in Thread, EndProbe(t) PROVE TypeOK'
  BY <1>11 DEF EndProbe
<1>12. ASSUME NEW t \in Thread, Report(t) PROVE TypeOK'
  BY <1>12 DEF Report
<1>13. ASSUME NEW p \in Proc, Crash(p) PROVE TypeOK'
  BY <1>13 DEF Crash, NoEntry
<1>14. ASSUME NEW t \in Thread, LookAgain(t) PROVE TypeOK'
  BY <1>14 DEF LookAgain
<1> QED
  BY <1>1, <1>2, <1>3, <1>4, <1>5, <1>6, <1>7, <1>8, <1>9, <1>10, <1>11, <1>12, <1>13, <1>14
     DEF Next, Progress

\* Every step keeps the kernel's lock with the descriptor that should have it.
LEMMA OwnedKept ==
    ASSUME RunLockAssumption
    PROVE  Structure /\ Next => Owned'
<1> SUFFICES ASSUME Structure, Next PROVE Owned'
  OBVIOUS
<1> USE DEF RunLockAssumption, Structure, TypeOK, Owned, TableHolds, Holds,
        Goto, Answer, Enter, Leave
<1>f. flock = Unlocked => \A p \in Proc : ~Holds(p)
  BY FreeIsUnheld
<1>u. \A t \in Thread : Unlocked # <<t, "lock">> /\ Unlocked # <<t, "probe">>
  BY DEF Unlocked
<1>1. ASSUME NEW t \in Thread, Acquire(t) \/ Probe(t) \/ Create(t) \/ WriteState(t)
                \/ LookAgain(t) \/ Report(t)
      PROVE  Owned'
  BY <1>1 DEF Acquire, Probe, Create, WriteState, LookAgain, Report, Call
<1>2. ASSUME NEW t \in Thread, Look(t) PROVE Owned'
  <2>1. ProcOf[t] \in Proc
    OBVIOUS
  <2>2. Deepened(locks[ProcOf[t]]).fd = locks[ProcOf[t]].fd
    BY <2>1, Entries DEF Entry
  <2>3. \A p \in Proc : locks'[p].fd = locks[p].fd
    BY <1>2, <2>1, <2>2 DEF Look
  <2> QED
    BY <1>2, <2>3 DEF Look
<1>3. ASSUME NEW t \in Thread, TryLock(t) PROVE Owned'
  BY <1>3, <1>f, <1>u DEF TryLock, Free
<1>4. ASSUME NEW t \in Thread, Granted(t) PROVE Owned'
  BY <1>4, <1>f, <1>u DEF Granted, Free
<1>5. ASSUME NEW t \in Thread, Register(t) PROVE Owned'
  <2>1. flock = <<t, "lock">> /\ flock' = flock
    BY <1>5 DEF Register
  <2>2. \A q \in Proc : locks'[q] = IF q = ProcOf[t] THEN [fd |-> t, depth |-> 0] ELSE locks[q]
    BY <1>5 DEF Register
  <2> QED
    BY <1>5, <2>1, <2>2 DEF Register
<1>6. ASSUME NEW t \in Thread, Release(t) PROVE Owned'
  <2> DEFINE p == ProcOf[t]
  <2>1. p \in Proc /\ UNCHANGED pc
    BY <1>6 DEF Release
  <2>2. \A q \in Proc : locks'[q] = IF q = p THEN Given(locks[q]) ELSE locks[q]
    BY <1>6, <2>1 DEF Release
  <2>3. CASE Holds(p) /\ Outermost(locks[p])
    <3>1. flock' = Unlocked /\ flock = <<locks[p].fd, "lock">>
      BY <1>6, <2>1, <2>3 DEF Release, Unlocks
    <3>2. \A q \in Proc : ~Holds(q)'
      <4>1. \A q \in Proc : Holds(q) => q = p
        BY <2>1, <2>3, OneOwner DEF Exclusive
      <4>2. Given(locks[p]).fd = Nobody
        BY <2>1, <2>3, Entries DEF Entry
      <4> QED
        BY <2>2, <4>1, <4>2
    <3>3. \A u \in Thread : pc[u] \notin {"register", "probing"}
      <4> SUFFICES ASSUME NEW u \in Thread, pc[u] \in {"register", "probing"} PROVE FALSE
        OBVIOUS
      <4>1. CASE pc[u] = "probing"
        BY <3>1, <4>1
      <4>2. CASE pc[u] = "register"
        BY <3>1, <4>2, <2>3
      <4> QED
        BY <4>1, <4>2
    <3> QED
      BY <2>1, <3>2, <3>3
  <2>4. CASE ~(Holds(p) /\ Outermost(locks[p]))
    <3>1. flock' = flock
      BY <1>6, <2>4 DEF Release
    <3>2. \A q \in Proc : locks'[q].fd = locks[q].fd
      BY <2>1, <2>2, <2>4, Entries DEF Entry
    <3> QED
      BY <2>1, <3>1, <3>2
  <2> QED
    BY <2>3, <2>4
<1>7. ASSUME NEW t \in Thread, TryProbe(t) PROVE Owned'
  BY <1>7, <1>f, <1>u DEF TryProbe, Free
<1>8. ASSUME NEW t \in Thread, EndProbe(t) PROVE Owned'
  BY <1>8, <1>u DEF EndProbe
<1>9. ASSUME NEW p \in Proc, Crash(p) PROVE Owned'
  BY <1>9, <1>u DEF Crash, NoEntry
<1> QED
  BY <1>1, <1>2, <1>3, <1>4, <1>5, <1>6, <1>7, <1>8, <1>9 DEF Next, Progress

\* Structure is inductive.
THEOREM StructureHolds ==
    ASSUME RunLockAssumption
    PROVE  Spec => []Structure
<1>1. Init => Structure
  <2> SUFFICES ASSUME Init PROVE Structure
    OBVIOUS
  <2>1. file \in BOOLEAN
    BY DEF Init
  <2>2. NoEntry \in [fd : Thread \cup {Nobody}, depth : Nat] /\ NoEntry.fd = Nobody
    BY DEF NoEntry
  <2>3. TypeOK
    BY <2>1, <2>2 DEF RunLockAssumption, Init, TypeOK, Places, Answers
  <2>4. Owned
    BY <2>2 DEF Init, Owned, TableHolds, Holds
  <2> QED
    BY <2>3, <2>4 DEF Structure
<1>2. Structure /\ [Next]_vars => Structure'
  <2> SUFFICES ASSUME Structure, [Next]_vars PROVE Structure'
    OBVIOUS
  <2>1. CASE Next
    BY <2>1, TypeKept, OwnedKept DEF Structure
  <2>2. CASE UNCHANGED vars
    BY <2>2 DEF vars, Structure, TypeOK, Owned, TableHolds, Holds
  <2> QED
    BY <2>1, <2>2
<1> QED
  BY <1>1, <1>2, PTL DEF Spec

\* Every variable keeps its type; a nesting depth is never negative.
THEOREM TypeCorrect ==
    ASSUME RunLockAssumption
    PROVE  Spec => []TypeOK
<1>1. Structure => TypeOK
  BY DEF Structure
<1> QED
  BY <1>1, StructureHolds, PTL

\* One process at a time has the lock, however acquires, releases, probes and
\* crashes of any number of processes and goroutines mix.
THEOREM MutualExclusion ==
    ASSUME RunLockAssumption
    PROVE  Spec => []Exclusive
BY OneOwner, StructureHolds, PTL

\* Every step leaves the kernel's lock with somebody who will give it back.
LEMMA OrphansNone ==
    ASSUME RunLockAssumption
    PROVE  Structure /\ NeverOrphaned /\ Next => NeverOrphaned'
<1> SUFFICES ASSUME Structure, NeverOrphaned, Next PROVE NeverOrphaned'
  OBVIOUS
<1> USE DEF RunLockAssumption, Structure, TypeOK, NeverOrphaned, Goto, Answer, Enter, Leave
<1>1. ASSUME NEW t \in Thread, Acquire(t) \/ Probe(t) \/ Create(t) \/ WriteState(t)
                \/ LookAgain(t) \/ Report(t)
      PROVE  NeverOrphaned'
  <2>1. \A u \in Thread : pc[u] \in {"register", "probing"} => pc'[u] = pc[u]
    BY <1>1 DEF Acquire, Probe, Create, WriteState, LookAgain, Report, Call
  <2>2. flock' = flock /\ locks' = locks
    BY <1>1 DEF Acquire, Probe, Create, WriteState, LookAgain, Report, Call
  <2> QED
    BY <2>1, <2>2 DEF Fd
<1>2. ASSUME NEW t \in Thread, Look(t) PROVE NeverOrphaned'
  <2>1. ProcOf[t] \in Proc
    OBVIOUS
  <2>2. Deepened(locks[ProcOf[t]]).fd = locks[ProcOf[t]].fd
    BY <2>1, Entries DEF Entry
  <2>3. \A p \in Proc : locks'[p].fd = locks[p].fd
    BY <1>2, <2>1, <2>2 DEF Look
  <2>4. \A u \in Thread : pc[u] \in {"register", "probing"} => pc'[u] = pc[u]
    BY <1>2 DEF Look
  <2>5. flock' = flock
    BY <1>2 DEF Look
  <2> QED
    BY <2>3, <2>4, <2>5 DEF Fd
<1>3. ASSUME NEW t \in Thread, TryLock(t) \/ TryProbe(t) PROVE NeverOrphaned'
  <2>1. locks' = locks
    BY <1>3 DEF TryLock, TryProbe
  <2>2. \A u \in Thread : pc[u] \in {"register", "probing"} => pc'[u] = pc[u]
    BY <1>3 DEF TryLock, TryProbe
  <2>3. \/ flock' = flock
        \/ flock' = <<t, "lock">> /\ pc'[t] = "register"
        \/ flock' = <<t, "probe">> /\ pc'[t] = "probing"
    BY <1>3 DEF TryLock, TryProbe
  <2> QED
    BY <2>1, <2>2, <2>3 DEF Fd
<1>4. ASSUME NEW t \in Thread, Granted(t) PROVE NeverOrphaned'
  BY <1>4 DEF Granted
<1>5. ASSUME NEW t \in Thread, Register(t) PROVE NeverOrphaned'
  <2>1. flock = <<t, "lock">> /\ flock' = flock
    BY <1>5 DEF Register, Owned
  <2>2. locks'[ProcOf[t]].fd = t
    BY <1>5 DEF Register
  <2> QED
    BY <2>1, <2>2
<1>6. ASSUME NEW t \in Thread, Release(t) PROVE NeverOrphaned'
  <2> DEFINE p == ProcOf[t]
  <2>1. p \in Proc /\ UNCHANGED pc
    BY <1>6 DEF Release
  <2>2. CASE Holds(p) /\ Outermost(locks[p])
    BY <1>6, <2>2 DEF Release, Unlocks
  <2>3. CASE ~(Holds(p) /\ Outermost(locks[p]))
    <3>1. flock' = flock
      BY <1>6, <2>3 DEF Release
    <3>2. \A q \in Proc : locks'[q].fd = locks[q].fd
      BY <1>6, <2>1, <2>3, Entries DEF Release, Entry, Holds
    <3> QED
      BY <2>1, <3>1, <3>2 DEF Fd
  <2> QED
    BY <2>2, <2>3
<1>7. ASSUME NEW t \in Thread, EndProbe(t) PROVE NeverOrphaned'
  BY <1>7 DEF EndProbe
<1>8. ASSUME NEW p \in Proc, Crash(p) PROVE NeverOrphaned'
  <2> SUFFICES ASSUME flock' # Unlocked PROVE NeverOrphaned'
    OBVIOUS
  <2>1. flock' = flock /\ flock[1] \in Thread /\ ProcOf[flock[1]] # p
    BY <1>8 DEF Crash, Fd
  <2>2. pc'[flock[1]] = pc[flock[1]] /\ locks'[ProcOf[flock[1]]] = locks[ProcOf[flock[1]]]
    BY <1>8, <2>1 DEF Crash
  <2> QED
    BY <2>1, <2>2
<1> QED
  BY <1>1, <1>2, <1>3, <1>4, <1>5, <1>6, <1>7, <1>8 DEF Next, Progress

\* The kernel's lock never stays with nobody to give it back.
THEOREM NoOrphan ==
    ASSUME RunLockAssumption
    PROVE  Spec => []NeverOrphaned
<1>1. Init => NeverOrphaned
  BY DEF Init, NeverOrphaned
<1>2. Structure /\ NeverOrphaned /\ [Next]_vars => NeverOrphaned'
  <2>1. CASE Next
    BY <2>1, OrphansNone
  <2>2. CASE UNCHANGED vars
    BY <2>2 DEF vars, NeverOrphaned
  <2> QED
    BY <2>1, <2>2
<1> QED
  BY <1>1, <1>2, StructureHolds, PTL DEF Spec

-----------------------------------------------------------------------------
\* The Locks a process has out, each with its number among its goroutine's.
Tokens(p) ==
    {x \in Thread \X Nat : ProcOf[x[1]] = p /\ 0 < x[2] /\ x[2] <= mine[x[1]]}

\* A process's entry counts the Locks it has out: nested one less than all.
Counted ==
    \A p \in Proc :
        /\ IsFiniteSet(Tokens(p))
        /\ Cardinality(Tokens(p)) = IF Holds(p) THEN locks[p].depth + 1 ELSE 0

\* Who has no Lock out is not among the Tokens, and who has some is.
Telling ==
    \A p \in Proc :
        Tokens(p) = {} <=> \A t \in Thread : ProcOf[t] = p => mine[t] = 0
LEMMA TokensTell == TypeOK => Telling
<1> SUFFICES ASSUME TypeOK, NEW p \in Proc
             PROVE  Tokens(p) = {} <=> \A t \in Thread : ProcOf[t] = p => mine[t] = 0
  BY DEF Telling
<1>1. ASSUME NEW t \in Thread, ProcOf[t] = p, mine[t] # 0 PROVE <<t, mine[t]>> \in Tokens(p)
  BY <1>1 DEF TypeOK, Tokens
<1>2. ASSUME NEW x \in Tokens(p) PROVE x[1] \in Thread /\ ProcOf[x[1]] = p /\ mine[x[1]] # 0
  BY <1>2 DEF TypeOK, Tokens
<1> QED
  BY <1>1, <1>2

\* The Tokens of a process are its own goroutines' business.
LEMMA TokensStay ==
    ASSUME NEW p \in Proc, \A t \in Thread : ProcOf[t] = p => mine'[t] = mine[t]
    PROVE  Tokens(p)' = Tokens(p)
BY DEF Tokens

\* Taking a Lock adds a token.
LEMMA TokenTaken ==
    ASSUME TypeOK, NEW t \in Thread, mine' = [mine EXCEPT ![t] = @ + 1], IsFiniteSet(Tokens(ProcOf[t]))
    PROVE  /\ IsFiniteSet(Tokens(ProcOf[t]))'
           /\ Cardinality(Tokens(ProcOf[t]))' = Cardinality(Tokens(ProcOf[t])) + 1
<1> DEFINE x == <<t, mine[t] + 1>>
           T == Tokens(ProcOf[t])
<1>1. mine[t] \in Nat
  BY DEF TypeOK
<1>2. x \notin T
  BY <1>1 DEF Tokens
<1>3. Tokens(ProcOf[t])' = T \cup {x}
  <2>1. x \in Tokens(ProcOf[t])'
    BY <1>1 DEF Tokens, TypeOK
  <2>2. ASSUME NEW y \in T PROVE y \in Tokens(ProcOf[t])'
    BY <1>1, <2>2 DEF Tokens, TypeOK
  <2>3. ASSUME NEW y \in Tokens(ProcOf[t])', y # x PROVE y \in T
    <3>1. y = <<y[1], y[2]>> /\ y[1] \in Thread /\ y[2] \in Nat
      BY <2>3 DEF Tokens
    <3>2. CASE y[1] = t
      <4>1. y[2] # mine[t] + 1
        BY <2>3, <3>1, <3>2
      <4>2. y[2] <= mine[t] + 1
        BY <2>3, <3>2, <1>1 DEF Tokens, TypeOK
      <4>3. y[2] <= mine[t]
        BY <4>1, <4>2, <3>1, <1>1
      <4> QED
        BY <2>3, <3>1, <3>2, <4>3 DEF Tokens
    <3>3. CASE y[1] # t
      BY <2>3, <3>1, <3>3 DEF Tokens, TypeOK
    <3> QED
      BY <3>2, <3>3
  <2> QED
    BY <2>1, <2>2, <2>3
<1>4. IsFiniteSet(T \cup {x}) /\ Cardinality(T \cup {x}) = Cardinality(T) + 1
  BY <1>2, FS_AddElement
<1> QED
  BY <1>3, <1>4

\* Giving one back removes a token.
LEMMA TokenGiven ==
    ASSUME TypeOK, NEW t \in Thread, mine[t] > 0, mine' = [mine EXCEPT ![t] = @ - 1],
           IsFiniteSet(Tokens(ProcOf[t]))
    PROVE  /\ IsFiniteSet(Tokens(ProcOf[t]))'
           /\ Cardinality(Tokens(ProcOf[t]))' = Cardinality(Tokens(ProcOf[t])) - 1
<1> DEFINE x == <<t, mine[t]>>
           T == Tokens(ProcOf[t])
<1>1. mine[t] \in Nat /\ mine[t] # 0
  BY DEF TypeOK
<1>2. x \in T
  BY <1>1 DEF Tokens
<1>3. Tokens(ProcOf[t])' = T \ {x}
  <2>1. x \notin Tokens(ProcOf[t])'
    BY <1>1 DEF Tokens, TypeOK
  <2>2. ASSUME NEW y \in Tokens(ProcOf[t])' PROVE y \in T
    BY <1>1, <2>2 DEF Tokens, TypeOK
  <2>3. ASSUME NEW y \in T, y # x PROVE y \in Tokens(ProcOf[t])'
    <3>1. y = <<y[1], y[2]>> /\ y[1] \in Thread /\ y[2] \in Nat
      BY <2>3 DEF Tokens
    <3>2. CASE y[1] = t
      <4>1. y[2] # mine[t] /\ y[2] <= mine[t]
        BY <2>3, <3>1, <3>2 DEF Tokens
      <4>2. y[2] <= mine[t] - 1
        BY <4>1, <3>1, <1>1
      <4> QED
        BY <2>3, <3>1, <3>2, <4>2 DEF Tokens, TypeOK
    <3>3. CASE y[1] # t
      BY <2>3, <3>1, <3>3 DEF Tokens, TypeOK
    <3> QED
      BY <3>2, <3>3
  <2> QED
    BY <2>1, <2>2, <2>3
<1>4. IsFiniteSet(T \ {x}) /\ Cardinality(T \ {x}) = Cardinality(T) - 1
  BY <1>2, FS_RemoveElement
<1> QED
  BY <1>3, <1>4

\* A goroutine that has a Lock out is of a process with an entry.
LEMMA OutIsHeld ==
    ASSUME RunLockAssumption, TypeOK, Counted, NEW t \in Thread, mine[t] > 0
    PROVE  Holds(ProcOf[t])
<1>1. ProcOf[t] \in Proc
  BY DEF RunLockAssumption
<1>2. Tokens(ProcOf[t]) # {}
  <2>1. mine[t] # 0
    BY DEF TypeOK
  <2> QED
    BY <1>1, <2>1, TokensTell DEF Telling
<1>3. Cardinality(Tokens(ProcOf[t])) # 0
  BY <1>1, <1>2, FS_EmptySet DEF Counted
<1> QED
  BY <1>1, <1>3 DEF Counted

\* Every step keeps the count.
LEMMA CountKept ==
    ASSUME RunLockAssumption
    PROVE  Structure /\ Counted /\ [Next]_vars => Counted'
<1> SUFFICES ASSUME Structure, Counted, [Next]_vars PROVE Counted'
  OBVIOUS
<1> USE DEF RunLockAssumption
<1>t. TypeOK
  BY DEF Structure
<1>0. ASSUME UNCHANGED <<mine, locks>> PROVE Counted'
  BY <1>0 DEF Counted, Tokens, Holds
<1>1. ASSUME NEW t \in Thread, Look(t), Holds(ProcOf[t]) PROVE Counted'
  <2> DEFINE p == ProcOf[t]
  <2>1. p \in Proc /\ locks[p] \in Entry /\ locks[p].depth \in Nat
    BY <1>t DEF TypeOK, Entry
  <2>2. mine' = [mine EXCEPT ![t] = @ + 1] /\ locks' = [locks EXCEPT ![p] = Deepened(@)]
    BY <1>1 DEF Look
  <2>3. locks'[p] = Deepened(locks[p]) /\ \A q \in Proc : q # p => locks'[q] = locks[q]
    BY <2>1, <2>2, <1>t DEF TypeOK
  <2>4. locks'[p].fd = locks[p].fd /\ locks'[p].depth = locks[p].depth + 1
    BY <2>1, <2>3 DEF Deepened, Entry
  <2>5. \A q \in Proc : q # p => Tokens(q)' = Tokens(q)
    BY <2>2, <1>t, TokensStay DEF TypeOK
  <2>6. IsFiniteSet(Tokens(p))' /\ Cardinality(Tokens(p))' = Cardinality(Tokens(p)) + 1
    BY <2>1, <2>2, <1>t, TokenTaken DEF Counted
  <2>7. Cardinality(Tokens(p))' = locks'[p].depth + 1 /\ locks'[p].fd # Nobody
    BY <1>1, <2>1, <2>4, <2>6 DEF Counted, Holds
  <2> QED
    BY <2>3, <2>5, <2>6, <2>7 DEF Counted, Holds
<1>2. ASSUME NEW t \in Thread, Register(t) PROVE Counted'
  <2> DEFINE p == ProcOf[t]
  <2>1. p \in Proc /\ ~Holds(p)
    BY <1>2 DEF Register, Structure, Owned
  <2>2. mine' = [mine EXCEPT ![t] = @ + 1] /\ locks' = [locks EXCEPT ![p] = [fd |-> t, depth |-> 0]]
    BY <1>2 DEF Register
  <2>3. locks'[p] = [fd |-> t, depth |-> 0] /\ \A q \in Proc : q # p => locks'[q] = locks[q]
    BY <2>1, <2>2, <1>t DEF TypeOK
  <2>4. \A q \in Proc : q # p => Tokens(q)' = Tokens(q)
    BY <2>2, <1>t, TokensStay DEF TypeOK
  <2>5. IsFiniteSet(Tokens(p))' /\ Cardinality(Tokens(p))' = Cardinality(Tokens(p)) + 1
    BY <2>1, <2>2, <1>t, TokenTaken DEF Counted
  <2>6. Cardinality(Tokens(p))' = locks'[p].depth + 1 /\ locks'[p].fd # Nobody
    BY <2>1, <2>3, <2>5 DEF Counted
  <2> QED
    BY <2>3, <2>4, <2>5, <2>6 DEF Counted, Holds
<1>3. ASSUME NEW t \in Thread, Release(t) PROVE Counted'
  <2> DEFINE p == ProcOf[t]
  <2>1. p \in Proc /\ mine[t] > 0 /\ locks[p] \in Entry /\ locks[p].depth \in Nat
    BY <1>3, <1>t DEF Release, TypeOK, Entry
  <2>2. mine' = [mine EXCEPT ![t] = @ - 1] /\ locks' = [locks EXCEPT ![p] = Given(@)]
    BY <1>3 DEF Release
  <2>3. locks'[p] = Given(locks[p]) /\ \A q \in Proc : q # p => locks'[q] = locks[q]
    BY <2>1, <2>2, <1>t DEF TypeOK
  <2>4. \A q \in Proc : q # p => Tokens(q)' = Tokens(q)
    BY <2>2, <1>t, TokensStay DEF TypeOK
  <2>5. IsFiniteSet(Tokens(p))' /\ Cardinality(Tokens(p))' = Cardinality(Tokens(p)) - 1
    BY <2>1, <2>2, <1>t, TokenGiven DEF Counted
  <2>6. Holds(p) /\ Cardinality(Tokens(p)) = locks[p].depth + 1
    BY <2>1, <1>t, OutIsHeld DEF Counted
  <2>7. Cardinality(Tokens(p))' = IF Holds(p)' THEN locks'[p].depth + 1 ELSE 0
    <3>1. CASE Outermost(locks[p])
      <4>1. locks'[p].fd = Nobody
        BY <2>1, <2>3, <3>1, Entries
      <4> QED
        BY <4>1, <2>1, <2>5, <2>6, <3>1 DEF Outermost, Holds
    <3>2. CASE ~Outermost(locks[p])
      <4>1. locks'[p] = [locks[p] EXCEPT !.depth = @ - 1]
        BY <2>3, <2>6, <3>2 DEF Given, Holds
      <4>2. locks'[p].fd = locks[p].fd /\ locks'[p].depth = locks[p].depth - 1
        BY <2>1, <4>1 DEF Entry
      <4> QED
        BY <4>2, <2>1, <2>5, <2>6 DEF Holds
    <3> QED
      BY <3>1, <3>2
  <2> QED
    BY <2>3, <2>4, <2>5, <2>7 DEF Counted, Holds
<1>4. ASSUME NEW p \in Proc, Crash(p) PROVE Counted'
  <2>1. /\ \A t \in Thread : mine'[t] = IF ProcOf[t] = p THEN 0 ELSE mine[t]
        /\ \A q \in Proc : locks'[q] = IF q = p THEN NoEntry ELSE locks[q]
    BY <1>4, <1>t DEF Crash, TypeOK
  <2>2. \A q \in Proc : q # p => Tokens(q)' = Tokens(q)
    BY <2>1, TokensStay
  <2>3. Tokens(p)' = {}
    BY <2>1 DEF Tokens
  <2>4. ~Holds(p)' /\ \A q \in Proc : q # p => Holds(q)' = Holds(q)
    BY <2>1 DEF Holds, NoEntry
  <2>5. IsFiniteSet(Tokens(p))' /\ Cardinality(Tokens(p))' = 0
    BY <2>3, FS_EmptySet
  <2> QED
    BY <2>1, <2>2, <2>4, <2>5 DEF Counted
<1>5. CASE UNCHANGED vars
  BY <1>0, <1>5 DEF vars
<1>6. ASSUME NEW t \in Thread, Look(t), ~Holds(ProcOf[t]) PROVE Counted'
  BY <1>0, <1>6 DEF Look
<1>7. ASSUME NEW t \in Thread, Acquire(t) \/ Probe(t) \/ WriteState(t) \/ Create(t) \/ TryLock(t)
                \/ Granted(t) \/ LookAgain(t) \/ TryProbe(t) \/ EndProbe(t) \/ Report(t)
      PROVE  Counted'
  BY <1>0, <1>7 DEF Acquire, Probe, WriteState, Create, TryLock, Granted, LookAgain, TryProbe,
                    EndProbe, Report
<1> QED
  BY <1>1, <1>2, <1>3, <1>4, <1>5, <1>6, <1>7 DEF Next, Progress

\* The holder is the process with an entry, and nobody when none has one.
LEMMA HolderIs ==
    /\ Exclusive => \A p \in Proc : Holds(p) => Holder = p
    /\ (\A p \in Proc : ~Holds(p)) => Holder = Nobody
BY DEF Exclusive, Holder

\* A step that touches neither the table nor the Locks out is none of the
\* promise's.
LEMMA Stutters ==
    ASSUME UNCHANGED <<mine, locks>>
    PROVE  UNCHANGED <<Holder, mine>>
BY DEF Holder, Holds

\* Every step is a step of the promise, or none.
LEMMA StepsKeepPromise ==
    ASSUME RunLockAssumption
    PROVE  Structure /\ Counted /\ Counted' /\ Structure' /\ [Next]_vars => [Promise!Next]_<<Holder, mine>>
<1> SUFFICES ASSUME Structure, Counted, Counted', Structure', [Next]_vars
             PROVE  [Promise!Next]_<<Holder, mine>>
  OBVIOUS
<1> USE DEF RunLockAssumption
<1>t. TypeOK /\ TypeOK'
  BY DEF Structure
<1>e. Exclusive /\ Exclusive'
  BY OneOwner, PTL
<1>h. \A p \in Proc : /\ Holds(p) => Holder = p
                      /\ Holds(p)' => Holder' = p
  BY <1>e DEF Exclusive, Holder
<1>n. (\A p \in Proc : ~Holds(p)') => Holder' = Nobody
  BY DEF Holder
<1>m. (\A p \in Proc : ~Holds(p)) => Holder = Nobody
  BY DEF Holder
<1>1. ASSUME NEW t \in Thread, Look(t), Holds(ProcOf[t]) PROVE Promise!Take(t)
  <2> DEFINE p == ProcOf[t]
  <2>1. p \in Proc /\ locks[p] \in Entry
    BY <1>t DEF TypeOK, Entry
  <2>2. mine' = [mine EXCEPT ![t] = @ + 1] /\ locks'[p] = Deepened(locks[p])
    BY <1>1, <1>t, <2>1 DEF Look, TypeOK
  <2>3. Holds(p)'
    BY <1>1, <2>1, <2>2, Entries DEF Holds
  <2> QED
    BY <1>1, <1>h, <2>1, <2>2, <2>3 DEF Promise!Take
<1>2. ASSUME NEW t \in Thread, Register(t) PROVE Promise!Take(t)
  <2> DEFINE p == ProcOf[t]
  <2>1. p \in Proc /\ \A q \in Proc : ~Holds(q)
    BY <1>2 DEF Register, Structure, Owned
  <2>2. mine' = [mine EXCEPT ![t] = @ + 1] /\ locks'[p] = [fd |-> t, depth |-> 0]
    BY <1>2, <1>t, <2>1 DEF Register, TypeOK
  <2>3. Holds(p)'
    BY <2>2 DEF Holds
  <2> QED
    BY <1>h, <1>m, <2>1, <2>2, <2>3 DEF Promise!Take
<1>3. ASSUME NEW t \in Thread, Release(t) PROVE Promise!Give(t)
  <2> DEFINE p == ProcOf[t]
             Last == \A u \in Thread : ProcOf[u] = p => mine'[u] = 0
  <2>1. p \in Proc /\ mine[t] > 0 /\ mine' = [mine EXCEPT ![t] = @ - 1]
    BY <1>3 DEF Release
  <2>2. Holds(p) /\ Holder = p
    BY <2>1, <1>t, <1>h, OutIsHeld
  <2>3. Holds(p)' <=> ~Last
    <3>1. Last <=> Tokens(p)' = {}
      <4>1. Telling'
        BY <1>t, TokensTell, PTL
      <4> QED
        BY <4>1, <2>1 DEF Telling
    <3>2. Tokens(p)' = {} <=> Cardinality(Tokens(p))' = 0
      BY <2>1, FS_EmptySet DEF Counted
    <3>3. locks'[p].depth + 1 # 0
      BY <2>1, <1>t DEF TypeOK
    <3>4. Cardinality(Tokens(p))' = 0 <=> ~Holds(p)'
      BY <2>1, <3>3 DEF Counted
    <3> QED
      BY <3>1, <3>2, <3>4
  <2>4. Holder' = IF Last THEN Nobody ELSE p
    <3>1. \A q \in Proc : q # p => ~Holds(q) /\ locks'[q] = locks[q]
      BY <1>3, <1>t, <1>e, <2>1, <2>2 DEF Release, TypeOK, Exclusive
    <3>2. \A q \in Proc : q # p => ~Holds(q)'
      BY <3>1 DEF Holds
    <3> QED
      BY <1>h, <1>n, <2>1, <2>3, <3>2
  <2> QED
    BY <2>1, <2>2, <2>4 DEF Promise!Give
<1>4. ASSUME NEW p \in Proc, Crash(p) PROVE Promise!Die(p)
  <2>1. /\ mine' = [t \in Thread |-> IF ProcOf[t] = p THEN 0 ELSE mine[t]]
        /\ \A q \in Proc : locks'[q] = IF q = p THEN NoEntry ELSE locks[q]
    BY <1>4, <1>t DEF Crash, TypeOK
  <2>2. ~Holds(p)' /\ \A q \in Proc : q # p => Holds(q)' = Holds(q)
    BY <2>1 DEF Holds, NoEntry
  <2>3. CASE \E q \in Proc : q # p /\ Holds(q)
    BY <1>h, <2>2, <2>3, <2>1 DEF Promise!Die
  <2>4. CASE \A q \in Proc : q # p => ~Holds(q)
    <3>1. Holder' = Nobody
      BY <1>n, <2>2, <2>4
    <3>2. Holder \in {p, Nobody}
      BY <1>h, <1>m, <2>4
    <3> QED
      BY <2>1, <3>1, <3>2 DEF Promise!Die
  <2> QED
    BY <2>3, <2>4
<1>5. CASE UNCHANGED vars
  BY <1>5, Stutters DEF vars
<1>6. ASSUME NEW t \in Thread, Look(t), ~Holds(ProcOf[t]) PROVE UNCHANGED <<Holder, mine>>
  BY <1>6, Stutters DEF Look
<1>7. ASSUME NEW t \in Thread, Acquire(t) \/ Probe(t) \/ WriteState(t) \/ Create(t) \/ TryLock(t)
                \/ Granted(t) \/ LookAgain(t) \/ TryProbe(t) \/ EndProbe(t) \/ Report(t)
      PROVE  UNCHANGED <<Holder, mine>>
  BY <1>7, Stutters DEF Acquire, Probe, WriteState, Create, TryLock, Granted, LookAgain, TryProbe,
                        EndProbe, Report
<1> QED
  BY <1>1, <1>2, <1>3, <1>4, <1>5, <1>6, <1>7 DEF Next, Progress, Promise!Next

\* The lock keeps its promise: to the commands that take it, it is one process's
\* from the first Lock taken to the last given back, or to the process's death,
\* through nesting, waiting, probes and crashes (lock.go Acquire, Release).
THEOREM PromiseIsKept ==
    ASSUME RunLockAssumption
    PROVE  Spec => KeepsPromise
<1>1. Init => Promise!Init /\ Counted
  <2> SUFFICES ASSUME Init PROVE Promise!Init /\ Counted
    OBVIOUS
  <2>1. \A p \in Proc : ~Holds(p)
    BY DEF Init, Holds, NoEntry
  <2>2. \A p \in Proc : Tokens(p) = {}
    BY DEF Init, Tokens
  <2>3. Counted
    BY <2>1, <2>2, FS_EmptySet DEF Counted
  <2> QED
    BY <2>1, <2>3, HolderIs DEF Promise!Init, Init
<1>2. Structure /\ Counted /\ [Next]_vars => Counted'
  BY CountKept
<1>3. Structure /\ Structure' /\ Counted /\ Counted' /\ [Next]_vars => [Promise!Next]_<<Holder, mine>>
  BY StepsKeepPromise
<1> QED
  BY <1>1, <1>2, <1>3, StructureHolds, PTL DEF Spec, KeepsPromise, Promise!Spec
=============================================================================
