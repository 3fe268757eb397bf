--------------------------- MODULE BatchProofs ---------------------------
(* Proofs about BatchRelease, for every value of its constants. *)
EXTENDS BatchRelease, TLAPS, WellFoundedInduction, FiniteSetTheorems, SequenceTheorems

-----------------------------------------------------------------------------
(* The invariant. *)

Kinds == {"work", "docs", "bump", "final", "filed", "never"}
Stages == {"none", "begun", "pushed", "verified", "finalized", "tagged", "onorigin"}
CommitType == [kind : Kinds, of : Releasables \cup {""}, ver : 0..MaxVersion]
StateType == [ver : 0..MaxVersion, committed : BOOLEAN, stage : Stages, rc : Nat]
RunType == [queue : SUBSET Releasables, pending : SUBSET Releasables,
            released : SUBSET Releasables, pin : Nat, tip : Nat, cand : Nat,
            fresh : BOOLEAN]
Labels == {"idle", "plan", "docs", "commit", "record", "complete", "alone",
           "archive", "clear", "pushfile"}

\* What the plan and the file say of a releasable they name.
PlanType ==
    /\ plan = [blob |-> plan.blob, base |-> plan.base, target |-> plan.target, bump |-> plan.bump]
    /\ plan.blob \in Nat \X Nat /\ DOMAIN plan.bump = Items
    /\ \A r \in Items :
          /\ r \in Releasables /\ plan.base[r] \in 0..MaxVersion /\ plan.target[r] \in Version
          /\ plan.bump[r] \in Nat \ {0} /\ plan.target[r] = plan.base[r] + plan.bump[r]
FileType ==
    /\ file.id \in Nat \X Nat
    /\ \A r \in Named : r \in Releasables /\ file.bump[r] \in Nat \ {0}

TypeOK ==
    /\ hist \in Seq(CommitType) /\ origin \in Nat
    /\ ltag \in [Releasables -> [Version -> Nat]] /\ otag \in [Releasables -> [Version -> Nat]]
    /\ st \in [Releasables -> StateType]
    /\ since \in [Releasables -> 0..MaxVersion] /\ FileType
    /\ pc \in Labels /\ m \in RunType

\* A fresh release of one releasable that has not pushed its candidate.
MayUnwind == pc = "alone" /\ m.fresh /\ m.cand = 0

\* The commits nothing takes back from here.
Floor == IF pc = "commit" THEN m.pin ELSE IF MayUnwind THEN m.tip - 1 ELSE Len(hist)
Standing == Floor..Len(hist)

\* Where the run has the branch, and that what can be taken back is a release commit.
Grounded ==
    /\ origin \in 1..Floor /\ Floor \in 1..Len(hist)
    /\ ~Idle => m.tip \in origin..Len(hist)
    /\ pc = "commit" =>
          /\ m.pin =< m.tip
          /\ \A i \in m.pin + 1..m.tip : hist[i].kind = "bump" /\ hist[i].of \in m.pending
    /\ m.fresh => pc = "alone"
    /\ MayUnwind => /\ hist[m.tip].kind = "bump" /\ m.queue = {hist[m.tip].of}
                    /\ st[hist[m.tip].of].stage = "begun" /\ st[hist[m.tip].of].committed

\* Verdicts, tags and candidates are commits origin has.
Pinned ==
    /\ verdicts \subseteq 1..origin /\ m.cand \in 0..origin
    /\ \A r \in Releasables : st[r].rc \in 0..origin /\ \A v \in Version : ltag[r][v] \in 0..origin

\* The state of a release in progress is of a version at or past the branch's;
\* unless a kill cut its commit, of the version its commit bumped to.
Carried ==
    \A r \in Releasables :
        /\ InProgress(r) => /\ st[r].ver \in Version /\ st[r].stage # "none"
                            /\ VersionOf(r) =< st[r].ver
        /\ InProgress(r) /\ r \notin cut => st[r].committed /\ VersionOf(r) = st[r].ver
        /\ st[r].stage \notin {"none", "begun"} /\ r \notin cut =>
               VersionAt(r, st[r].rc) = st[r].ver
        /\ Verified(st[r]) => st[r].rc \in verdicts

\* A tag that is here only is of a release about to push it.
Unpushed ==
    \A r \in Releasables, v \in Version :
        ltag[r][v] # 0 /\ otag[r][v] = 0 => st[r].ver = v /\ st[r].stage = "tagged"

\* The releases a run holds, by where it is.
Held ==
    /\ pc \in {"commit", "record"} => \A r \in m.pending : st[r].stage \in {"begun", "pushed"}
    /\ pc = "record" =>
          /\ m.queue \subseteq m.pending /\ m.cand # 0
          /\ \A r \in m.pending \ cut : VersionAt(r, m.cand) = st[r].ver
    /\ pc \in {"plan", "docs"} => m.pending = {}
    /\ pc \in {"complete", "alone"} => \A r \in m.queue : InProgress(r)
    /\ pc = "alone" => \E r \in Releasables : m.queue = {r}
    /\ pc = "complete" => m.cand \in verdicts
    /\ pc = "alone" /\ m.cand # 0 => \A r \in m.queue : st[r].rc = m.cand

\* A run follows the plan of the file it runs from, and knows what of it is released.
Follows ==
    /\ pc \in {"docs", "commit", "record", "complete", "archive"} \/ (pc = "plan" /\ Planned) =>
          Matches /\ ThisFile
    /\ pc \in {"plan", "docs", "commit", "record", "complete", "archive"} => file # NoFile
    /\ pc \in {"plan", "docs", "commit"} => m.queue \subseteq Named
    /\ pc = "plan" /\ ~Planned => m.released = {}
    /\ pc \in {"docs", "commit"} \/ (pc = "plan" /\ Planned) =>
          \A r \in Named : /\ ~PastVerdict(st[r])
                           /\ ItemReleased(r) => r \in m.released
    /\ pc = "archive" => Finished

\* What nobody touched is where the plan found it or where the plan takes it.
Kept ==
    \A r \in Items \ touched :
        /\ \A n \in Standing : VersionAt(r, n) \in {plan.base[r], plan.target[r]}
        /\ InProgress(r) => st[r].ver = plan.target[r]
        /\ ~Never(r, plan.target[r])

\* A plan whose file was archived.
LeftOver == Planned /\ plan.blob[1] =< Cardinality(Filed)

\* Versions only grow above what the file found, a plan is of this file or one
\* filed before, and one of this file plans past what the file found, or
\* can never be finished.
Filing ==
    /\ file # NoFile => /\ file.id[1] = 1 + Cardinality(Filed)
                        /\ \A r \in Releasables, n \in Standing : since[r] =< VersionAt(r, n)
    /\ plan.blob[1] =< 1 + Cardinality(Filed)
    /\ file = NoFile => plan.blob[1] =< Cardinality(Filed)
    /\ LeftOver => \A r \in Items :
          /\ ltag[r][plan.target[r]] # 0 /\ otag[r][plan.target[r]] # 0
          /\ \A n \in Standing : plan.target[r] =< VersionAt(r, n)
    /\ Planned /\ ~LeftOver =>
          \/ \A r \in Items : since[r] < plan.target[r]
          \/ \E r \in Items : \A n \in Standing : plan.target[r] < VersionAt(r, n)

Structure == TypeOK /\ Grounded /\ Pinned
Sound == Carried /\ CommittedStays /\ TagHasBumpUnlessCut /\ Unpushed /\ Held
Plans == PlanType /\ Follows /\ Kept /\ Filing

-----------------------------------------------------------------------------
(* Versions: what the last bump below a commit wrote. *)

\* A nonempty set of naturals has a least element, and one with a bound a greatest.
LEMMA Least == ASSUME NEW T \in SUBSET Nat, T # {} PROVE \E x \in T : \A y \in T : x <= y
<1>1. PICK x \in T : \A y \in T : ~(<<y, x>> \in OpToRel(<, Nat))
  BY NatLessThanWellFounded, WFMin
<1>2. \A y, z \in Nat : y < z => <<y, z>> \in OpToRel(<, Nat)
  BY DEF OpToRel
<1>3. ASSUME NEW y \in T PROVE x <= y
  <2>1. y \in Nat /\ x \in Nat
    OBVIOUS
  <2>2. ~(y < x)
    BY <2>1, <1>1, <1>2, Zenon
  <2> QED
    BY <2>1, <2>2
<1> QED
  BY <1>3

LEMMA Greatest == ASSUME NEW n \in Nat, NEW T \in SUBSET (1..n), T # {}
                  PROVE  \E x \in T : \A y \in T : y <= x
<1> DEFINE U == {u \in 0..n : n - u \in T}
<1>1. U \in SUBSET Nat
  OBVIOUS
<1>a. U # {}
  <2>1. PICK x \in T : x \in 1..n
    OBVIOUS
  <2>2. n - x \in 0..n /\ n - (n - x) = x
    BY <2>1
  <2> QED
    BY <2>1, <2>2
<1>2. PICK u \in U : \A w \in U : u <= w
  <2> HIDE DEF U
  <2> QED
    BY <1>1, <1>a, Least
<1>3. ASSUME NEW y \in T PROVE y <= n - u
  <2>1. y \in 1..n /\ n - y \in 0..n /\ n - (n - y) = y
    OBVIOUS
  <2>2. n - y \in U
    BY <2>1
  <2>3. u <= n - y /\ u \in 0..n
    BY <1>2, <2>2
  <2> QED
    BY <2>1, <2>3
<1> QED
  BY <1>3

\* The bumps of r among the first n commits.
BumpsOf(r, n) == {i \in 1..n : hist[i].kind = "bump" /\ hist[i].of = r}
Latest(B) == CHOOSE i \in B : \A j \in B : j =< i

LEMMA VersionOfLatest ==
    ASSUME NEW r, NEW n
    PROVE  VersionAt(r, n) = IF BumpsOf(r, n) = {} THEN 0 ELSE hist[Latest(BumpsOf(r, n))].ver
BY Zenon DEF VersionAt, BumpsOf, Latest

\* The version at a commit is none before the first bump, and what the last
\* one wrote after it.
LEMMA VersionIs ==
    ASSUME NEW r, NEW n \in Nat
    PROVE  \/ BumpsOf(r, n) = {} /\ VersionAt(r, n) = 0
           \/ \E i \in BumpsOf(r, n) : /\ \A j \in BumpsOf(r, n) : j =< i
                                       /\ VersionAt(r, n) = hist[i].ver
<1> DEFINE B == BumpsOf(r, n)
           i == Latest(B)
<1>1. VersionAt(r, n) = IF B = {} THEN 0 ELSE hist[i].ver
  BY VersionOfLatest
<1>2. B \in SUBSET (1..n)
  BY DEF BumpsOf
<1>3. CASE B = {}
  BY <1>1, <1>3
<1>4. CASE B # {}
  <2>1. \E x \in B : \A y \in B : y =< x
    <3> HIDE DEF B
    <3> QED
      BY <1>2, <1>4, Greatest
  <2>2. i \in B /\ \A j \in B : j =< i
    <3> HIDE DEF B
    <3> QED
      BY <2>1 DEF Latest
  <2> QED
    BY <1>1, <1>4, <2>2
<1> QED
  BY <1>3, <1>4

LEMMA VersionType ==
    ASSUME NEW r, NEW n \in 0..Len(hist), hist \in Seq(CommitType)
    PROVE  /\ VersionAt(r, n) \in 0..MaxVersion
           /\ VersionAt(r, n) # 0 =>
                 \E i \in 1..n : hist[i] = [kind |-> "bump", of |-> r, ver |-> VersionAt(r, n)]
<1>1. n \in Nat /\ \A i \in 1..n : i \in DOMAIN hist /\ hist[i] \in CommitType
  OBVIOUS
<1>2. CASE BumpsOf(r, n) = {} /\ VersionAt(r, n) = 0
  BY <1>2, BatchAssumption
<1>3. CASE \E i \in BumpsOf(r, n) : VersionAt(r, n) = hist[i].ver
  <2>1. PICK i \in BumpsOf(r, n) : VersionAt(r, n) = hist[i].ver
    BY <1>3
  <2>2. i \in 1..n /\ hist[i].kind = "bump" /\ hist[i].of = r /\ hist[i] \in CommitType
    BY <1>1, <2>1 DEF BumpsOf
  <2> QED
    BY <2>1, <2>2 DEF CommitType
<1> QED
  BY <1>1, <1>2, <1>3, VersionIs

\* Histories that agree below a commit give it the same versions.
LEMMA VersionStays ==
    ASSUME NEW r, NEW n \in Nat, \A i \in 1..n : hist'[i] = hist[i]
    PROVE  VersionAt(r, n)' = VersionAt(r, n)
<1>1. BumpsOf(r, n)' = BumpsOf(r, n)
  BY DEF BumpsOf
<1> DEFINE B == BumpsOf(r, n)
           b == Latest(B)
<1>2. /\ VersionAt(r, n) = IF B = {} THEN 0 ELSE hist[b].ver
      /\ VersionAt(r, n)' = IF B = {} THEN 0 ELSE hist'[b].ver
  <2>1. VersionAt(r, n)' = IF BumpsOf(r, n)' = {} THEN 0 ELSE hist'[Latest(BumpsOf(r, n)')].ver
    BY Zenon DEF VersionAt, BumpsOf, Latest
  <2> QED
    BY <1>1, <2>1, VersionOfLatest
<1>3. CASE B = {}
  BY <1>2, <1>3
<1>4. CASE B # {}
  <2>1. B \in SUBSET (1..n)
    BY DEF BumpsOf
  <2>2. b \in B
    <3> HIDE DEF B
    <3> QED
      BY <1>4, <2>1, Greatest DEF Latest
  <2> QED
    BY <1>2, <1>4, <2>1, <2>2
<1> QED
  BY <1>3, <1>4

\* What the topmost commit does to versions.
LEMMA VersionTop ==
    ASSUME NEW r, NEW n \in Nat \ {0}
    PROVE  /\ hist[n].kind = "bump" /\ hist[n].of = r => VersionAt(r, n) = hist[n].ver
           /\ ~(hist[n].kind = "bump" /\ hist[n].of = r) => VersionAt(r, n) = VersionAt(r, n - 1)
<1>1. n \in Nat /\ n - 1 \in Nat /\ n \in 1..n
  OBVIOUS
<1>2. ASSUME hist[n].kind = "bump", hist[n].of = r PROVE VersionAt(r, n) = hist[n].ver
  <2>1. n \in BumpsOf(r, n)
    BY <1>1, <1>2 DEF BumpsOf
  <2>2. PICK i \in BumpsOf(r, n) : /\ \A j \in BumpsOf(r, n) : j =< i
                                   /\ VersionAt(r, n) = hist[i].ver
    BY <1>1, <2>1, VersionIs
  <2>3. i \in 1..n /\ n =< i
    BY <2>1, <2>2 DEF BumpsOf
  <2> QED
    BY <2>2, <2>3
<1>3. ASSUME ~(hist[n].kind = "bump" /\ hist[n].of = r)
      PROVE  VersionAt(r, n) = VersionAt(r, n - 1)
  <2>1. BumpsOf(r, n) = BumpsOf(r, n - 1)
    BY <1>3 DEF BumpsOf
  <2> QED
    BY <2>1, VersionOfLatest
<1> QED
  BY <1>2, <1>3

-----------------------------------------------------------------------------
(* Where the branch, the tags and the candidates stand. *)

\* A commit on top of the branch, and its topmost taken back.
Topped(c) ==
    /\ c \in CommitType /\ Len(hist') = Len(hist) + 1
    /\ hist'[Len(hist) + 1] = c /\ \A i \in 1..Len(hist) : hist'[i] = hist[i]
Peeled ==
    /\ Len(hist') = Len(hist) - 1
    /\ \A i \in 1..Len(hist) - 1 : hist'[i] = hist[i]

LEMMA Grown ==
    ASSUME hist \in Seq(CommitType), NEW k \in Kinds, NEW r \in Releasables \cup {""},
           NEW v \in 0..MaxVersion, hist' = Commit(k, r, v)
    PROVE  hist' \in Seq(CommitType) /\ Topped([kind |-> k, of |-> r, ver |-> v])
<1>1. ASSUME NEW c \in CommitType, hist' = Append(hist, c)
      PROVE  hist' \in Seq(CommitType) /\ Topped(c)
  <2>1. /\ Append(hist, c) \in Seq(CommitType) /\ Len(Append(hist, c)) = Len(hist) + 1
        /\ \A i \in 1..Len(hist) : Append(hist, c)[i] = hist[i]
        /\ Append(hist, c)[Len(hist) + 1] = c
    BY <1>1, AppendProperties, Zenon
  <2> QED
    BY <1>1, <2>1, Zenon DEF Topped
<1>2. [kind |-> k, of |-> r, ver |-> v] \in CommitType
  BY DEF CommitType
<1> QED
  BY <1>1, <1>2 DEF Commit

\* What is left of a sequence without its last element.
LEMMA Fronts ==
    ASSUME NEW S, NEW s \in Seq(S), NEW n \in Nat, Len(s) = n + 1
    PROVE  /\ SubSeq(s, 1, n) \in Seq(S) /\ Len(SubSeq(s, 1, n)) = n
           /\ \A i \in 1..n : SubSeq(s, 1, n)[i] = s[i]
OBVIOUS

LEMMA Shrunk ==
    ASSUME hist \in Seq(CommitType), Len(hist) \in Nat \ {0}, hist' = TakenBack
    PROVE  hist' \in Seq(CommitType) /\ Peeled
<1>1. Len(hist) - 1 \in Nat /\ Len(hist) = (Len(hist) - 1) + 1
  OBVIOUS
<1> QED
  BY <1>1, Fronts DEF Peeled, TakenBack

\* A releasable's state is replaced, and the others stay.
Restated(r, s) ==
    /\ s \in StateType /\ st' \in [Releasables -> StateType]
    /\ st'[r] = s /\ \A q \in Releasables \ {r} : st'[q] = st[q]

LEMMA Restates ==
    ASSUME st \in [Releasables -> StateType], NEW r \in Releasables, NEW s \in StateType,
           st' = [st EXCEPT ![r] = s]
    PROVE  Restated(r, s)
BY DEF Restated

\* Where no commit can be taken back, little is to be said of the branch.
LEMMA GroundedPlain ==
    ASSUME TypeOK', (pc # "commit")', ~MayUnwind', (origin \in 1..Len(hist))',
           (~Idle => m.tip \in origin..Len(hist))', (m.fresh => pc = "alone")'
    PROVE  Grounded'
<1>1. Floor' = Len(hist') /\ Len(hist') \in Nat /\ origin' \in Nat
  BY DEF Floor, TypeOK
<1> QED
  BY <1>1 DEF Grounded

\* Candidates and tags stay where origin has them as long as origin keeps what it has.
LEMMA PinnedStays ==
    ASSUME Pinned, origin \in Nat, origin' \in Nat, origin =< origin', m'.cand \in 0..origin',
           verdicts' \subseteq verdicts \cup 1..origin',
           \A r \in Releasables : st'[r].rc \in {0, st[r].rc} \cup 0..origin',
           \A r \in Releasables, v \in Version : ltag'[r][v] \in {ltag[r][v]} \cup 0..origin'
    PROVE  Pinned'
<1>1. verdicts' \subseteq 1..origin'
  BY DEF Pinned
<1>2. \A r \in Releasables : st'[r].rc \in 0..origin'
  BY DEF Pinned
<1>3. \A r \in Releasables, v \in Version : ltag'[r][v] \in 0..origin'
  BY DEF Pinned
<1> QED
  BY <1>1, <1>2, <1>3 DEF Pinned

\* The filed batches are finitely many.
LEMMA FiledFinite ==
    ASSUME Len(hist) \in Nat, hist \in Seq(CommitType)
    PROVE  IsFiniteSet(Filed) /\ Cardinality(Filed) \in Nat
<1>1. Filed \subseteq 1..Len(hist)
  BY DEF Filed
<1>2. IsFiniteSet(1..Len(hist))
  BY FS_Interval
<1> QED
  BY <1>1, <1>2, FS_Subset, FS_CardinalityType

\* Each step leaves what is pushed where it cannot be taken back.
LEMMA StructureKept ==
    ASSUME Structure, Held, PlanType, Next
    PROVE  Structure'
<1>u. /\ NoRun \in RunType /\ NoState \in StateType /\ 0 \in 0..MaxVersion
      /\ Len(hist) \in Nat \ {0} /\ origin \in Nat /\ m \in RunType /\ hist \in Seq(CommitType)
      /\ st \in [Releasables -> StateType] /\ \A r \in Releasables : st[r] \in StateType
      /\ pc \in Labels
  BY BatchAssumption DEF NoRun, RunType, NoState, StateType, Stages, Structure, TypeOK, Grounded
<1>w. /\ \A v \in Version : v \in 0..MaxVersion
      /\ \A r \in Releasables : Validates(r) => Next1(r) \in Version
      /\ m.tip \in Nat /\ m.cand \in Nat /\ m.pin \in Nat /\ m.fresh \in BOOLEAN
  BY <1>u DEF Version, Validates, RunType
<1>l. ASSUME Len(hist') \in Nat, NEW run \in RunType
      PROVE  /\ Left(run) \in RunType /\ Left(run).tip = Len(hist')
             /\ Left(run).queue = run.queue /\ Left(run).pending = run.pending
             /\ Left(run).pin = run.pin /\ Left(run).cand = run.cand /\ Left(run).fresh = run.fresh
  BY <1>l DEF Left, RunType
<1>f. /\ NoFile.id \in Nat \X Nat /\ DOMAIN NoFile.bump = {} /\ FileType /\ Held
      /\ Released \subseteq Releasables /\ Named \subseteq Releasables
      /\ Cardinality(Filed) \in Nat /\ \A r \in Releasables : VersionOf(r) \in 0..MaxVersion
  <2>1. FileType /\ Held
    BY DEF Structure, TypeOK
  <2>2. NoFile.id \in Nat \X Nat /\ DOMAIN NoFile.bump = {}
    BY DEF NoFile
  <2>3. Released \subseteq Releasables /\ Named \subseteq Releasables
    BY <2>1 DEF FileType, PlanType, Released
  <2>4. Cardinality(Filed) \in Nat
    BY <1>u, FiledFinite
  <2>5. ASSUME NEW r \in Releasables PROVE VersionOf(r) \in 0..MaxVersion
    <3>1. Len(hist) \in 0..Len(hist)
      BY <1>u
    <3> QED
      BY <1>u, <3>1, VersionType DEF VersionOf
  <2> QED
    BY <2>1, <2>2, <2>3, <2>4, <2>5
<1>n. Len(hist) \in Nat
  BY <1>u
<1>g. Grounded /\ Pinned /\ TypeOK
  BY DEF Structure
<1>1. ASSUME FinishPlan PROVE Structure'
  <2>m. m' \in RunType
    BY <1>1, <1>u DEF FinishPlan, Go, NoRun, NoFile, NoPlan, Idle, InProgress, Planned,
       RunType
  <2>1. TypeOK'
    BY <1>1, <1>u, <1>g, <2>m DEF FinishPlan, Go, NoRun, NoFile, NoPlan, Idle, InProgress,
       Planned, repoVars, tagVars, TypeOK, Labels, FileType, Named
  <2>v. m' \in RunType /\ Len(hist') \in Nat
    BY <2>1 DEF TypeOK
  <2>2. Grounded'
    BY <1>1, <1>u, <2>v, <1>g DEF FinishPlan, Go, NoRun, NoFile, NoPlan, Idle, InProgress,
       Planned, repoVars, tagVars, Grounded, Floor, MayUnwind, Idle, RunType
  <2>3. Pinned'
    BY <1>1, <1>u, <2>v, <1>g, <2>2 DEF FinishPlan, Go, NoRun, NoFile, NoPlan, Idle,
       InProgress, Planned, repoVars, tagVars, Grounded, Floor, MayUnwind, Idle, RunType,
       StateType, Pinned
  <2> QED
    BY <2>1, <2>2, <2>3 DEF Structure
<1>2. ASSUME BeginRun PROVE Structure'
  <2>m. m' \in RunType
    BY <1>2, <1>u, <1>f DEF BeginRun, NoRun, RunType
  <2>1. TypeOK'
    BY <1>2, <1>u, <1>g, <2>m DEF BeginRun, Go, NoRun, NoFile, Idle, Planned, repoVars,
       tagVars, TypeOK, Labels, FileType, Named
  <2>v. m' \in RunType /\ Len(hist') \in Nat
    BY <2>1 DEF TypeOK
  <2>2. Grounded'
    <3>1. /\ hist' = hist /\ origin' = origin /\ pc = "idle"
          /\ \/ m' = m /\ pc' = pc
             \/ pc' = "plan" /\ m'.tip = Len(hist) /\ m'.cand = 0 /\ ~m'.fresh
      BY <1>2 DEF BeginRun, Idle, NoRun, Go, repoVars
    <3>2. origin \in 1..Len(hist) /\ (m.fresh => pc = "alone")
      BY <1>u, <1>w, <3>1 , <1>g DEF Grounded, Floor, MayUnwind, Idle
    <3>3. /\ pc' # "commit" /\ ~MayUnwind' /\ (origin \in 1..Len(hist))'
          /\ (~Idle => m.tip \in origin..Len(hist))' /\ (m.fresh => pc = "alone")'
      BY <1>u, <3>1, <3>2 DEF MayUnwind, Idle
    <3> QED
      BY <2>1, <3>3, GroundedPlain
  <2>o. /\ origin' \in Nat /\ origin =< origin' /\ m'.cand \in 0..origin'
        /\ verdicts' \subseteq verdicts \cup 1..origin'
    <3>1. origin' = origin /\ verdicts' = verdicts /\ (m'.cand = m.cand \/ m'.cand = 0)
      BY <1>2 DEF BeginRun, NoRun, repoVars
    <3> QED
      BY <1>u, <1>g, <3>1 DEF Pinned
  <2>q. \A q \in Releasables : st'[q].rc \in {0, st[q].rc} \cup 0..origin'
    BY <1>2, <1>u, <1>g, <2>o DEF BeginRun, NoRun, NoFile, Idle, Planned, repoVars, tagVars,
       StateType, Restated, NoState, Pinned
  <2>t. \A q \in Releasables, v \in Version : ltag'[q][v] \in {ltag[q][v]} \cup 0..origin'
    BY <1>2 DEF BeginRun, tagVars
  <2>3. Pinned'
    BY <1>u, <1>g, <2>o, <2>q, <2>t, PinnedStays
  <2> QED
    BY <2>1, <2>2, <2>3 DEF Structure
<1>3. ASSUME ValidateAndPlan PROVE Structure'
  <2>1. TypeOK'
    BY <1>3, <1>u, <1>g DEF ValidateAndPlan, Go, End, Next1, Planned, NoRun, repoVars,
       tagVars, TypeOK, Labels, FileType, Named
  <2>v. m' \in RunType /\ Len(hist') \in Nat
    BY <2>1 DEF TypeOK
  <2>2. Grounded'
    BY <1>3, <1>u, <2>v, <1>g DEF ValidateAndPlan, Go, End, Next1, Planned, NoRun, repoVars,
       tagVars, Grounded, Floor, MayUnwind, Idle, RunType
  <2>3. Pinned'
    BY <1>3, <1>u, <2>v, <1>g, <2>2 DEF ValidateAndPlan, Go, End, Next1, Planned, NoRun,
       repoVars, tagVars, Grounded, Floor, MayUnwind, Idle, RunType, StateType, Pinned
  <2> QED
    BY <2>1, <2>2, <2>3 DEF Structure
<1>4. ASSUME RootSelfdoc PROVE Structure'
  <2>h. \/ hist' = hist
        \/ hist' \in Seq(CommitType) /\ Topped([kind |-> "docs", of |-> "", ver |-> 0])
    BY <1>4, <1>u, Grown DEF RootSelfdoc, Unmoved, Room, Kinds, StateType
  <2>n. Len(hist') \in Nat /\ Len(hist') >= Len(hist)
    <3>1. CASE hist' = hist
      BY <1>n, <3>1
    <3>2. CASE Len(hist') = Len(hist) + 1
      BY <1>n, <3>2
    <3> QED
      BY <2>h, <3>1, <3>2 DEF Topped
  <2>k. Left(m) \in RunType
    BY <1>u, <1>l, <2>n
  <2>j. m' = [Left(m) EXCEPT !.pin = Len(hist')]
    BY <1>4 DEF RootSelfdoc
  <2>m. m' \in RunType
    BY <2>j, <2>k, <2>n DEF RunType
  <2>1. TypeOK'
    BY <1>4, <1>u, <2>h, <1>g, <2>m, <2>n DEF RootSelfdoc, Go, Unmoved, Room, tagVars,
       fileVars, TypeOK, Labels, FileType, Named, Topped
  <2>v. m' \in RunType /\ Len(hist') \in Nat
    BY <2>1 DEF TypeOK
  <2>2. Grounded'
    <3>1. /\ m'.pin = Len(hist') /\ m'.tip = Len(hist') /\ m'.fresh = m.fresh /\ pc = "docs"
          /\ pc' = "commit" /\ origin' = origin /\ Len(hist) \in Nat /\ Len(hist') >= Len(hist)
      BY <1>4, <1>u, <1>l, <2>j, <2>k, <2>n DEF RootSelfdoc, Go, RunType
    <3>2. origin \in 1..Len(hist) /\ ~m.fresh
      BY <1>u, <1>w, <1>g, <3>1 DEF Grounded, Floor, MayUnwind
    <3>3. Floor' = Len(hist') /\ ~MayUnwind' /\ \A i \in m'.pin + 1..m'.tip : FALSE
      BY <2>n, <3>1 DEF Floor, MayUnwind
    <3> QED
      BY <1>u, <2>n, <3>1, <3>2, <3>3 DEF Grounded
  <2>3. Pinned'
    BY <1>4, <1>u, <2>h, <2>v, <1>g, <2>2 DEF RootSelfdoc, Go, Left, Unmoved, Room, tagVars,
       fileVars, Grounded, Floor, MayUnwind, Idle, RunType, StateType, Pinned, Topped
  <2> QED
    BY <2>1, <2>2, <2>3 DEF Structure
<1>5. ASSUME PushCandidate PROVE Structure'
  <2>m. m' \in RunType
    BY <1>5, <1>u DEF PushCandidate, Go, Unmoved, RunType
  <2>1. TypeOK'
    BY <1>5, <1>u, <1>g, <2>m DEF PushCandidate, Go, Unmoved, tagVars, fileVars, TypeOK,
       Labels, FileType, Named
  <2>v. m' \in RunType /\ Len(hist') \in Nat
    BY <2>1 DEF TypeOK
  <2>2. Grounded'
    BY <1>5, <1>u, <2>v, <1>g DEF PushCandidate, Go, Unmoved, tagVars, fileVars, Grounded,
       Floor, MayUnwind, Idle, RunType
  <2>3. Pinned'
    <3>1. /\ origin' = m.tip /\ m'.cand = m.tip /\ verdicts' = verdicts /\ st' = st
          /\ ltag' = ltag /\ ~Idle
      BY <1>5, <1>u DEF PushCandidate, Idle, RunType, tagVars
    <3>2. m.tip \in origin..Len(hist)
      BY <1>g, <3>1 DEF Grounded
    <3> QED
      BY <1>u, <1>w, <1>g, <3>1, <3>2, PinnedStays
  <2> QED
    BY <2>1, <2>2, <2>3 DEF Structure
<1>6. ASSUME Gate PROVE Structure'
  <2>m. m' \in RunType
    BY <1>6, <1>u DEF Gate, Go, RunType
  <2>1. TypeOK'
    BY <1>6, <1>u, <1>g, <2>m DEF Gate, Go, repoVars, tagVars, fileVars, TypeOK, Labels,
       FileType, Named
  <2>v. m' \in RunType /\ Len(hist') \in Nat
    BY <2>1 DEF TypeOK
  <2>2. Grounded'
    BY <1>6, <1>u, <2>v, <1>g DEF Gate, Go, repoVars, tagVars, fileVars, Grounded, Floor,
       MayUnwind, Idle, RunType
  <2>o. /\ origin' \in Nat /\ origin =< origin' /\ m'.cand \in 0..origin'
        /\ verdicts' \subseteq verdicts \cup 1..origin'
    BY <1>6, <1>u, <1>g, <1>w, <2>2 DEF Gate, Go, repoVars, tagVars, fileVars, Grounded,
       Pinned, Floor, MayUnwind, RunType, Held
  <2>q. \A q \in Releasables : st'[q].rc \in {0, st[q].rc} \cup 0..origin'
    BY <1>6, <1>u, <1>g, <2>o DEF Gate, repoVars, tagVars, fileVars, StateType, Restated,
       NoState, Pinned
  <2>t. \A q \in Releasables, v \in Version : ltag'[q][v] \in {ltag[q][v]} \cup 0..origin'
    BY <1>6 DEF Gate, tagVars
  <2>3. Pinned'
    BY <1>u, <1>g, <2>o, <2>q, <2>t, PinnedStays
  <2> QED
    BY <2>1, <2>2, <2>3 DEF Structure
<1>7. ASSUME ArchiveIfComplete PROVE Structure'
  <2>1. TypeOK'
    BY <1>7, <1>u, <1>g DEF ArchiveIfComplete, Go, End, NoRun, repoVars, tagVars, fileVars,
       TypeOK, Labels, FileType, Named
  <2>v. m' \in RunType /\ Len(hist') \in Nat
    BY <2>1 DEF TypeOK
  <2>2. Grounded'
    BY <1>7, <1>u, <2>v, <1>g DEF ArchiveIfComplete, Go, End, NoRun, repoVars, tagVars,
       fileVars, Grounded, Floor, MayUnwind, Idle, RunType
  <2>3. Pinned'
    BY <1>7, <1>u, <2>v, <1>g, <2>2 DEF ArchiveIfComplete, Go, End, NoRun, repoVars,
       tagVars, fileVars, Grounded, Floor, MayUnwind, Idle, RunType, StateType, Pinned
  <2> QED
    BY <2>1, <2>2, <2>3 DEF Structure
<1>8. ASSUME CommitArchive PROVE Structure'
  <2>h. hist' \in Seq(CommitType) /\ Topped([kind |-> "filed", of |-> "", ver |-> 0])
    BY <1>8, <1>u, Grown DEF CommitArchive, NoFile, Unmoved, Room, Kinds, StateType
  <2>n. Len(hist') \in Nat /\ Len(hist') = Len(hist) + 1
    <3>1. Len(hist') = Len(hist) + 1
      BY <2>h, Zenon DEF Topped
    <3> QED
      BY <1>n, <3>1
  <2>j. m' = Left(m)
    BY <1>8 DEF CommitArchive
  <2>m. m' \in RunType
    BY <1>u, <1>l, <2>n, <2>j
  <2>1. TypeOK'
    <3>1. file'.id \in Nat \X Nat /\ DOMAIN file'.bump = {}
      BY <1>8, <1>f DEF CommitArchive
    <3>2. FileType'
      BY <3>1 DEF FileType, Named
    <3> QED
      BY <1>8, <2>h, <2>m, <3>2, <1>u, <1>g DEF CommitArchive, Go, tagVars, TypeOK, Labels
  <2>v. m' \in RunType /\ Len(hist') \in Nat
    BY <2>1 DEF TypeOK
  <2>p. pc' # "commit" /\ ~MayUnwind' /\ origin' \in 1..Len(hist')
        /\ (~Idle => m.tip \in origin..Len(hist))' /\ (m.fresh => pc = "alone")'
    <3>1. m'.tip = Len(hist') /\ m'.fresh = m.fresh /\ m'.cand = m.cand /\ origin' = origin
      BY <1>8, <1>u, <1>l, <2>j, <2>n DEF CommitArchive
    <3>2. origin \in 1..Len(hist) /\ ~m.fresh /\ pc' = "clear"
      BY <1>8, <1>u, <1>w, <1>g DEF CommitArchive, Go, Grounded, Floor, MayUnwind
    <3> QED
      BY <1>u, <2>n, <3>1, <3>2 DEF MayUnwind, Idle
  <2>2. Grounded'
    BY <2>1, <2>p, GroundedPlain
  <2>3. Pinned'
    BY <1>8, <1>u, <2>h, <2>v, <1>g, <2>2 DEF CommitArchive, Go, NoFile, Left, Unmoved,
       Room, tagVars, Grounded, Floor, MayUnwind, Idle, RunType, StateType, Pinned, Topped
  <2> QED
    BY <2>1, <2>2, <2>3 DEF Structure
<1>9. ASSUME ClearPlan PROVE Structure'
  <2>1. TypeOK'
    BY <1>9, <1>u, <1>g DEF ClearPlan, Go, NoPlan, repoVars, tagVars, TypeOK, Labels,
       FileType, Named
  <2>v. m' \in RunType /\ Len(hist') \in Nat
    BY <2>1 DEF TypeOK
  <2>2. Grounded'
    BY <1>9, <1>u, <2>v, <1>g DEF ClearPlan, Go, NoPlan, repoVars, tagVars, Grounded, Floor,
       MayUnwind, Idle, RunType
  <2>3. Pinned'
    BY <1>9, <1>u, <2>v, <1>g, <2>2 DEF ClearPlan, Go, NoPlan, repoVars, tagVars, Grounded,
       Floor, MayUnwind, Idle, RunType, StateType, Pinned
  <2> QED
    BY <2>1, <2>2, <2>3 DEF Structure
<1>10. ASSUME PushArchive PROVE Structure'
  <2>1. TypeOK'
    BY <1>10, <1>u, <1>w, <1>g DEF PushArchive, End, tagVars, fileVars, TypeOK, Labels, FileType, Named
  <2>v. m' \in RunType /\ Len(hist') \in Nat
    BY <2>1 DEF TypeOK
  <2>2. Grounded'
    BY <1>10, <1>u, <2>v, <1>g DEF PushArchive, End, NoRun, tagVars, fileVars, Grounded,
       Floor, MayUnwind, Idle, RunType
  <2>3. Pinned'
    BY <1>10, <1>u, <2>v, <1>g, <2>2 DEF PushArchive, End, NoRun, tagVars, fileVars,
       Grounded, Floor, MayUnwind, Idle, RunType, StateType, Pinned
  <2> QED
    BY <2>1, <2>2, <2>3 DEF Structure
<1>11. ASSUME Refused PROVE Structure'
  <2>1. TypeOK'
    BY <1>11, <1>u, <1>g DEF Refused, End, Unmoved, Idle, NoRun, repoVars, tagVars,
       fileVars, TypeOK, Labels, FileType, Named
  <2>v. m' \in RunType /\ Len(hist') \in Nat
    BY <2>1 DEF TypeOK
  <2>2. Grounded'
    BY <1>11, <1>u, <2>v, <1>g DEF Refused, End, Unmoved, Idle, NoRun, repoVars, tagVars,
       fileVars, Grounded, Floor, MayUnwind, Idle, RunType
  <2>3. Pinned'
    BY <1>11, <1>u, <2>v, <1>g, <2>2 DEF Refused, End, Unmoved, Idle, NoRun, repoVars,
       tagVars, fileVars, Grounded, Floor, MayUnwind, Idle, RunType, StateType, Pinned
  <2> QED
    BY <2>1, <2>2, <2>3 DEF Structure
<1>12. ASSUME NEW r \in Releasables, Skip(r) PROVE Structure'
  <2>m. m' \in RunType
    BY <1>12, <1>u DEF Skip, Committing, Advanced, First, RunType
  <2>1. TypeOK'
    BY <1>12, <1>u, <1>g, <2>m DEF Skip, Committing, First, repoVars, tagVars, fileVars,
       TypeOK, Labels, FileType, Named
  <2>v. m' \in RunType /\ Len(hist') \in Nat
    BY <2>1 DEF TypeOK
  <2>2. Grounded'
    BY <1>12, <1>u, <2>v, <1>g DEF Skip, Committing, Advanced, First, repoVars, tagVars,
       fileVars, Grounded, Floor, MayUnwind, Idle, RunType
  <2>3. Pinned'
    BY <1>12, <1>u, <2>v, <1>g, <2>2 DEF Skip, Committing, Advanced, First, repoVars,
       tagVars, fileVars, Grounded, Floor, MayUnwind, Idle, RunType, StateType, Pinned
  <2> QED
    BY <2>1, <2>2, <2>3 DEF Structure
<1>13. ASSUME NEW r \in Releasables, Join(r) PROVE Structure'
  <2>m. m' \in RunType
    BY <1>13, <1>u DEF Join, Committing, Joined, InProgress, First, RunType
  <2>1. TypeOK'
    BY <1>13, <1>u, <1>g, <2>m DEF Join, Committing, InProgress, First, repoVars, tagVars,
       fileVars, TypeOK, Labels, FileType, Named
  <2>v. m' \in RunType /\ Len(hist') \in Nat
    BY <2>1 DEF TypeOK
  <2>2. Grounded'
    BY <1>13, <1>u, <2>v, <1>g DEF Join, Committing, Joined, InProgress, First, repoVars,
       tagVars, fileVars, Grounded, Floor, MayUnwind, Idle, RunType
  <2>3. Pinned'
    BY <1>13, <1>u, <2>v, <1>g, <2>2 DEF Join, Committing, Joined, InProgress, First,
       repoVars, tagVars, fileVars, Grounded, Floor, MayUnwind, Idle, RunType, StateType,
       Pinned
  <2> QED
    BY <2>1, <2>2, <2>3 DEF Structure
<1>14. ASSUME NEW r \in Releasables, CommitMember(r) PROVE Structure'
  <2>h. hist' \in Seq(CommitType) /\ Topped([kind |-> "bump", of |-> r, ver |-> Next1(r)])
    BY <1>14, <1>u, <1>w, Grown DEF CommitMember, Kinds
  <2>r. [NoState EXCEPT !.ver = Next1(r), !.committed = TRUE, !.stage = "begun"] \in StateType
    BY <1>14, <1>u, <1>w DEF CommitMember, NoState, StateType, Stages
  <2>s. Restated(r, [NoState EXCEPT !.ver = Next1(r), !.committed = TRUE, !.stage = "begun"])
    BY <1>14, <1>u, <2>r, Restates DEF CommitMember
  <2>n. Len(hist') \in Nat /\ Len(hist') = Len(hist) + 1
    BY <1>u, <2>h DEF Topped
  <2>k. Joined(r) \in RunType
    BY <1>u, <2>n DEF RunType, Joined
  <2>j. m' = Left(Joined(r))
    BY <1>14 DEF CommitMember
  <2>m. m' \in RunType
    BY <1>u, <1>l, <2>n, <2>j, <2>k
  <2>1. TypeOK'
    BY <1>14, <1>u, <2>h, <1>g, <2>s, <2>m, <2>n DEF CommitMember, Committing, Unmoved,
       Next1, Room, First, tagVars, fileVars, TypeOK, Labels, FileType, Named, Restated,
       Topped
  <2>v. m' \in RunType /\ Len(hist') \in Nat
    BY <2>1 DEF TypeOK
  <2>2. Grounded'
    <3>1. /\ m'.tip = Len(hist') /\ m'.fresh = m.fresh /\ m'.cand = m.cand /\ m'.pin = m.pin
          /\ m'.pending = m.pending \cup {r}
      <4>1. /\ Joined(r).fresh = m.fresh /\ Joined(r).cand = m.cand /\ Joined(r).pin = m.pin
            /\ Joined(r).pending = m.pending \cup {r}
        BY <1>u DEF Joined, RunType
      <4> QED
        BY <4>1, <1>l, <2>j, <2>k, <2>n
    <3>2. origin' = origin /\ pc = "commit" /\ pc' = pc /\ Len(hist) = m.tip
      BY <1>14 DEF CommitMember, Committing, Unmoved
    <3>3. /\ origin \in 1..m.pin /\ m.pin \in 1..Len(hist) /\ ~m.fresh
          /\ \A i \in m.pin + 1..m.tip : hist[i].kind = "bump" /\ hist[i].of \in m.pending
      BY <1>g, <3>2 DEF Grounded, Floor
    <3>4. /\ \A i \in 1..Len(hist) : hist'[i] = hist[i]
          /\ hist'[Len(hist) + 1].kind = "bump" /\ hist'[Len(hist) + 1].of = r
      BY <2>h DEF Topped
    <3>5. ASSUME NEW i \in m.pin + 1..Len(hist) + 1
          PROVE  hist'[i].kind = "bump" /\ hist'[i].of \in m.pending \cup {r}
      <4>1. CASE i = Len(hist) + 1
        BY <3>4, <4>1
      <4>2. CASE i # Len(hist) + 1
        <5>1. i \in m.pin + 1..m.tip /\ i \in 1..Len(hist)
          BY <1>u, <1>w, <3>2, <4>2
        <5> QED
          BY <3>3, <3>4, <5>1
      <4> QED
        BY <4>1, <4>2
    <3>6. Floor' = m.pin /\ ~MayUnwind'
      BY <3>1, <3>2 DEF Floor, MayUnwind
    <3> QED
      BY <1>u, <1>w, <2>n, <3>1, <3>2, <3>3, <3>5, <3>6 DEF Grounded
  <2>3. Pinned'
    BY <1>14, <1>u, <2>h, <2>v, <1>g, <2>2, <2>s DEF CommitMember, NoState, Committing,
       Joined, Left, Unmoved, Next1, Room, First, tagVars, fileVars, Grounded, Floor,
       MayUnwind, Idle, RunType, StateType, Pinned, Topped, Restated
  <2> QED
    BY <2>1, <2>2, <2>3 DEF Structure
<1>15. ASSUME NEW r \in Releasables, RecordPushed(r) PROVE Structure'
  <2>r. [st[r] EXCEPT !.rc = m.cand, !.stage = "pushed"] \in StateType
    BY <1>15, <1>u DEF RecordPushed, First, StateType, Stages, RunType
  <2>s. Restated(r, [st[r] EXCEPT !.rc = m.cand, !.stage = "pushed"])
    BY <1>15, <1>u, <2>r, Restates DEF RecordPushed
  <2>m. m' \in RunType
    BY <1>15, <1>u DEF RecordPushed, Advanced, First, RunType
  <2>1. TypeOK'
    BY <1>15, <1>u, <1>g, <2>s, <2>m DEF RecordPushed, First, repoVars, tagVars, fileVars,
       TypeOK, Labels, FileType, Named, Restated
  <2>v. m' \in RunType /\ Len(hist') \in Nat
    BY <2>1 DEF TypeOK
  <2>2. Grounded'
    BY <1>15, <1>u, <2>v, <1>g, <2>s DEF RecordPushed, Advanced, First, repoVars, tagVars,
       fileVars, Grounded, Floor, MayUnwind, Idle, RunType, Restated
  <2>3. Pinned'
    BY <1>15, <1>u, <2>v, <1>g, <2>2, <2>s DEF RecordPushed, Advanced, First, repoVars,
       tagVars, fileVars, Grounded, Floor, MayUnwind, Idle, RunType, StateType, Pinned,
       Restated
  <2> QED
    BY <2>1, <2>2, <2>3 DEF Structure
<1>16. ASSUME NEW r \in Releasables, AdoptCandidate(r) PROVE Structure'
  <2>r. [st[r] EXCEPT !.stage = "verified"] \in StateType
    BY <1>16, <1>u DEF AdoptCandidate, Completing, First, StateType, Stages, RunType
  <2>s. Restated(r, [st[r] EXCEPT !.stage = "verified"])
    BY <1>16, <1>u, <2>r, Restates DEF AdoptCandidate
  <2>m. m' \in RunType
    BY <1>16, <1>u DEF AdoptCandidate, Completing, First, RunType
  <2>1. TypeOK'
    BY <1>16, <1>u, <1>g, <2>s, <2>m DEF AdoptCandidate, Completing, First, repoVars,
       tagVars, fileVars, TypeOK, Labels, FileType, Named, Restated
  <2>v. m' \in RunType /\ Len(hist') \in Nat
    BY <2>1 DEF TypeOK
  <2>2. Grounded'
    BY <1>16, <1>u, <2>v, <1>g, <2>s DEF AdoptCandidate, Completing, First, repoVars,
       tagVars, fileVars, Grounded, Floor, MayUnwind, Idle, RunType, Restated
  <2>3. Pinned'
    BY <1>16, <1>u, <2>v, <1>g, <2>2, <2>s DEF AdoptCandidate, Completing, First, repoVars,
       tagVars, fileVars, Grounded, Floor, MayUnwind, Idle, RunType, StateType, Pinned,
       Restated
  <2> QED
    BY <2>1, <2>2, <2>3 DEF Structure
<1>17. ASSUME NEW r \in Releasables, CommitOwed(r) PROVE Structure'
  <2>h. \/ hist' = hist
        \/ hist' \in Seq(CommitType) /\ Topped([kind |-> "bump", of |-> r, ver |-> st[r].ver])
    BY <1>17, <1>u, Grown DEF CommitOwed, Working, Unmoved, Room, Completing, Alone, First,
       Kinds, StateType
  <2>r. [st[r] EXCEPT !.committed = TRUE] \in StateType
    BY <1>17, <1>u DEF CommitOwed, Working, Unmoved, Room, Completing, Alone, First,
       StateType, Stages, RunType
  <2>s. Restated(r, [st[r] EXCEPT !.committed = TRUE])
    BY <1>17, <1>u, <2>r, Restates DEF CommitOwed
  <2>n. Len(hist') \in Nat
    BY <1>u, <2>h DEF Topped
  <2>j. (m' = m \/ m' = Left(m))
    BY <1>17 DEF CommitOwed
  <2>m. m' \in RunType
    BY <1>u, <1>l, <2>n, <2>j
  <2>1. TypeOK'
    BY <1>17, <1>u, <2>h, <1>g, <2>s, <2>m, <2>n DEF CommitOwed, Working, Unmoved, Room,
       Completing, Alone, First, tagVars, fileVars, TypeOK, Labels, FileType, Named,
       Restated, Topped
  <2>v. m' \in RunType /\ Len(hist') \in Nat
    BY <2>1 DEF TypeOK
  <2>p. pc' # "commit" /\ ~MayUnwind' /\ origin' \in 1..Len(hist')
        /\ (~Idle => m.tip \in origin..Len(hist))' /\ (m.fresh => pc = "alone")'
    BY <1>17, <1>u, <2>h, <2>v, <1>g, <2>s DEF CommitOwed, Working, Left, Unmoved, Room,
       Completing, Alone, First, tagVars, fileVars, Grounded, Floor, MayUnwind, Idle,
       RunType, Topped
  <2>2. Grounded'
    BY <2>1, <2>p, GroundedPlain
  <2>o. /\ origin' \in Nat /\ origin =< origin' /\ m'.cand \in 0..origin'
        /\ verdicts' \subseteq verdicts \cup 1..origin'
    BY <1>17, <1>u, <2>h, <1>g, <1>w, <2>2 DEF CommitOwed, Working, Left, Unmoved, Room,
       Completing, Alone, First, tagVars, fileVars, Grounded, Pinned, Floor, MayUnwind,
       RunType, Held, Topped
  <2>q. \A q \in Releasables : st'[q].rc \in {0, st[q].rc} \cup 0..origin'
    BY <1>17, <1>u, <1>g, <2>o, <2>s DEF CommitOwed, Working, Room, Completing, Alone,
       First, tagVars, fileVars, StateType, Restated, NoState, Pinned
  <2>t. \A q \in Releasables, v \in Version : ltag'[q][v] \in {ltag[q][v]} \cup 0..origin'
    BY <1>17 DEF CommitOwed, tagVars
  <2>3. Pinned'
    BY <1>u, <1>g, <2>o, <2>q, <2>t, PinnedStays
  <2> QED
    BY <2>1, <2>2, <2>3 DEF Structure
<1>18. ASSUME NEW r \in Releasables, PushAlone(r) PROVE Structure'
  <2>r. [st[r] EXCEPT !.rc = m.tip, !.stage = "pushed"] \in StateType
    BY <1>18, <1>u DEF PushAlone, Alone, Unmoved, StateType, Stages, RunType
  <2>s. Restated(r, [st[r] EXCEPT !.rc = m.tip, !.stage = "pushed"])
    BY <1>18, <1>u, <2>r, Restates DEF PushAlone
  <2>m. m' \in RunType
    BY <1>18, <1>u DEF PushAlone, Alone, Unmoved, RunType
  <2>1. TypeOK'
    BY <1>18, <1>u, <1>g, <2>s, <2>m DEF PushAlone, Alone, Unmoved, tagVars, fileVars,
       TypeOK, Labels, FileType, Named, Restated
  <2>v. m' \in RunType /\ Len(hist') \in Nat
    BY <2>1 DEF TypeOK
  <2>p. pc' # "commit" /\ ~MayUnwind' /\ origin' \in 1..Len(hist')
        /\ (~Idle => m.tip \in origin..Len(hist))' /\ (m.fresh => pc = "alone")'
    BY <1>18, <1>u, <2>v, <1>g, <2>s DEF PushAlone, Alone, Unmoved, tagVars, fileVars,
       Grounded, Floor, MayUnwind, Idle, RunType
  <2>2. Grounded'
    BY <2>1, <2>p, GroundedPlain
  <2>o. /\ origin' \in Nat /\ origin =< origin' /\ m'.cand \in 0..origin'
        /\ verdicts' \subseteq verdicts \cup 1..origin'
    BY <1>18, <1>u, <1>g, <1>w, <2>2 DEF PushAlone, Alone, Unmoved, tagVars, fileVars,
       Grounded, Pinned, Floor, MayUnwind, RunType, Held
  <2>q. \A q \in Releasables : st'[q].rc \in {0, st[q].rc} \cup 0..origin'
    BY <1>18, <1>u, <1>g, <2>o, <2>s DEF PushAlone, Alone, tagVars, fileVars, StateType,
       Restated, NoState, Pinned
  <2>t. \A q \in Releasables, v \in Version : ltag'[q][v] \in {ltag[q][v]} \cup 0..origin'
    BY <1>18 DEF PushAlone, tagVars
  <2>3. Pinned'
    BY <1>u, <1>g, <2>o, <2>q, <2>t, PinnedStays
  <2> QED
    BY <2>1, <2>2, <2>3 DEF Structure
<1>19. ASSUME NEW r \in Releasables, VerifyAlone(r) PROVE Structure'
  <2>r. [st[r] EXCEPT !.stage = "verified"] \in StateType
    BY <1>19, <1>u DEF VerifyAlone, Alone, StateType, Stages, RunType
  <2>s. Restated(r, [st[r] EXCEPT !.stage = "verified"])
    BY <1>19, <1>u, <2>r, Restates DEF VerifyAlone
  <2>1. TypeOK'
    BY <1>19, <1>u, <1>g, <2>s DEF VerifyAlone, Alone, repoVars, tagVars, fileVars, TypeOK,
       Labels, FileType, Named, Restated
  <2>v. m' \in RunType /\ Len(hist') \in Nat
    BY <2>1 DEF TypeOK
  <2>2. Grounded'
    BY <1>19, <1>u, <2>v, <1>g, <2>s DEF VerifyAlone, Alone, repoVars, tagVars, fileVars,
       Grounded, Floor, MayUnwind, Idle, RunType, Restated
  <2>3. Pinned'
    BY <1>19, <1>u, <2>v, <1>g, <2>2, <2>s DEF VerifyAlone, Alone, repoVars, tagVars,
       fileVars, Grounded, Floor, MayUnwind, Idle, RunType, StateType, Pinned, Restated
  <2> QED
    BY <2>1, <2>2, <2>3 DEF Structure
<1>20. ASSUME NEW r \in Releasables, Finalize(r) PROVE Structure'
  <2>h. hist' \in Seq(CommitType) /\ Topped([kind |-> "final", of |-> r, ver |-> st[r].ver])
    BY <1>20, <1>u, Grown DEF Finalize, At, Unmoved, Room, Working, Completing, Alone,
       First, Kinds, StateType
  <2>r. [st[r] EXCEPT !.stage = "finalized"] \in StateType
    BY <1>20, <1>u DEF Finalize, At, Unmoved, Room, Working, Completing, Alone, First,
       StateType, Stages, RunType
  <2>s. Restated(r, [st[r] EXCEPT !.stage = "finalized"])
    BY <1>20, <1>u, <2>r, Restates DEF Finalize
  <2>n. Len(hist') \in Nat /\ Len(hist') = Len(hist) + 1
    BY <1>u, <2>h DEF Topped
  <2>j. m' = Left(m)
    BY <1>20 DEF Finalize
  <2>m. m' \in RunType
    BY <1>u, <1>l, <2>n, <2>j
  <2>1. TypeOK'
    BY <1>20, <1>u, <2>h, <1>g, <2>s, <2>m, <2>n DEF Finalize, At, Unmoved, Room, Working,
       Completing, Alone, First, tagVars, fileVars, TypeOK, Labels, FileType, Named,
       Restated, Topped
  <2>v. m' \in RunType /\ Len(hist') \in Nat
    BY <2>1 DEF TypeOK
  <2>p. pc' # "commit" /\ ~MayUnwind' /\ origin' \in 1..Len(hist')
        /\ (~Idle => m.tip \in origin..Len(hist))' /\ (m.fresh => pc = "alone")'
    <3>1. m'.tip = Len(hist') /\ m'.fresh = m.fresh /\ m'.cand = m.cand /\ origin' = origin
      BY <1>20, <1>u, <1>l, <2>j, <2>n DEF Finalize
    <3>2. pc' = pc /\ pc \in {"complete", "alone"} /\ ~MayUnwind
      BY <1>20, <1>g DEF Finalize, At, Working, Completing, Alone, MayUnwind, Grounded
    <3>3. origin \in 1..Len(hist) /\ (m.fresh => pc = "alone")
      BY <1>u, <1>w, <1>g, <3>2 DEF Grounded, Floor
    <3>4. ~MayUnwind'
      BY <3>1, <3>2 DEF MayUnwind
    <3> QED
      BY <1>u, <2>n, <3>1, <3>2, <3>3, <3>4 DEF Idle
  <2>2. Grounded'
    BY <2>1, <2>p, GroundedPlain
  <2>o. /\ origin' \in Nat /\ origin =< origin' /\ m'.cand \in 0..origin'
        /\ verdicts' \subseteq verdicts \cup 1..origin'
    BY <1>20, <1>u, <2>h, <1>g, <1>w, <2>2 DEF Finalize, At, Left, Unmoved, Room, Working,
       Completing, Alone, First, tagVars, fileVars, Grounded, Pinned, Floor, MayUnwind,
       RunType, Held, Topped
  <2>q. \A q \in Releasables : st'[q].rc \in {0, st[q].rc} \cup 0..origin'
    BY <1>20, <1>u, <1>g, <2>o, <2>s DEF Finalize, At, Room, Working, Completing, Alone,
       First, tagVars, fileVars, StateType, Restated, NoState, Pinned
  <2>t. \A q \in Releasables, v \in Version : ltag'[q][v] \in {ltag[q][v]} \cup 0..origin'
    BY <1>20 DEF Finalize, tagVars
  <2>3. Pinned'
    BY <1>u, <1>g, <2>o, <2>q, <2>t, PinnedStays
  <2> QED
    BY <2>1, <2>2, <2>3 DEF Structure
<1>21. ASSUME NEW r \in Releasables, Tag(r) PROVE Structure'
  <2>r. [st[r] EXCEPT !.stage = "tagged"] \in StateType
    BY <1>21, <1>u DEF Tag, At, Working, Completing, Alone, First, StateType, Stages,
       RunType
  <2>s. Restated(r, [st[r] EXCEPT !.stage = "tagged"])
    BY <1>21, <1>u, <2>r, Restates DEF Tag
  <2>1. TypeOK'
    <3>1. ltag' = [ltag EXCEPT ![r] = [ltag[r] EXCEPT ![st[r].ver] = st[r].rc]]
      BY <1>21 DEF Tag
    <3>2. ltag[r] \in [Version -> Nat] /\ otag[r] \in [Version -> Nat] /\ st[r].rc \in Nat
      BY <1>u, <1>g DEF TypeOK, StateType
    <3>3. [ltag[r] EXCEPT ![st[r].ver] = st[r].rc] \in [Version -> Nat]
      <4>1. CASE st[r].ver \in Version
        BY <3>2, <4>1
      <4>2. CASE st[r].ver \notin Version
        BY <3>2, <4>2
      <4> QED
        BY <4>1, <4>2
    <3>4. ltag' \in [Releasables -> [Version -> Nat]]
      BY <1>g, <3>1, <3>3 DEF TypeOK
    <3> QED
      BY <1>21, <1>u, <1>w, <1>g, <2>s, <3>4 DEF Tag, repoVars, fileVars, TypeOK, Restated, FileType, Named
  <2>v. m' \in RunType /\ Len(hist') \in Nat
    BY <2>1 DEF TypeOK
  <2>2. Grounded'
    BY <1>21, <1>u, <2>v, <1>g, <2>s DEF Tag, At, Working, Completing, Alone, First,
       repoVars, fileVars, Grounded, Floor, MayUnwind, Idle, RunType, Restated
  <2>3. Pinned'
    BY <1>21, <1>u, <2>v, <1>g, <2>2, <2>s DEF Tag, At, Working, Completing, Alone, First,
       repoVars, fileVars, Grounded, Floor, MayUnwind, Idle, RunType, StateType, Pinned,
       Restated
  <2> QED
    BY <2>1, <2>2, <2>3 DEF Structure
<1>22. ASSUME NEW r \in Releasables, PushTag(r) PROVE Structure'
  <2>r. [st[r] EXCEPT !.stage = "onorigin"] \in StateType
    BY <1>22, <1>u DEF PushTag, At, Working, Completing, Alone, First, StateType, Stages,
       RunType
  <2>s. Restated(r, [st[r] EXCEPT !.stage = "onorigin"])
    BY <1>22, <1>u, <2>r, Restates DEF PushTag
  <2>1. TypeOK'
    <3>1. otag' = [otag EXCEPT ![r] = [otag[r] EXCEPT ![st[r].ver] = ltag[r][st[r].ver]]]
      BY <1>22 DEF PushTag
    <3>2. ltag[r] \in [Version -> Nat] /\ otag[r] \in [Version -> Nat] /\ st[r].rc \in Nat
      BY <1>u, <1>g DEF TypeOK, StateType
    <3>3. [otag[r] EXCEPT ![st[r].ver] = ltag[r][st[r].ver]] \in [Version -> Nat]
      <4>1. CASE st[r].ver \in Version
        BY <3>2, <4>1
      <4>2. CASE st[r].ver \notin Version
        BY <3>2, <4>2
      <4> QED
        BY <4>1, <4>2
    <3>4. otag' \in [Releasables -> [Version -> Nat]]
      BY <1>g, <3>1, <3>3 DEF TypeOK
    <3> QED
      BY <1>22, <1>u, <1>w, <1>g, <2>s, <3>4 DEF PushTag, repoVars, fileVars, TypeOK, Restated, FileType, Named
  <2>v. m' \in RunType /\ Len(hist') \in Nat
    BY <2>1 DEF TypeOK
  <2>2. Grounded'
    BY <1>22, <1>u, <2>v, <1>g, <2>s DEF PushTag, At, Working, Completing, Alone, First,
       fileVars, Grounded, Floor, MayUnwind, Idle, RunType, Restated
  <2>o. /\ origin' \in Nat /\ origin =< origin' /\ m'.cand \in 0..origin'
        /\ verdicts' \subseteq verdicts \cup 1..origin'
    <3>1. origin' = m.tip /\ m' = m /\ verdicts' = verdicts /\ ~Idle
      BY <1>22 DEF PushTag, At, Working, Completing, Alone, Idle
    <3>2. m.tip \in origin..Len(hist)
      BY <1>g, <3>1 DEF Grounded
    <3> QED
      BY <1>u, <1>w, <1>g, <3>1, <3>2 DEF Pinned
  <2>q. \A q \in Releasables : st'[q].rc \in {0, st[q].rc} \cup 0..origin'
    BY <1>22, <1>u, <1>g, <2>o, <2>s DEF PushTag, At, Working, Completing, Alone, First,
       fileVars, StateType, Restated, NoState, Pinned
  <2>t. \A q \in Releasables, v \in Version : ltag'[q][v] \in {ltag[q][v]} \cup 0..origin'
    BY <1>22 DEF PushTag, tagVars
  <2>3. Pinned'
    BY <1>u, <1>g, <2>o, <2>q, <2>t, PinnedStays
  <2> QED
    BY <2>1, <2>2, <2>3 DEF Structure
<1>23. ASSUME NEW r \in Releasables, Publish(r) PROVE Structure'
  <2>r. NoState \in StateType
    BY <1>23, <1>u DEF Publish, NoState, Alone, At, Working, Completing, First, StateType,
       Stages, RunType
  <2>s. Restated(r, NoState)
    BY <1>23, <1>u, <2>r, Restates DEF Publish
  <2>m. m' \in RunType
    <3>1. m' = NoRun \/ m' = Advanced(r)
      BY <1>23 DEF Publish, End
    <3>2. Advanced(r) \in RunType
      BY <1>u DEF Advanced, RunType
    <3> QED
      BY <3>1, <3>2, <1>u
  <2>1. TypeOK'
    BY <1>23, <1>u, <1>g, <2>s, <2>m DEF Publish, End, Alone, At, NoRun, Working,
       Completing, First, repoVars, tagVars, fileVars, TypeOK, Labels, FileType, Named,
       Restated
  <2>v. m' \in RunType /\ Len(hist') \in Nat
    BY <2>1 DEF TypeOK
  <2>p. pc' # "commit" /\ ~MayUnwind' /\ origin' \in 1..Len(hist')
        /\ (~Idle => m.tip \in origin..Len(hist))' /\ (m.fresh => pc = "alone")'
    BY <1>23, <1>u, <2>v, <1>g, <2>s DEF Publish, End, NoState, Alone, At, Advanced, NoRun,
       Working, Completing, First, repoVars, tagVars, fileVars, Grounded, Floor, MayUnwind,
       Idle, RunType
  <2>2. Grounded'
    BY <2>1, <2>p, GroundedPlain
  <2>o. /\ origin' \in Nat /\ origin =< origin' /\ m'.cand \in 0..origin'
        /\ verdicts' \subseteq verdicts \cup 1..origin'
    BY <1>23, <1>u, <1>g, <1>w, <2>2 DEF Publish, End, NoState, Alone, At, Advanced, NoRun,
       Working, Completing, First, repoVars, tagVars, fileVars, Grounded, Pinned, Floor,
       MayUnwind, RunType, Held
  <2>q. \A q \in Releasables : st'[q].rc \in {0, st[q].rc} \cup 0..origin'
    BY <1>23, <1>u, <1>g, <2>o, <2>s DEF Publish, NoState, Alone, At, NoRun, Working,
       Completing, First, repoVars, tagVars, fileVars, StateType, Restated, NoState, Pinned
  <2>t. \A q \in Releasables, v \in Version : ltag'[q][v] \in {ltag[q][v]} \cup 0..origin'
    BY <1>23 DEF Publish, tagVars
  <2>3. Pinned'
    BY <1>u, <1>g, <2>o, <2>q, <2>t, PinnedStays
  <2> QED
    BY <2>1, <2>2, <2>3 DEF Structure
<1>24. ASSUME WriteFile PROVE Structure'
  <2>1. TypeOK'
    <3>1. PICK S \in SUBSET Releasables, b \in Bumps :
             file' = [id |-> <<1 + Cardinality(Filed), 0>>, bump |-> [r \in S |-> b]]
      BY <1>24 DEF WriteFile
    <3>2. b \in Nat \ {0} /\ 1 + Cardinality(Filed) \in Nat
      BY <1>f, BatchAssumption
    <3>3. <<1 + Cardinality(Filed), 0>> \in Nat \X Nat
      BY <3>2
    <3>4. file'.id = <<1 + Cardinality(Filed), 0>> /\ file'.bump = [r \in S |-> b]
      BY <3>1
    <3>5. FileType'
      BY <3>2, <3>3, <3>4 DEF FileType, Named
    <3>6. since' \in [Releasables -> 0..MaxVersion]
      BY <1>24, <1>f DEF WriteFile
    <3> QED
      BY <1>24, <1>u, <1>g, <3>5, <3>6 DEF WriteFile, repoVars, tagVars, TypeOK
  <2>v. m' \in RunType /\ Len(hist') \in Nat
    BY <2>1 DEF TypeOK
  <2>2. Grounded'
    BY <1>24, <1>u, <2>v, <1>g DEF WriteFile, NoFile, Idle, repoVars, tagVars, Grounded,
       Floor, MayUnwind, Idle, RunType
  <2>3. Pinned'
    BY <1>24, <1>u, <2>v, <1>g, <2>2 DEF WriteFile, NoFile, Idle, repoVars, tagVars,
       Grounded, Floor, MayUnwind, Idle, RunType, StateType, Pinned
  <2> QED
    BY <2>1, <2>2, <2>3 DEF Structure
<1>25. ASSUME EditFile PROVE Structure'
  <2>1. TypeOK'
    <3>1. PICK b \in Bumps :
             file' = [id |-> [file.id EXCEPT ![2] = @ + 1], bump |-> [r \in Named |-> b]]
      BY <1>25 DEF EditFile
    <3>2. b \in Nat \ {0}
      BY BatchAssumption
    <3>3. PICK x \in Nat, y \in Nat : file.id = <<x, y>>
      BY <1>f DEF FileType
    <3>4. file'.id = <<x, y + 1>> /\ file'.bump = [r \in Named |-> b]
      BY <3>1, <3>3
    <3>5. FileType'
      BY <1>f, <3>2, <3>4 DEF FileType, Named
    <3> QED
      BY <1>25, <1>u, <1>g, <3>5 DEF EditFile, repoVars, tagVars, TypeOK
  <2>v. m' \in RunType /\ Len(hist') \in Nat
    BY <2>1 DEF TypeOK
  <2>2. Grounded'
    BY <1>25, <1>u, <2>v, <1>g DEF EditFile, NoFile, Deed, Idle, repoVars, tagVars,
       Grounded, Floor, MayUnwind, Idle, RunType
  <2>3. Pinned'
    BY <1>25, <1>u, <2>v, <1>g, <2>2 DEF EditFile, NoFile, Deed, Idle, repoVars, tagVars,
       Grounded, Floor, MayUnwind, Idle, RunType, StateType, Pinned
  <2> QED
    BY <2>1, <2>2, <2>3 DEF Structure
<1>26. ASSUME Work PROVE Structure'
  <2>h. hist' \in Seq(CommitType) /\ Topped([kind |-> "work", of |-> "", ver |-> 0])
    BY <1>26, <1>u, Grown DEF Work, Room, Kinds, StateType
  <2>1. TypeOK'
    BY <1>26, <1>u, <2>h, <1>g DEF Work, Room, tagVars, fileVars, TypeOK, Labels, FileType,
       Named, Topped
  <2>v. m' \in RunType /\ Len(hist') \in Nat
    BY <2>1 DEF TypeOK
  <2>2. Grounded'
    <3>1. /\ pc' = pc /\ m' = m /\ st' = st /\ origin' = origin /\ Len(hist') = Len(hist) + 1
          /\ \A i \in 1..Len(hist) : hist'[i] = hist[i]
      BY <1>26, <2>h DEF Work, Topped
    <3>2. Floor' = IF pc = "commit" \/ MayUnwind THEN Floor ELSE Floor + 1
      BY <1>u, <1>w, <3>1 DEF Floor, MayUnwind
    <3>3. origin \in 1..Floor /\ Floor \in 1..Len(hist)
      BY <1>g DEF Grounded
    <3>4. origin' \in 1..Floor' /\ Floor' \in 1..Len(hist')
      BY <1>u, <3>1, <3>2, <3>3
    <3>5. ~Idle => m.tip \in 1..Len(hist)
      BY <1>g, <1>u DEF Grounded
    <3>6. pc = "commit" => \A i \in m.pin + 1..m.tip : hist'[i] = hist[i]
      BY <1>u, <1>w, <3>1, <3>5 DEF Idle
    <3>7. MayUnwind => hist'[m.tip] = hist[m.tip]
      BY <1>u, <1>w, <3>1, <3>5 DEF Idle, MayUnwind
    <3>8. MayUnwind' <=> MayUnwind
      BY <3>1 DEF MayUnwind
    <3>9. ~Idle' => (m.tip \in origin..Len(hist))'
      BY <1>u, <1>w, <1>g, <3>1 DEF Grounded, Idle
    <3>a. pc' = "commit" => \A i \in m'.pin + 1..m'.tip :
             hist'[i].kind = "bump" /\ hist'[i].of \in m'.pending
      BY <1>g, <3>1, <3>6 DEF Grounded
    <3>b. MayUnwind' => /\ hist'[m'.tip].kind = "bump" /\ m'.queue = {hist'[m'.tip].of}
                        /\ st'[hist'[m'.tip].of].stage = "begun"
                        /\ st'[hist'[m'.tip].of].committed
      BY <1>g, <3>1, <3>7, <3>8 DEF Grounded
    <3>c. (pc' = "commit" => m'.pin =< m'.tip) /\ (m'.fresh => pc' = "alone")
      BY <1>g, <3>1 DEF Grounded
    <3> QED
      BY <3>4, <3>9, <3>a, <3>b, <3>c DEF Grounded
  <2>3. Pinned'
    BY <1>26, <1>u, <2>h, <2>v, <1>g, <2>2 DEF Work, Room, tagVars, fileVars, Grounded,
       Floor, MayUnwind, Idle, RunType, StateType, Pinned, Topped
  <2> QED
    BY <2>1, <2>2, <2>3 DEF Structure
<1>27. ASSUME NEW r \in Releasables, ReleaseAlone(r) PROVE Structure'
  <2>h. hist' \in Seq(CommitType) /\ Topped([kind |-> "bump", of |-> r, ver |-> VersionOf(r) + 1])
    BY <1>27, <1>u, <1>w, Grown DEF ReleaseAlone, Kinds
  <2>r. [NoState EXCEPT !.ver = VersionOf(r) + 1, !.committed = TRUE, !.stage = "begun"] \in StateType
    BY <1>27, <1>u, <1>w DEF ReleaseAlone, NoState, StateType, Stages
  <2>s. Restated(r, [NoState EXCEPT !.ver = VersionOf(r) + 1, !.committed = TRUE, !.stage = "begun"])
    BY <1>27, <1>u, <2>r, Restates DEF ReleaseAlone
  <2>n. Len(hist') \in Nat
    BY <1>u, <2>h DEF Topped
  <2>j. m' = [Left(NoRun) EXCEPT !.queue = {r}, !.fresh = TRUE]
    BY <1>27 DEF ReleaseAlone
  <2>m. m' \in RunType
    BY <1>u, <1>l, <2>n, <2>j DEF RunType
  <2>1. TypeOK'
    BY <1>27, <1>u, <2>h, <1>g, <2>s, <2>m, <2>n DEF ReleaseAlone, Go, NoRun, Deed,
       InProgress, Room, Idle, tagVars, fileVars, TypeOK, Labels, FileType, Named, Restated,
       Topped
  <2>v. m' \in RunType /\ Len(hist') \in Nat
    BY <2>1 DEF TypeOK
  <2>2. Grounded'
    BY <1>27, <1>u, <2>h, <2>v, <1>g, <2>s DEF ReleaseAlone, Go, NoRun, Left, Deed,
       InProgress, Room, Idle, tagVars, fileVars, Grounded, Floor, MayUnwind, Idle, RunType,
       Topped, Restated
  <2>3. Pinned'
    BY <1>27, <1>u, <2>h, <2>v, <1>g, <2>2, <2>s DEF ReleaseAlone, Go, NoRun, NoState, Left,
       Deed, InProgress, Room, Idle, tagVars, fileVars, Grounded, Floor, MayUnwind, Idle,
       RunType, StateType, Pinned, Topped, Restated
  <2> QED
    BY <2>1, <2>2, <2>3 DEF Structure
<1>28. ASSUME NEW r \in Releasables, ResumeAlone(r) PROVE Structure'
  <2>m. m' \in RunType
    BY <1>28, <1>u DEF ResumeAlone, NoRun, RunType, StateType
  <2>1. TypeOK'
    BY <1>28, <1>u, <1>g, <2>m DEF ResumeAlone, Go, NoRun, Idle, InProgress, repoVars,
       tagVars, fileVars, TypeOK, Labels, FileType, Named
  <2>v. m' \in RunType /\ Len(hist') \in Nat
    BY <2>1 DEF TypeOK
  <2>2. Grounded'
    BY <1>28, <1>u, <2>v, <1>g DEF ResumeAlone, Go, NoRun, Idle, InProgress, repoVars,
       tagVars, fileVars, Grounded, Floor, MayUnwind, Idle, RunType
  <2>3. Pinned'
    BY <1>28, <1>u, <2>v, <1>g, <2>2 DEF ResumeAlone, Go, NoRun, Idle, InProgress, repoVars,
       tagVars, fileVars, Grounded, Floor, MayUnwind, Idle, RunType, StateType, Pinned
  <2> QED
    BY <2>1, <2>2, <2>3 DEF Structure
<1>29. ASSUME NEW r \in Releasables, Abandon(r) PROVE Structure'
  <2>h. hist' \in Seq(CommitType) /\ Topped([kind |-> "never", of |-> r, ver |-> st[r].ver])
    BY <1>29, <1>u, Grown DEF Abandon, Deed, InProgress, Room, Idle, Kinds, StateType
  <2>r. NoState \in StateType
    BY <1>29, <1>u DEF Abandon, NoState, Deed, InProgress, Room, Idle, StateType, Stages,
       RunType
  <2>s. Restated(r, NoState)
    BY <1>29, <1>u, <2>r, Restates DEF Abandon
  <2>1. TypeOK'
    BY <1>29, <1>u, <2>h, <1>g, <2>s DEF Abandon, Deed, InProgress, Room, Idle, tagVars,
       fileVars, TypeOK, Labels, FileType, Named, Restated, Topped
  <2>v. m' \in RunType /\ Len(hist') \in Nat
    BY <2>1 DEF TypeOK
  <2>2. Grounded'
    BY <1>29, <1>u, <2>h, <2>v, <1>g, <2>s DEF Abandon, Deed, InProgress, Room, Idle,
       tagVars, fileVars, Grounded, Floor, MayUnwind, Idle, RunType, Topped, Restated
  <2>3. Pinned'
    BY <1>29, <1>u, <2>h, <2>v, <1>g, <2>2, <2>s DEF Abandon, NoState, Deed, InProgress,
       Room, Idle, tagVars, fileVars, Grounded, Floor, MayUnwind, Idle, RunType, StateType,
       Pinned, Topped, Restated
  <2> QED
    BY <2>1, <2>2, <2>3 DEF Structure
<1>30. ASSUME Stop PROVE Structure'
  <2>h. hist' = hist \/ (hist' \in Seq(CommitType) /\ Peeled)
    BY <1>30, <1>u, Shrunk DEF Stop, Unmoved, Idle
  <2>1. TypeOK'
    BY <1>30, <1>u, <2>h, <1>g DEF Stop, End, Unmoved, Idle, NoRun, tagVars, fileVars,
       TypeOK, Labels, FileType, Named, Peeled
  <2>v. m' \in RunType /\ Len(hist') \in Nat
    BY <2>1 DEF TypeOK
  <2>2. Grounded'
    BY <1>30, <1>u, <2>h, <2>v, <1>g DEF Stop, End, Unmoved, Idle, NoRun, tagVars, fileVars,
       Grounded, Floor, MayUnwind, Idle, RunType, Peeled
  <2>o. /\ origin' \in Nat /\ origin =< origin' /\ m'.cand \in 0..origin'
        /\ verdicts' \subseteq verdicts \cup 1..origin'
    BY <1>30, <1>u, <2>h, <1>g, <1>w, <2>2 DEF Stop, End, NoState, Unmoved, Idle, NoRun,
       tagVars, fileVars, Grounded, Pinned, Floor, MayUnwind, RunType, Held, Peeled
  <2>q. \A q \in Releasables : st'[q].rc \in {0, st[q].rc} \cup 0..origin'
    BY <1>30, <1>u, <1>g, <2>o DEF Stop, NoState, Idle, NoRun, tagVars, fileVars, StateType,
       Restated, NoState, Pinned
  <2>t. \A q \in Releasables, v \in Version : ltag'[q][v] \in {ltag[q][v]} \cup 0..origin'
    BY <1>30 DEF Stop, tagVars
  <2>3. Pinned'
    BY <1>u, <1>g, <2>o, <2>q, <2>t, PinnedStays
  <2> QED
    BY <2>1, <2>2, <2>3 DEF Structure
<1>31. ASSUME NEW r \in Releasables, KilledCommitting(r) PROVE Structure'
  <2>h. \/ hist' = hist
        \/ hist' \in Seq(CommitType) /\ Topped([kind |-> "bump", of |-> r, ver |-> Next1(r)])
    BY <1>31, <1>u, <1>w, Grown DEF KilledCommitting, Kinds
  <2>r. [NoState EXCEPT !.ver = Next1(r), !.stage = "begun"] \in StateType
    BY <1>31, <1>u, <1>w DEF KilledCommitting, NoState, StateType, Stages
  <2>s. Restated(r, [NoState EXCEPT !.ver = Next1(r), !.stage = "begun"])
    BY <1>31, <1>u, <2>r, Restates DEF KilledCommitting
  <2>1. TypeOK'
    BY <1>31, <1>u, <2>h, <1>g, <2>s DEF KilledCommitting, End, Committing, Next1, Room,
       NoRun, First, tagVars, fileVars, TypeOK, Labels, FileType, Named, Restated, Topped
  <2>v. m' \in RunType /\ Len(hist') \in Nat
    BY <2>1 DEF TypeOK
  <2>2. Grounded'
    BY <1>31, <1>u, <2>h, <2>v, <1>g, <2>s DEF KilledCommitting, End, Committing, Next1,
       Room, NoRun, First, tagVars, fileVars, Grounded, Floor, MayUnwind, Idle, RunType,
       Topped, Restated
  <2>3. Pinned'
    BY <1>31, <1>u, <2>h, <2>v, <1>g, <2>2, <2>s DEF KilledCommitting, End, NoState,
       Committing, Next1, Room, NoRun, First, tagVars, fileVars, Grounded, Floor, MayUnwind,
       Idle, RunType, StateType, Pinned, Topped, Restated
  <2> QED
    BY <2>1, <2>2, <2>3 DEF Structure
<1>32. ASSUME NEW r \in Releasables, DiscardMember(r) PROVE Structure'
  <2>h. hist' \in Seq(CommitType) /\ Peeled
    BY <1>32, <1>u, Shrunk DEF DiscardMember, Unmoved
  <2>r. NoState \in StateType
    BY <1>32, <1>u DEF DiscardMember, NoState, Unmoved, StateType, Stages, RunType
  <2>s. Restated(r, NoState)
    BY <1>32, <1>u, <2>r, Restates DEF DiscardMember
  <2>1. TypeOK'
    BY <1>32, <1>u, <2>h, <1>g, <2>s DEF DiscardMember, End, Unmoved, NoRun, tagVars,
       fileVars, TypeOK, Labels, FileType, Named, Restated, Peeled
  <2>v. m' \in RunType /\ Len(hist') \in Nat
    BY <2>1 DEF TypeOK
  <2>2. Grounded'
    BY <1>32, <1>u, <2>h, <2>v, <1>g, <2>s DEF DiscardMember, End, Unmoved, NoRun, tagVars,
       fileVars, Grounded, Floor, MayUnwind, Idle, RunType, Peeled, Restated
  <2>3. Pinned'
    BY <1>32, <1>u, <2>h, <2>v, <1>g, <2>2, <2>s DEF DiscardMember, End, NoState, Unmoved,
       NoRun, tagVars, fileVars, Grounded, Floor, MayUnwind, Idle, RunType, StateType,
       Pinned, Peeled, Restated
  <2> QED
    BY <2>1, <2>2, <2>3 DEF Structure
<1> QED
  BY <1>1, <1>2, <1>3, <1>4, <1>5, <1>6, <1>7, <1>8, <1>9, <1>10, <1>11, <1>12,
     <1>13, <1>14, <1>15, <1>16, <1>17, <1>18, <1>19, <1>20, <1>21, <1>22, <1>23,
     <1>24, <1>25, <1>26, <1>27, <1>28, <1>29, <1>30, <1>31, <1>32
     DEF Next, Batch, Member, People, Faults
-----------------------------------------------------------------------------
(* What a step does to the branch and the versions on it. *)

\* The branch stays, grows by one commit, or loses its topmost, which is
\* the release commit of a releasable whose state goes with it.
Course ==
    \/ hist' = hist
    \/ \E c \in CommitType : Topped(c)
    \/ /\ Peeled /\ Floor < Len(hist) /\ hist[Len(hist)].kind = "bump"
       /\ \E q \in Releasables : hist[Len(hist)].of = q /\ st'[q] = NoState

\* How the run's hold on what it can take back changes.
Turn ==
    /\ pc' = "commit" => (pc = "commit" /\ m'.pin = m.pin) \/ m'.pin = Len(hist')
    /\ MayUnwind' => \/ MayUnwind /\ m'.tip = m.tip
                     \/ m'.tip = Len(hist') /\ Len(hist') = Len(hist) + 1

LEMMA CourseHolds ==
    ASSUME Structure, Held, Next
    PROVE  Course /\ Turn
<1>u. /\ hist \in Seq(CommitType) /\ NoState \in StateType /\ 0 \in 0..MaxVersion
      /\ st \in [Releasables -> StateType] /\ \A r \in Releasables : st[r] \in StateType
      /\ \A v \in Version : v \in 0..MaxVersion
      /\ \A r \in Releasables : Validates(r) => Next1(r) \in Version
  BY BatchAssumption DEF NoState, StateType, Stages, Structure, TypeOK, Version, Validates
<1>n. Len(hist) \in Nat \ {0} /\ m.tip \in Nat /\ m.pin \in Nat /\ m \in RunType
  BY <1>u DEF Structure, TypeOK, Grounded, RunType
<1>g. Grounded /\ Held
  BY DEF Structure
<1>1. ASSUME FinishPlan PROVE Course /\ Turn
  <2>1. hist' = hist
    BY <1>1 DEF FinishPlan, repoVars
  <2>2. Turn
    BY <1>1, <1>n, <1>g DEF FinishPlan, Go, NoRun, Idle, Turn, MayUnwind, RunType
  <2> QED
    BY <2>1, <2>2 DEF Course
<1>2. ASSUME BeginRun PROVE Course /\ Turn
  <2>1. hist' = hist
    BY <1>2 DEF BeginRun, repoVars
  <2>2. Turn
    BY <1>2, <1>n, <1>g DEF BeginRun, Go, NoRun, Idle, Turn, MayUnwind, RunType
  <2> QED
    BY <2>1, <2>2 DEF Course
<1>3. ASSUME ValidateAndPlan PROVE Course /\ Turn
  <2>1. hist' = hist
    BY <1>3 DEF ValidateAndPlan, repoVars
  <2>2. Turn
    BY <1>3, <1>n, <1>g DEF ValidateAndPlan, Go, End, NoRun, Turn, MayUnwind, RunType
  <2> QED
    BY <2>1, <2>2 DEF Course
<1>4. ASSUME RootSelfdoc PROVE Course /\ Turn
  <2>1. hist' = hist \/ Topped([kind |-> "docs", of |-> "", ver |-> 0])
    BY <1>4, <1>u, Grown DEF RootSelfdoc, Kinds
  <2>2. Course
    BY <2>1 DEF Topped, Course
  <2>3. Turn
    BY <1>4, <1>n, <1>g, <2>1 DEF RootSelfdoc, Go, Left, Turn, MayUnwind, RunType, Topped,
       Grounded
  <2> QED
    BY <2>2, <2>3
<1>5. ASSUME PushCandidate PROVE Course /\ Turn
  <2>1. hist' = hist
    BY <1>5 DEF PushCandidate
  <2>2. Turn
    BY <1>5, <1>n, <1>g DEF PushCandidate, Go, Turn, MayUnwind, RunType
  <2> QED
    BY <2>1, <2>2 DEF Course
<1>6. ASSUME Gate PROVE Course /\ Turn
  <2>1. hist' = hist
    BY <1>6 DEF Gate, repoVars
  <2>2. Turn
    BY <1>6, <1>n, <1>g DEF Gate, Go, Turn, MayUnwind, RunType
  <2> QED
    BY <2>1, <2>2 DEF Course
<1>7. ASSUME ArchiveIfComplete PROVE Course /\ Turn
  <2>1. hist' = hist
    BY <1>7 DEF ArchiveIfComplete, repoVars
  <2>2. Turn
    BY <1>7, <1>n, <1>g DEF ArchiveIfComplete, Go, End, NoRun, Turn, MayUnwind, RunType
  <2> QED
    BY <2>1, <2>2 DEF Course
<1>8. ASSUME CommitArchive PROVE Course /\ Turn
  <2>1. Topped([kind |-> "filed", of |-> "", ver |-> 0])
    BY <1>8, <1>u, Grown DEF CommitArchive, Kinds
  <2>2. Course
    BY <2>1 DEF Topped, Course
  <2>3. Turn
    BY <1>8, <1>n, <1>g, <2>1 DEF CommitArchive, Go, Left, Turn, MayUnwind, RunType, Topped,
       Grounded
  <2> QED
    BY <2>2, <2>3
<1>9. ASSUME ClearPlan PROVE Course /\ Turn
  <2>1. hist' = hist
    BY <1>9 DEF ClearPlan, repoVars
  <2>2. Turn
    BY <1>9, <1>n, <1>g DEF ClearPlan, Go, Turn, MayUnwind, RunType
  <2> QED
    BY <2>1, <2>2 DEF Course
<1>10. ASSUME PushArchive PROVE Course /\ Turn
  <2>1. hist' = hist
    BY <1>10 DEF PushArchive
  <2>2. Turn
    BY <1>10, <1>n, <1>g DEF PushArchive, End, NoRun, Turn, MayUnwind, RunType
  <2> QED
    BY <2>1, <2>2 DEF Course
<1>11. ASSUME Refused PROVE Course /\ Turn
  <2>1. hist' = hist
    BY <1>11 DEF Refused, repoVars
  <2>2. Turn
    BY <1>11, <1>n, <1>g DEF Refused, End, Idle, NoRun, Turn, MayUnwind, RunType
  <2> QED
    BY <2>1, <2>2 DEF Course
<1>12. ASSUME NEW r \in Releasables, Skip(r) PROVE Course /\ Turn
  <2>1. hist' = hist
    BY <1>12 DEF Skip, repoVars
  <2>2. Turn
    BY <1>12, <1>n, <1>g DEF Skip, Committing, Advanced, Turn, MayUnwind, RunType
  <2> QED
    BY <2>1, <2>2 DEF Course
<1>13. ASSUME NEW r \in Releasables, Join(r) PROVE Course /\ Turn
  <2>1. hist' = hist
    BY <1>13 DEF Join, repoVars
  <2>2. Turn
    BY <1>13, <1>n, <1>g DEF Join, Committing, Joined, Turn, MayUnwind, RunType
  <2> QED
    BY <2>1, <2>2 DEF Course
<1>14. ASSUME NEW r \in Releasables, CommitMember(r) PROVE Course /\ Turn
  <2>1. Topped([kind |-> "bump", of |-> r, ver |-> Next1(r)])
    BY <1>14, <1>u, Grown DEF CommitMember, Kinds
  <2>2. Course
    BY <2>1 DEF Topped, Course
  <2>3. Turn
    BY <1>14, <1>n, <1>g, <2>1 DEF CommitMember, Committing, Joined, Left, Turn, MayUnwind,
       RunType, Topped, Grounded
  <2> QED
    BY <2>2, <2>3
<1>15. ASSUME NEW r \in Releasables, RecordPushed(r) PROVE Course /\ Turn
  <2>1. hist' = hist
    BY <1>15 DEF RecordPushed, repoVars
  <2>2. Turn
    BY <1>15, <1>n, <1>g DEF RecordPushed, Advanced, Turn, MayUnwind, RunType
  <2> QED
    BY <2>1, <2>2 DEF Course
<1>16. ASSUME NEW r \in Releasables, AdoptCandidate(r) PROVE Course /\ Turn
  <2>1. hist' = hist
    BY <1>16 DEF AdoptCandidate, repoVars
  <2>2. Turn
    BY <1>16, <1>n, <1>g DEF AdoptCandidate, Completing, Turn, MayUnwind, RunType
  <2> QED
    BY <2>1, <2>2 DEF Course
<1>17. ASSUME NEW r \in Releasables, CommitOwed(r) PROVE Course /\ Turn
  <2>1. hist' = hist \/ Topped([kind |-> "bump", of |-> r, ver |-> st[r].ver])
    BY <1>17, <1>u, Grown DEF CommitOwed, Kinds, StateType
  <2>2. Course
    BY <2>1 DEF Topped, Course
  <2>3. Turn
    BY <1>17, <1>n, <1>g, <2>1 DEF CommitOwed, Working, Left, Completing, Alone, Turn,
       MayUnwind, RunType, Topped, Grounded
  <2> QED
    BY <2>2, <2>3
<1>18. ASSUME NEW r \in Releasables, PushAlone(r) PROVE Course /\ Turn
  <2>1. hist' = hist
    BY <1>18 DEF PushAlone
  <2>2. Turn
    BY <1>18, <1>n, <1>g DEF PushAlone, Alone, Turn, MayUnwind, RunType
  <2> QED
    BY <2>1, <2>2 DEF Course
<1>19. ASSUME NEW r \in Releasables, VerifyAlone(r) PROVE Course /\ Turn
  <2>1. hist' = hist
    BY <1>19 DEF VerifyAlone, repoVars
  <2>2. Turn
    BY <1>19, <1>n, <1>g DEF VerifyAlone, Alone, Turn, MayUnwind, RunType
  <2> QED
    BY <2>1, <2>2 DEF Course
<1>20. ASSUME NEW r \in Releasables, Finalize(r) PROVE Course /\ Turn
  <2>1. Topped([kind |-> "final", of |-> r, ver |-> st[r].ver])
    BY <1>20, <1>u, Grown DEF Finalize, Kinds, StateType
  <2>2. Course
    BY <2>1 DEF Topped, Course
  <2>3. Turn
    BY <1>20, <1>n, <1>g, <2>1 DEF Finalize, At, Left, Working, Completing, Alone, Turn,
       MayUnwind, RunType, Topped, Grounded
  <2> QED
    BY <2>2, <2>3
<1>21. ASSUME NEW r \in Releasables, Tag(r) PROVE Course /\ Turn
  <2>1. hist' = hist
    BY <1>21 DEF Tag, repoVars
  <2>2. Turn
    BY <1>21, <1>n, <1>g DEF Tag, At, Working, Completing, Alone, Turn, MayUnwind, RunType
  <2> QED
    BY <2>1, <2>2 DEF Course
<1>22. ASSUME NEW r \in Releasables, PushTag(r) PROVE Course /\ Turn
  <2>1. hist' = hist
    BY <1>22 DEF PushTag
  <2>2. Turn
    BY <1>22, <1>n, <1>g DEF PushTag, At, Working, Completing, Alone, Turn, MayUnwind,
       RunType
  <2> QED
    BY <2>1, <2>2 DEF Course
<1>23. ASSUME NEW r \in Releasables, Publish(r) PROVE Course /\ Turn
  <2>1. hist' = hist
    BY <1>23 DEF Publish, repoVars
  <2>2. Turn
    BY <1>23, <1>n, <1>g DEF Publish, End, Alone, At, Advanced, NoRun, Working, Completing,
       Turn, MayUnwind, RunType
  <2> QED
    BY <2>1, <2>2 DEF Course
<1>24. ASSUME WriteFile PROVE Course /\ Turn
  <2>1. hist' = hist
    BY <1>24 DEF WriteFile, repoVars
  <2>2. Turn
    BY <1>24, <1>n, <1>g DEF WriteFile, Idle, Turn, MayUnwind, RunType
  <2> QED
    BY <2>1, <2>2 DEF Course
<1>25. ASSUME EditFile PROVE Course /\ Turn
  <2>1. hist' = hist
    BY <1>25 DEF EditFile, repoVars
  <2>2. Turn
    BY <1>25, <1>n, <1>g DEF EditFile, Idle, Turn, MayUnwind, RunType
  <2> QED
    BY <2>1, <2>2 DEF Course
<1>26. ASSUME Work PROVE Course /\ Turn
  <2>1. Topped([kind |-> "work", of |-> "", ver |-> 0])
    BY <1>26, <1>u, Grown DEF Work, Kinds
  <2>2. Course
    BY <2>1 DEF Topped, Course
  <2>3. Turn
    BY <1>26, <1>n, <1>g, <2>1 DEF Work, Turn, MayUnwind, RunType, Topped, Grounded
  <2> QED
    BY <2>2, <2>3
<1>27. ASSUME NEW r \in Releasables, ReleaseAlone(r) PROVE Course /\ Turn
  <2>1. Topped([kind |-> "bump", of |-> r, ver |-> VersionOf(r) + 1])
    BY <1>27, <1>u, Grown DEF ReleaseAlone, Kinds
  <2>2. Course
    BY <2>1 DEF Topped, Course
  <2>3. Turn
    BY <1>27, <1>n, <1>g, <2>1 DEF ReleaseAlone, Go, NoRun, Left, Idle, Turn, MayUnwind,
       RunType, Topped, Grounded
  <2> QED
    BY <2>2, <2>3
<1>28. ASSUME NEW r \in Releasables, ResumeAlone(r) PROVE Course /\ Turn
  <2>1. hist' = hist
    BY <1>28 DEF ResumeAlone, repoVars
  <2>2. Turn
    BY <1>28, <1>n, <1>g DEF ResumeAlone, Go, NoRun, Idle, Turn, MayUnwind, RunType
  <2> QED
    BY <2>1, <2>2 DEF Course
<1>29. ASSUME NEW r \in Releasables, Abandon(r) PROVE Course /\ Turn
  <2>1. Topped([kind |-> "never", of |-> r, ver |-> st[r].ver])
    BY <1>29, <1>u, Grown DEF Abandon, Kinds, StateType
  <2>2. Course
    BY <2>1 DEF Topped, Course
  <2>3. Turn
    BY <1>29, <1>n, <1>g, <2>1 DEF Abandon, Idle, Turn, MayUnwind, RunType, Topped, Grounded
  <2> QED
    BY <2>2, <2>3
<1>30. ASSUME Stop PROVE Course /\ Turn
  <2>1. Turn
    BY <1>30 DEF Stop, End, Turn, MayUnwind
  <2>2. CASE hist' = hist
    BY <2>1, <2>2 DEF Course
  <2>3. CASE hist' # hist
    <3>1. m.fresh /\ m.cand = 0 /\ Len(hist) = m.tip /\ hist' = TakenBack /\ ~Idle
          /\ st' = [r \in Releasables |-> IF r \in m.queue THEN NoState ELSE st[r]]
      BY <1>30, <2>3 DEF Stop, Unmoved
    <3>2. MayUnwind /\ m.queue = {hist[m.tip].of} /\ hist[m.tip].kind = "bump"
      BY <1>g, <3>1 DEF Grounded, MayUnwind
    <3>3. hist[Len(hist)].of \in Releasables /\ st'[hist[Len(hist)].of] = NoState
      BY <1>n, <3>1, <3>2 DEF RunType
    <3>4. Peeled
      BY <1>u, <1>n, <3>1, Shrunk
    <3>5. Floor < Len(hist)
      BY <1>n, <3>1, <3>2 DEF Floor, MayUnwind
    <3> QED
      BY <2>1, <3>1, <3>2, <3>3, <3>4, <3>5 DEF Course
  <2> QED
    BY <2>2, <2>3
<1>31. ASSUME NEW r \in Releasables, KilledCommitting(r) PROVE Course /\ Turn
  <2>1. hist' = hist \/ Topped([kind |-> "bump", of |-> r, ver |-> Next1(r)])
    BY <1>31, <1>u, Grown DEF KilledCommitting, Kinds
  <2>2. Course
    BY <2>1 DEF Topped, Course
  <2>3. Turn
    BY <1>31, <1>n, <1>g, <2>1 DEF KilledCommitting, End, Committing, NoRun, Turn,
       MayUnwind, RunType, Topped, Grounded
  <2> QED
    BY <2>2, <2>3
<1>32. ASSUME NEW r \in Releasables, DiscardMember(r) PROVE Course /\ Turn
  <2>1. hist' \in Seq(CommitType) /\ Peeled
    BY <1>32, <1>u, <1>n, Shrunk DEF DiscardMember
  <2>2. /\ pc = "commit" /\ Len(hist) = m.tip /\ Len(hist) > m.pin /\ hist[Len(hist)].of = r
        /\ st' = [st EXCEPT ![r] = NoState]
    BY <1>32, Zenon DEF DiscardMember, Unmoved, Last
  <2>3. Len(hist) \in m.pin + 1..m.tip /\ st'[r] = NoState
    BY <2>2, <1>n, <1>u
  <2>4. hist[Len(hist)].kind = "bump" /\ Floor < Len(hist)
    BY <2>2, <2>3, <1>g, <1>n DEF Grounded, Floor
  <2>5. Turn
    BY <1>32 DEF DiscardMember, End, Turn, MayUnwind
  <2> QED
    BY <2>1, <2>2, <2>3, <2>4, <2>5 DEF Course
<1> QED
  BY <1>1, <1>2, <1>3, <1>4, <1>5, <1>6, <1>7, <1>8, <1>9, <1>10, <1>11, <1>12,
     <1>13, <1>14, <1>15, <1>16, <1>17, <1>18, <1>19, <1>20, <1>21, <1>22, <1>23,
     <1>24, <1>25, <1>26, <1>27, <1>28, <1>29, <1>30, <1>31, <1>32
     DEF Next, Batch, Member, People, Faults

\* No step lowers what nothing takes back, and what is below it stays.
LEMMA FloorRises ==
    ASSUME Structure, Structure', Course, Turn
    PROVE  /\ Floor \in Nat /\ Floor' \in Nat /\ Len(hist) \in Nat /\ Len(hist') \in Nat
           /\ origin \in 1..Floor /\ Floor =< Floor' /\ Floor =< Len(hist) /\ Floor' =< Len(hist')
           /\ \A i \in 1..Floor : hist'[i] = hist[i]
<1>1. /\ hist \in Seq(CommitType) /\ hist' \in Seq(CommitType)
      /\ m.tip \in Nat /\ m.pin \in Nat /\ m'.tip \in Nat /\ m'.pin \in Nat
      /\ origin \in 1..Floor /\ Floor \in 1..Len(hist) /\ Floor' \in 1..Len(hist')
  BY DEF Structure, TypeOK, Grounded, RunType
<1>2. Len(hist) \in Nat /\ Len(hist') \in Nat /\ Floor \in Nat /\ Floor' \in Nat
  BY <1>1
<1>3. /\ m.tip \in Nat /\ m.pin \in Nat /\ m'.tip \in Nat /\ m'.pin \in Nat
      /\ origin \in 1..Floor /\ Floor \in 1..Len(hist) /\ Floor' \in 1..Len(hist')
  BY <1>1, Zenon
<1>4. Floor =< Len(hist') /\ \A i \in 1..Floor : hist'[i] = hist[i]
  BY <1>2, <1>3 DEF Course, Topped, Peeled
<1>8. Floor =< Floor'
  <2>5. CASE pc' = "commit"
    <3>1. CASE pc = "commit" /\ m'.pin = m.pin
      BY <1>2, <2>5, <3>1 DEF Floor
    <3>2. CASE m'.pin = Len(hist')
      BY <1>2, <1>4, <2>5, <3>2 DEF Floor
    <3> QED
      BY <2>5, <3>1, <3>2 DEF Turn
  <2>6. CASE pc' # "commit" /\ MayUnwind'
    <3>1. CASE MayUnwind /\ m'.tip = m.tip
      <4>1. Floor = m.tip - 1 /\ Floor' = m'.tip - 1
        BY <2>6, <3>1 DEF Floor, MayUnwind
      <4> QED
        BY <1>3, <3>1, <4>1
    <3>2. CASE m'.tip = Len(hist') /\ Len(hist') = Len(hist) + 1
      <4>1. Floor' = m'.tip - 1
        BY <2>6 DEF Floor
      <4> QED
        BY <1>2, <1>3, <3>2, <4>1
    <3> QED
      BY <2>6, <3>1, <3>2 DEF Turn
  <2>7. CASE pc' # "commit" /\ ~MayUnwind'
    <3>1. Floor' = Len(hist')
      BY <2>7 DEF Floor
    <3> QED
      BY <1>2, <1>4, <3>1
  <2> QED
    BY <2>5, <2>6, <2>7
<1> QED
  BY <1>2, <1>3, <1>4, <1>8

\* What holds of versions in a state holds in the next.
Topping ==
    \A r \in Releasables, n \in Nat \ {0} :
        /\ hist[n].kind = "bump" /\ hist[n].of = r => VersionAt(r, n) = hist[n].ver
        /\ ~(hist[n].kind = "bump" /\ hist[n].of = r) => VersionAt(r, n) = VersionAt(r, n - 1)
LEMMA ToppingHolds == Topping
BY VersionTop DEF Topping
LEMMA ToppingHoldsNext == Topping'
BY ToppingHolds, PTL

Versioned == TypeOK => \A r \in Releasables, n \in 0..Len(hist) : VersionAt(r, n) \in 0..MaxVersion
LEMMA VersionedHolds == Versioned
<1> SUFFICES ASSUME TypeOK, NEW r \in Releasables, NEW n \in 0..Len(hist)
             PROVE  VersionAt(r, n) \in 0..MaxVersion
  BY DEF Versioned
<1>1. hist \in Seq(CommitType)
  BY DEF TypeOK
<1> QED
  BY <1>1, VersionType
LEMMA VersionedHoldsNext == Versioned'
BY VersionedHolds, PTL

\* How a step moves versions: below what it keeps nowhere, and on top by the
\* bump it commits.
LEMMA VersionSteps ==
    ASSUME Structure, Structure', Course, Turn, NEW r \in Releasables
    PROVE  /\ \A n \in 0..Len(hist) : n =< Len(hist') => VersionAt(r, n)' = VersionAt(r, n)
           /\ hist' = hist => VersionOf(r)' = VersionOf(r)
           /\ \A c \in CommitType : Topped(c) =>
                 IF c.kind = "bump" /\ c.of = r THEN VersionOf(r)' = c.ver
                 ELSE VersionOf(r)' = VersionOf(r)
           /\ Peeled /\ hist[Len(hist)].of # r => VersionOf(r)' = VersionOf(r)
<1>1. /\ Floor \in Nat /\ Len(hist) \in Nat \ {0} /\ Len(hist') \in Nat /\ Floor =< Len(hist')
      /\ \A i \in 1..Floor : hist'[i] = hist[i]
  BY FloorRises
<1>2. \A i \in 1..Len(hist) : i =< Len(hist') => hist'[i] = hist[i]
  BY <1>1 DEF Course, Topped, Peeled
<1>3. ASSUME NEW n \in 0..Len(hist), n =< Len(hist')
      PROVE  VersionAt(r, n)' = VersionAt(r, n)
  <2>1. n \in Nat /\ \A i \in 1..n : hist'[i] = hist[i]
    BY <1>1, <1>2, <1>3
  <2> QED
    BY <2>1, VersionStays
<1>4. VersionOf(r) = VersionAt(r, Len(hist)) /\ VersionOf(r)' = VersionAt(r, Len(hist))'
  BY DEF VersionOf
<1>5. hist' = hist => VersionOf(r)' = VersionOf(r)
  BY DEF VersionOf, VersionAt
<1>6. ASSUME NEW c \in CommitType, Topped(c)
      PROVE  IF c.kind = "bump" /\ c.of = r THEN VersionOf(r)' = c.ver
             ELSE VersionOf(r)' = VersionOf(r)
  <2>1. PICK k \in Nat \ {0} : k = Len(hist')
    BY <1>1, <1>6 DEF Topped
  <2>2. k - 1 = Len(hist) /\ hist'[k] = c /\ k - 1 \in 0..Len(hist) /\ k - 1 =< Len(hist')
    BY <1>1, <1>6, <2>1 DEF Topped
  <2>3. /\ c.kind = "bump" /\ c.of = r => VersionAt(r, k)' = c.ver
        /\ ~(c.kind = "bump" /\ c.of = r) => VersionAt(r, k)' = VersionAt(r, k - 1)'
    BY <2>1, <2>2, ToppingHoldsNext DEF Topping
  <2>4. VersionAt(r, k - 1)' = VersionAt(r, k - 1) /\ VersionAt(r, k - 1) = VersionOf(r)
    BY <1>3, <1>4, <2>2
  <2>5. VersionOf(r)' = VersionAt(r, k)'
    BY <2>1 DEF VersionOf
  <2> QED
    BY <2>3, <2>4, <2>5
<1>7. ASSUME Peeled, hist[Len(hist)].of # r PROVE VersionOf(r)' = VersionOf(r)
  <2>1. VersionAt(r, Len(hist)) = VersionAt(r, Len(hist) - 1)
    BY <1>1, <1>7, VersionTop
  <2>2. PICK k \in Nat : k = Len(hist) - 1
    BY <1>1
  <2>3. k = Len(hist') /\ k \in 0..Len(hist) /\ k =< Len(hist')
    BY <1>1, <1>7, <2>2 DEF Peeled
  <2>4. VersionAt(r, k)' = VersionAt(r, k) /\ VersionAt(r, k) = VersionOf(r)
    BY <1>3, <1>4, <2>1, <2>2, <2>3
  <2>5. VersionOf(r)' = VersionAt(r, k)'
    BY <2>3 DEF VersionOf
  <2> QED
    BY <2>4, <2>5
<1> QED
  BY <1>3, <1>5, <1>6, <1>7


-----------------------------------------------------------------------------
(* What the branch and the tags say of one releasable. *)

CarriedOf(r) ==
    /\ InProgress(r) => /\ st[r].ver \in Version /\ st[r].stage # "none"
                        /\ VersionOf(r) =< st[r].ver
    /\ InProgress(r) /\ r \notin cut => st[r].committed /\ VersionOf(r) = st[r].ver
    /\ st[r].stage \notin {"none", "begun"} /\ r \notin cut => VersionAt(r, st[r].rc) = st[r].ver
    /\ Verified(st[r]) => st[r].rc \in verdicts
CommittedOf(r) ==
    st[r].committed => \E i \in DOMAIN hist : hist[i] = [kind |-> "bump", of |-> r, ver |-> st[r].ver]
TaggedOf(r) ==
    r \notin cut => \A v \in Version : ltag[r][v] # 0 =>
        ltag[r][v] \in verdicts /\ VersionAt(r, ltag[r][v]) = v
UnpushedOf(r) ==
    \A v \in Version :
        ltag[r][v] # 0 /\ otag[r][v] = 0 => st[r].ver = v /\ st[r].stage = "tagged"
SoundOf(r) == CarriedOf(r) /\ CommittedOf(r) /\ TaggedOf(r) /\ UnpushedOf(r)

LEMMA SoundIs == Sound <=> Held /\ \A r \in Releasables : SoundOf(r)
BY DEF Sound, SoundOf, Carried, CommittedStays, TagHasBumpUnlessCut, Unpushed,
   CarriedOf, CommittedOf, TaggedOf, UnpushedOf
LEMMA SoundIsNext == (Sound <=> Held /\ \A r \in Releasables : SoundOf(r))'
BY SoundIs, PTL

\* What the branch has at a commit origin has, it keeps.
LEMMA PinnedVersions ==
    ASSUME Structure, Structure', Course, Turn, NEW r \in Releasables, NEW n \in 0..origin
    PROVE  VersionAt(r, n)' = VersionAt(r, n)
<1>1. /\ Floor \in Nat /\ Floor' \in Nat /\ Len(hist) \in Nat /\ Len(hist') \in Nat
      /\ origin \in 1..Floor /\ Floor =< Floor' /\ Floor =< Len(hist) /\ Floor' =< Len(hist')
  BY FloorRises
<1>2. n \in 0..Len(hist) /\ n =< Len(hist')
  BY <1>1
<1> QED
  BY <1>2, VersionSteps

\* A step beside a releasable commits no bump of it and takes none back.
Beside(r) ==
    \/ hist' = hist
    \/ \E c \in CommitType : Topped(c) /\ ~(c.kind = "bump" /\ c.of = r)
    \/ Peeled /\ hist[Len(hist)].of # r

LEMMA BesideKeeps ==
    ASSUME Structure, Structure', Course, Turn, NEW r \in Releasables, Beside(r)
    PROVE  /\ VersionOf(r)' = VersionOf(r)
           /\ CommittedOf(r) /\ st'[r].ver = st[r].ver /\ (st'[r].committed => st[r].committed)
                 => CommittedOf(r)'
<1>1. Len(hist) \in Nat \ {0} /\ Len(hist') \in Nat
  BY FloorRises
<1>d. DOMAIN hist = 1..Len(hist) /\ DOMAIN hist' = 1..Len(hist')
  BY DEF Structure, TypeOK
<1>2. VersionOf(r)' = VersionOf(r)
  BY VersionSteps DEF Beside
<1>3. ASSUME CommittedOf(r), st'[r].ver = st[r].ver, st'[r].committed, st[r].committed
      PROVE  CommittedOf(r)'
  <2>1. PICK i \in 1..Len(hist) : hist[i] = [kind |-> "bump", of |-> r, ver |-> st[r].ver]
    BY <1>3, <1>d DEF CommittedOf
  <2>2. CASE hist' = hist
    BY <1>d, <1>3, <2>1, <2>2 DEF CommittedOf
  <2>3. CASE \E c \in CommitType : Topped(c)
    <3>1. i \in 1..Len(hist') /\ hist'[i] = hist[i]
      BY <1>1, <2>1, <2>3 DEF Topped
    <3> QED
      BY <1>d, <1>3, <2>1, <3>1 DEF CommittedOf
  <2>4. CASE Peeled /\ hist[Len(hist)].of # r
    <3>1. i # Len(hist)
      BY <2>1, <2>4
    <3>2. i \in 1..Len(hist') /\ hist'[i] = hist[i]
      BY <1>1, <2>1, <2>4, <3>1 DEF Peeled
    <3> QED
      BY <1>d, <1>3, <2>1, <3>2 DEF CommittedOf
  <2> QED
    BY <2>2, <2>3, <2>4 DEF Beside
<1>4. ~st'[r].committed => CommittedOf(r)'
  BY DEF CommittedOf
<1> QED
  BY <1>2, <1>3, <1>4

\* Tags that do not move keep what they say.
LEMMA TaggedStays ==
    ASSUME Structure, Structure', Course, Turn, NEW r \in Releasables, TaggedOf(r),
           ltag'[r] = ltag[r], verdicts \subseteq verdicts', r \in cut => r \in cut'
    PROVE  TaggedOf(r)'
<1> SUFFICES ASSUME r \notin cut', NEW v \in Version, ltag[r][v] # 0
             PROVE  ltag[r][v] \in verdicts' /\ VersionAt(r, ltag[r][v])' = v
  BY DEF TaggedOf
<1>1. ltag[r][v] \in verdicts /\ VersionAt(r, ltag[r][v]) = v /\ ltag[r][v] \in 0..origin
  BY DEF TaggedOf, Structure, Pinned
<1>2. PICK n \in 0..origin : n = ltag[r][v]
  BY <1>1
<1>3. VersionAt(r, n)' = VersionAt(r, n)
  BY PinnedVersions
<1>4. VersionAt(r, ltag[r][v])' = VersionAt(r, n)'
  BY <1>2
<1> QED
  BY <1>1, <1>2, <1>3

LEMMA UnpushedStays ==
    ASSUME NEW r \in Releasables, UnpushedOf(r), ltag'[r] = ltag[r], otag'[r] = otag[r],
           st'[r] = st[r] \/ st[r].stage # "tagged"
    PROVE  UnpushedOf(r)'
BY DEF UnpushedOf

\* A releasable the step is beside, whose state and tags it leaves, is as sound as before.
LEMMA Framed ==
    ASSUME Structure, Structure', Course, Turn, NEW r \in Releasables, Beside(r), SoundOf(r),
           st'[r] = st[r], ltag'[r] = ltag[r], otag'[r] = otag[r],
           verdicts \subseteq verdicts', r \in cut => r \in cut'
    PROVE  SoundOf(r)'
<1>1. CarriedOf(r) /\ CommittedOf(r) /\ TaggedOf(r) /\ UnpushedOf(r)
  BY DEF SoundOf
<1>2. VersionOf(r)' = VersionOf(r) /\ CommittedOf(r)'
  BY <1>1, BesideKeeps
<1>3. PICK n \in 0..origin : n = st[r].rc
  BY DEF Structure, Pinned
<1>4. VersionAt(r, n)' = VersionAt(r, n)
  BY PinnedVersions
<1>5. VersionAt(r, st[r].rc)' = VersionAt(r, n)'
  BY <1>3
<1>6. CarriedOf(r)'
  BY <1>1, <1>2, <1>3, <1>4, <1>5 DEF CarriedOf, InProgress, Verified
<1>7. TaggedOf(r)' /\ UnpushedOf(r)'
  BY <1>1, TaggedStays, UnpushedStays
<1> QED
  BY <1>2, <1>6, <1>7 DEF SoundOf

\* A step that leaves every state and tag, and commits no bump.
LEMMA AllFramed ==
    ASSUME Structure, Structure', Course, Turn, Sound, st' = st, ltag' = ltag, otag' = otag,
           verdicts \subseteq verdicts', cut' = cut,
           hist' = hist \/ \E c \in CommitType : Topped(c) /\ c.kind # "bump"
    PROVE  \A r \in Releasables : SoundOf(r)'
<1> SUFFICES ASSUME NEW r \in Releasables PROVE SoundOf(r)'
  OBVIOUS
<1>1. Beside(r) /\ SoundOf(r)
  BY SoundIs DEF Beside
<1>2. st'[r] = st[r] /\ ltag'[r] = ltag[r] /\ otag'[r] = otag[r] /\ (r \in cut => r \in cut')
  OBVIOUS
<1> QED
  BY <1>1, <1>2, Framed

\* A step of one releasable: those it is not of are framed, and its tags, if
\* the step leaves them, say what they said.
Its(r) ==
    /\ \A q \in Releasables \ {r} : /\ st'[q] = st[q] /\ ltag'[q] = ltag[q] /\ otag'[q] = otag[q]
                                    /\ q \in cut => q \in cut'
    /\ verdicts \subseteq verdicts'
    /\ \/ hist' = hist
       \/ \E c \in CommitType : Topped(c) /\ (c.kind = "bump" => c.of = r)
       \/ Peeled /\ hist[Len(hist)].of = r

LEMMA OthersSound ==
    ASSUME Structure, Structure', Course, Turn, Sound, NEW r \in Releasables, Its(r), SoundOf(r)'
    PROVE  \A q \in Releasables : SoundOf(q)'
<1> SUFFICES ASSUME NEW q \in Releasables \ {r} PROVE SoundOf(q)'
  OBVIOUS
<1>1. Beside(q) /\ SoundOf(q)
  BY SoundIs DEF Beside, Its
<1>2. /\ st'[q] = st[q] /\ ltag'[q] = ltag[q] /\ otag'[q] = otag[q]
      /\ verdicts \subseteq verdicts' /\ (q \in cut => q \in cut')
  BY DEF Its
<1> QED
  BY <1>1, <1>2, Framed

LEMMA ItsSound ==
    ASSUME Structure, Structure', Course, Turn, Sound, NEW r \in Releasables, Its(r),
           ltag'[r] = ltag[r], otag'[r] = otag[r], st'[r] = st[r] \/ st[r].stage # "tagged",
           r \in cut => r \in cut', CarriedOf(r)', CommittedOf(r)'
    PROVE  \A q \in Releasables : SoundOf(q)'
<1>1. SoundOf(r) /\ verdicts \subseteq verdicts'
  BY SoundIs DEF Its
<1>2. TaggedOf(r)' /\ UnpushedOf(r)'
  BY <1>1, TaggedStays, UnpushedStays DEF SoundOf
<1>3. SoundOf(r)'
  BY <1>2 DEF SoundOf
<1> QED
  BY <1>3, OthersSound

\* A removed state carries and records nothing.
LEMMA NothingCarried ==
    ASSUME NEW r, st'[r] = NoState
    PROVE  CarriedOf(r)' /\ CommittedOf(r)'
BY DEF NoState, CarriedOf, CommittedOf, InProgress, Verified

\* No step unsettles what is said of a releasable's state and tags.
LEMMA SoundOfKept ==
    ASSUME Structure, Structure', Course, Turn, Sound, Plans, Next
    PROVE  \A q \in Releasables : SoundOf(q)'
<1>u. /\ hist \in Seq(CommitType) /\ 0 \in 0..MaxVersion /\ \A v \in Version : v \in 0..MaxVersion
  BY BatchAssumption DEF Structure, TypeOK, Version
<1>n. /\ Len(hist) \in Nat \ {0} /\ m \in RunType /\ m.tip \in Nat /\ m.queue \subseteq Releasables
      /\ m.pending \subseteq Releasables
  BY DEF Structure, TypeOK, Grounded, RunType
<1>t. /\ st \in [Releasables -> StateType] /\ \A r \in Releasables : st[r] \in StateType
      /\ ltag \in [Releasables -> [Version -> Nat]] /\ otag \in [Releasables -> [Version -> Nat]]
      /\ NoState \in StateType
  BY BatchAssumption DEF Structure, TypeOK, StateType, NoState, Stages
<1>s. Held /\ \A r \in Releasables : CarriedOf(r) /\ CommittedOf(r) /\ TaggedOf(r) /\ UnpushedOf(r)
  BY SoundIs DEF SoundOf
<1>v. \A r \in Releasables : VersionOf(r) \in 0..MaxVersion /\ VersionOf(r) \in Nat
  <2>1. Len(hist) \in 0..Len(hist) /\ MaxVersion \in Nat
    BY <1>n, BatchAssumption
  <2>2. \A r \in Releasables : VersionAt(r, Len(hist)) \in 0..MaxVersion
    BY <1>u, <2>1, VersionType
  <2> QED
    BY <2>1, <2>2 DEF VersionOf
<1>f. ASSUME NEW r \in Releasables, Validates(r), r \in Named
      PROVE  /\ st[r] = NoState /\ Next1(r) \in Version /\ VersionOf(r) < Next1(r)
             /\ Next1(r) \in 0..MaxVersion /\ Next1(r) \in Nat
  <2>1. st[r] = NoState /\ Next1(r) \in Version /\ Next1(r) = VersionOf(r) + file.bump[r]
    BY <1>f DEF Validates, InProgress, Next1
  <2>2. file.bump[r] \in Nat \ {0}
    BY <1>f DEF Structure, TypeOK, FileType
  <2> QED
    BY <1>u, <1>v, <2>1, <2>2 DEF Version
<1>b. ASSUME NEW r \in Releasables, NEW v \in Version, hist' = Commit("bump", r, v)
      PROVE  /\ Topped([kind |-> "bump", of |-> r, ver |-> v]) /\ VersionOf(r)' = v
             /\ \E c \in CommitType : Topped(c) /\ (c.kind = "bump" => c.of = r)
             /\ \E i \in DOMAIN hist' : hist'[i] = [kind |-> "bump", of |-> r, ver |-> v]
  <2>1. Topped([kind |-> "bump", of |-> r, ver |-> v])
    BY <1>u, <1>b, Grown DEF Kinds
  <2>2. [kind |-> "bump", of |-> r, ver |-> v] \in CommitType
    BY <2>1 DEF Topped
  <2>3. VersionOf(r)' = v
    BY <2>1, <2>2, VersionSteps
  <2>4. Len(hist) + 1 \in DOMAIN hist'
    BY <1>n, <2>1 DEF Topped, Structure, TypeOK
  <2> QED
    BY <2>1, <2>2, <2>3, <2>4 DEF Topped
<1>1. ASSUME FinishPlan PROVE \A q \in Releasables : SoundOf(q)'
  <2>1. /\ st' = st /\ ltag' = ltag /\ otag' = otag /\ verdicts \subseteq verdicts'
        /\ cut' = cut /\ hist' = hist
    BY <1>1 DEF FinishPlan, repoVars, tagVars, fileVars
  <2> QED
    BY <2>1, AllFramed
<1>2. ASSUME BeginRun PROVE \A q \in Releasables : SoundOf(q)'
  <2>1. /\ st' = st /\ ltag' = ltag /\ otag' = otag /\ verdicts \subseteq verdicts'
        /\ cut' = cut /\ hist' = hist
    BY <1>2 DEF BeginRun, repoVars, tagVars, fileVars
  <2> QED
    BY <2>1, AllFramed
<1>3. ASSUME ValidateAndPlan PROVE \A q \in Releasables : SoundOf(q)'
  <2>1. /\ st' = st /\ ltag' = ltag /\ otag' = otag /\ verdicts \subseteq verdicts'
        /\ cut' = cut /\ hist' = hist
    BY <1>3 DEF ValidateAndPlan, repoVars, tagVars, fileVars
  <2> QED
    BY <2>1, AllFramed
<1>4. ASSUME PushCandidate PROVE \A q \in Releasables : SoundOf(q)'
  <2>1. /\ st' = st /\ ltag' = ltag /\ otag' = otag /\ verdicts \subseteq verdicts'
        /\ cut' = cut /\ hist' = hist
    BY <1>4 DEF PushCandidate, repoVars, tagVars, fileVars
  <2> QED
    BY <2>1, AllFramed
<1>5. ASSUME Gate PROVE \A q \in Releasables : SoundOf(q)'
  <2>1. /\ st' = st /\ ltag' = ltag /\ otag' = otag /\ verdicts \subseteq verdicts'
        /\ cut' = cut /\ hist' = hist
    BY <1>5 DEF Gate, repoVars, tagVars, fileVars
  <2> QED
    BY <2>1, AllFramed
<1>6. ASSUME ArchiveIfComplete PROVE \A q \in Releasables : SoundOf(q)'
  <2>1. /\ st' = st /\ ltag' = ltag /\ otag' = otag /\ verdicts \subseteq verdicts'
        /\ cut' = cut /\ hist' = hist
    BY <1>6 DEF ArchiveIfComplete, repoVars, tagVars, fileVars
  <2> QED
    BY <2>1, AllFramed
<1>7. ASSUME ClearPlan PROVE \A q \in Releasables : SoundOf(q)'
  <2>1. /\ st' = st /\ ltag' = ltag /\ otag' = otag /\ verdicts \subseteq verdicts'
        /\ cut' = cut /\ hist' = hist
    BY <1>7 DEF ClearPlan, repoVars, tagVars, fileVars
  <2> QED
    BY <2>1, AllFramed
<1>8. ASSUME PushArchive PROVE \A q \in Releasables : SoundOf(q)'
  <2>1. /\ st' = st /\ ltag' = ltag /\ otag' = otag /\ verdicts \subseteq verdicts'
        /\ cut' = cut /\ hist' = hist
    BY <1>8 DEF PushArchive, repoVars, tagVars, fileVars
  <2> QED
    BY <2>1, AllFramed
<1>9. ASSUME Refused PROVE \A q \in Releasables : SoundOf(q)'
  <2>1. /\ st' = st /\ ltag' = ltag /\ otag' = otag /\ verdicts \subseteq verdicts'
        /\ cut' = cut /\ hist' = hist
    BY <1>9 DEF Refused, repoVars, tagVars, fileVars
  <2> QED
    BY <2>1, AllFramed
<1>10. ASSUME WriteFile PROVE \A q \in Releasables : SoundOf(q)'
  <2>1. /\ st' = st /\ ltag' = ltag /\ otag' = otag /\ verdicts \subseteq verdicts'
        /\ cut' = cut /\ hist' = hist
    BY <1>10 DEF WriteFile, repoVars, tagVars, fileVars
  <2> QED
    BY <2>1, AllFramed
<1>11. ASSUME EditFile PROVE \A q \in Releasables : SoundOf(q)'
  <2>1. /\ st' = st /\ ltag' = ltag /\ otag' = otag /\ verdicts \subseteq verdicts'
        /\ cut' = cut /\ hist' = hist
    BY <1>11 DEF EditFile, repoVars, tagVars, fileVars
  <2> QED
    BY <2>1, AllFramed
<1>12. ASSUME NEW r \in Releasables, Skip(r) PROVE \A q \in Releasables : SoundOf(q)'
  <2>1. /\ st' = st /\ ltag' = ltag /\ otag' = otag /\ verdicts \subseteq verdicts'
        /\ cut' = cut /\ hist' = hist
    BY <1>12 DEF Skip, repoVars, tagVars, fileVars
  <2> QED
    BY <2>1, AllFramed
<1>13. ASSUME NEW r \in Releasables, Join(r) PROVE \A q \in Releasables : SoundOf(q)'
  <2>1. /\ st' = st /\ ltag' = ltag /\ otag' = otag /\ verdicts \subseteq verdicts'
        /\ cut' = cut /\ hist' = hist
    BY <1>13 DEF Join, repoVars, tagVars, fileVars
  <2> QED
    BY <2>1, AllFramed
<1>14. ASSUME NEW r \in Releasables, ResumeAlone(r) PROVE \A q \in Releasables : SoundOf(q)'
  <2>1. /\ st' = st /\ ltag' = ltag /\ otag' = otag /\ verdicts \subseteq verdicts'
        /\ cut' = cut /\ hist' = hist
    BY <1>14 DEF ResumeAlone, repoVars, tagVars, fileVars
  <2> QED
    BY <2>1, AllFramed
<1>15. ASSUME RootSelfdoc PROVE \A q \in Releasables : SoundOf(q)'
  <2>1. /\ st' = st /\ ltag' = ltag /\ otag' = otag /\ verdicts \subseteq verdicts' /\ cut' = cut
        /\ hist' = hist \/ hist' = Commit("docs", "", 0)
    BY <1>15 DEF RootSelfdoc, tagVars, fileVars
  <2>2. hist' = hist \/ Topped([kind |-> "docs", of |-> "", ver |-> 0])
    BY <1>u, <2>1, Grown DEF Kinds
  <2>3. hist' = hist \/ \E c \in CommitType : Topped(c) /\ c.kind # "bump"
    BY <2>2 DEF Topped
  <2> QED
    BY <2>1, <2>3, AllFramed
<1>16. ASSUME CommitArchive PROVE \A q \in Releasables : SoundOf(q)'
  <2>1. /\ st' = st /\ ltag' = ltag /\ otag' = otag /\ verdicts \subseteq verdicts' /\ cut' = cut
        /\ hist' = hist \/ hist' = Commit("filed", "", 0)
    BY <1>16 DEF CommitArchive, tagVars, fileVars
  <2>2. hist' = hist \/ Topped([kind |-> "filed", of |-> "", ver |-> 0])
    BY <1>u, <2>1, Grown DEF Kinds
  <2>3. hist' = hist \/ \E c \in CommitType : Topped(c) /\ c.kind # "bump"
    BY <2>2 DEF Topped
  <2> QED
    BY <2>1, <2>3, AllFramed
<1>17. ASSUME Work PROVE \A q \in Releasables : SoundOf(q)'
  <2>1. /\ st' = st /\ ltag' = ltag /\ otag' = otag /\ verdicts \subseteq verdicts' /\ cut' = cut
        /\ hist' = hist \/ hist' = Commit("work", "", 0)
    BY <1>17 DEF Work, tagVars, fileVars
  <2>2. hist' = hist \/ Topped([kind |-> "work", of |-> "", ver |-> 0])
    BY <1>u, <2>1, Grown DEF Kinds
  <2>3. hist' = hist \/ \E c \in CommitType : Topped(c) /\ c.kind # "bump"
    BY <2>2 DEF Topped
  <2> QED
    BY <2>1, <2>3, AllFramed
<1>18. ASSUME NEW r \in Releasables, CommitMember(r) PROVE \A q \in Releasables : SoundOf(q)'
  <2>1. r \in Named /\ Validates(r) /\ hist' = Commit("bump", r, Next1(r))
    BY <1>18 DEF CommitMember, Committing, First, Plans, Follows
  <2>2. /\ st[r] = NoState /\ Next1(r) \in Version /\ Next1(r) \in Nat
        /\ Next1(r) \in 0..MaxVersion
    BY <1>f, <2>1
  <2>3. [NoState EXCEPT !.ver = Next1(r), !.committed = TRUE, !.stage = "begun"] \in StateType
    BY <2>2 DEF NoState, StateType, Stages
  <2>4. Restated(r, [NoState EXCEPT !.ver = Next1(r), !.committed = TRUE, !.stage = "begun"])
    BY <1>18, <1>t, <2>3, Restates DEF CommitMember
  <2>5. st'[r].ver = Next1(r) /\ st'[r].committed /\ st'[r].stage = "begun"
    BY <2>4 DEF Restated, NoState
  <2>6. /\ VersionOf(r)' = Next1(r) /\ Its(r) /\ ltag' = ltag /\ otag' = otag /\ cut' = cut
        /\ CommittedOf(r)'
    <3>1. VersionOf(r)' = Next1(r) /\ CommittedOf(r)'
      <4>1. PICK v \in Version : v = Next1(r)
        BY <2>2
      <4>2. /\ VersionOf(r)' = v
            /\ \E i \in DOMAIN hist' : hist'[i] = [kind |-> "bump", of |-> r, ver |-> v]
        BY <1>b, <2>1, <4>1
      <4> QED
        BY <2>5, <4>1, <4>2 DEF CommittedOf
    <3>2. ltag' = ltag /\ otag' = otag /\ cut' = cut /\ verdicts' = verdicts
      BY <1>18 DEF CommitMember, tagVars
    <3>3. Its(r)
      BY <1>b, <2>1, <2>2, <2>4, <3>2 DEF Its, Restated
    <3> QED
      BY <3>1, <3>2, <3>3
  <2>7. CarriedOf(r)'
    BY <2>2, <2>5, <2>6 DEF CarriedOf, Verified
  <2> QED
    BY <2>2, <2>6, <2>7, ItsSound DEF NoState
<1>19. ASSUME NEW r \in Releasables, KilledCommitting(r) PROVE \A q \in Releasables : SoundOf(q)'
  <2>1. /\ r \in Named /\ Validates(r) /\ cut' = cut \cup {r}
        /\ hist' = hist \/ hist' = Commit("bump", r, Next1(r))
    BY <1>19 DEF KilledCommitting, Committing, First, Plans, Follows
  <2>2. /\ st[r] = NoState /\ Next1(r) \in Version /\ Next1(r) \in Nat
        /\ Next1(r) \in 0..MaxVersion /\ VersionOf(r) < Next1(r)
    BY <1>f, <2>1
  <2>3. [NoState EXCEPT !.ver = Next1(r), !.stage = "begun"] \in StateType
    BY <2>2 DEF NoState, StateType, Stages
  <2>4. Restated(r, [NoState EXCEPT !.ver = Next1(r), !.stage = "begun"])
    BY <1>19, <1>t, <2>3, Restates DEF KilledCommitting
  <2>5. st'[r].ver = Next1(r) /\ ~st'[r].committed /\ st'[r].stage = "begun"
    BY <2>4 DEF Restated, NoState
  <2>6. /\ VersionOf(r)' \in {Next1(r), VersionOf(r)} /\ Its(r) /\ ltag' = ltag /\ otag' = otag
        /\ CommittedOf(r)'
    <3>1. VersionOf(r)' \in {Next1(r), VersionOf(r)}
      BY <1>b, <2>1, <2>2, VersionSteps
    <3>2. Its(r)
      BY <1>19, <1>b, <2>1, <2>2, <2>4 DEF KilledCommitting, tagVars, Its, Restated
    <3> QED
      BY <1>19, <2>5, <3>1, <3>2 DEF KilledCommitting, tagVars, CommittedOf
  <2>7. CarriedOf(r)'
    BY <1>v, <2>1, <2>2, <2>5, <2>6 DEF CarriedOf, Verified
  <2> QED
    BY <2>1, <2>2, <2>6, <2>7, ItsSound DEF NoState
<1>20. ASSUME NEW r \in Releasables, DiscardMember(r) PROVE \A q \in Releasables : SoundOf(q)'
  <2>1. /\ r \in m.pending /\ pc = "commit" /\ hist[Len(hist)].of = r /\ hist' = TakenBack
        /\ st' = [st EXCEPT ![r] = NoState]
    BY <1>20 DEF DiscardMember, Last
  <2>2. st[r].stage # "tagged"
    BY <1>s, <2>1 DEF Held
  <2>3. Restated(r, NoState)
    BY <1>t, <2>1, Restates
  <2>4. Peeled
    BY <1>u, <1>n, <2>1, Shrunk
  <2>5. CarriedOf(r)' /\ CommittedOf(r)'
    BY <2>3, NothingCarried DEF Restated
  <2>6. Its(r) /\ ltag' = ltag /\ otag' = otag /\ cut' = cut
    BY <1>20, <2>1, <2>3, <2>4 DEF DiscardMember, tagVars, Its, Restated
  <2> QED
    BY <2>2, <2>5, <2>6, ItsSound
<1>21. ASSUME NEW r \in Releasables, RecordPushed(r) PROVE \A q \in Releasables : SoundOf(q)'
  <2>1. /\ r \in m.queue /\ pc = "record" /\ hist' = hist /\ r \in m.pending
        /\ st' = [st EXCEPT ![r].rc = m.cand, ![r].stage = "pushed"]
    BY <1>21, <1>s DEF RecordPushed, First, repoVars, Held
  <2>2. st[r].stage \in {"begun", "pushed"} /\ (r \notin cut => VersionAt(r, m.cand) = st[r].ver)
    BY <1>s, <2>1 DEF Held
  <2>3. /\ st'[r].rc = m.cand /\ st'[r].stage = "pushed" /\ st'[r].ver = st[r].ver
        /\ st'[r].committed = st[r].committed /\ \A q \in Releasables \ {r} : st'[q] = st[q]
    BY <1>t, <2>1 DEF StateType
  <2>4. Its(r) /\ ltag' = ltag /\ otag' = otag /\ cut' = cut /\ Beside(r)
    BY <1>21, <2>1, <2>3 DEF RecordPushed, tagVars, Its, Beside
  <2>5. CommittedOf(r)' /\ VersionOf(r)' = VersionOf(r)
    BY <1>s, <2>3, <2>4, BesideKeeps
  <2>7. InProgress(r)
    BY <2>2 DEF InProgress, NoState
  <2>8. VersionAt(r, st[r].rc)' = VersionAt(r, m.cand)
    <3>1. PICK n \in 0..origin : n = m.cand
      BY DEF Structure, Pinned
    <3>2. VersionAt(r, n)' = VersionAt(r, n)
      BY PinnedVersions
    <3>3. VersionAt(r, st[r].rc)' = VersionAt(r, n)'
      BY <2>1, <2>3, <3>1
    <3> QED
      BY <3>1, <3>2, <3>3
  <2>9. CarriedOf(r)'
    BY <1>s, <2>2, <2>3, <2>4, <2>5, <2>7, <2>8 DEF CarriedOf, Verified
  <2> QED
    BY <2>2, <2>4, <2>5, <2>9, ItsSound
<1>22. ASSUME NEW r \in Releasables, AdoptCandidate(r) PROVE \A q \in Releasables : SoundOf(q)'
  <2>1. /\ r \in m.queue /\ pc = "complete" /\ hist' = hist /\ st[r].stage = "pushed"
        /\ st[r].rc = m.cand /\ st' = [st EXCEPT ![r].stage = "verified"]
    BY <1>22, <1>s DEF AdoptCandidate, Completing, First, repoVars
  <2>2. m.cand \in verdicts
    BY <1>s, <2>1 DEF Held
  <2>3. /\ st'[r].rc = st[r].rc /\ st'[r].stage = "verified" /\ st'[r].ver = st[r].ver
        /\ st'[r].committed = st[r].committed /\ \A q \in Releasables \ {r} : st'[q] = st[q]
    BY <1>t, <2>1 DEF StateType
  <2>4. /\ Its(r) /\ ltag' = ltag /\ otag' = otag /\ cut' = cut /\ Beside(r)
        /\ verdicts' = verdicts
    BY <1>22, <2>1, <2>3 DEF AdoptCandidate, tagVars, Its, Beside
  <2>5. CommittedOf(r)' /\ VersionOf(r)' = VersionOf(r)
    BY <1>s, <2>3, <2>4, BesideKeeps
  <2>7. InProgress(r)
    BY <2>1 DEF InProgress, NoState
  <2>8. VersionAt(r, st[r].rc)' = VersionAt(r, st[r].rc)
    <3>1. PICK n \in 0..origin : n = st[r].rc
      BY DEF Structure, Pinned
    <3>2. VersionAt(r, n)' = VersionAt(r, n)
      BY PinnedVersions
    <3>3. VersionAt(r, st[r].rc)' = VersionAt(r, n)'
      BY <2>1, <2>3, <3>1
    <3> QED
      BY <3>1, <3>2, <3>3
  <2>9. CarriedOf(r)'
    BY <1>s, <2>1, <2>2, <2>3, <2>4, <2>5, <2>7, <2>8 DEF CarriedOf, Verified
  <2> QED
    BY <2>1, <2>4, <2>5, <2>9, ItsSound
<1>23. ASSUME NEW r \in Releasables, CommitOwed(r) PROVE \A q \in Releasables : SoundOf(q)'
  <2>1. /\ ~st[r].committed /\ st' = [st EXCEPT ![r].committed = TRUE]
        /\ IF VersionOf(r) = st[r].ver THEN hist' = hist ELSE hist' = Commit("bump", r, st[r].ver)
    BY <1>23 DEF CommitOwed
  <2>2. InProgress(r)
    BY <1>23, <1>s DEF CommitOwed, Working, Completing, Alone, First, Held
  <2>3. st[r].ver \in Version /\ r \in cut /\ st[r].stage # "none" /\ st[r].ver \in Nat \ {0}
    BY <1>s, <2>1, <2>2 DEF CarriedOf, Version
  <2>4. /\ st'[r].rc = st[r].rc /\ st'[r].stage = st[r].stage /\ st'[r].ver = st[r].ver
        /\ st'[r].committed /\ \A q \in Releasables \ {r} : st'[q] = st[q]
    BY <1>t, <2>1 DEF StateType
  <2>5. Its(r) /\ ltag' = ltag /\ otag' = otag /\ cut' = cut /\ verdicts' = verdicts
    BY <1>23, <1>b, <2>1, <2>3, <2>4 DEF CommitOwed, tagVars, Its
  <2>6. CommittedOf(r)' /\ VersionOf(r)' = st[r].ver
    <3>1. CASE VersionOf(r) = st[r].ver
      <4>1. \E i \in 1..Len(hist) : hist[i] = [kind |-> "bump", of |-> r, ver |-> VersionOf(r)]
        <5>1. Len(hist) \in 0..Len(hist) /\ VersionOf(r) # 0
          BY <1>n, <2>3, <3>1
        <5> QED
          BY <1>u, <5>1, VersionType DEF VersionOf
      <4>2. DOMAIN hist = 1..Len(hist)
        BY <1>u
      <4>3. hist' = hist
        BY <2>1, <3>1
      <4> QED
        BY <2>4, <3>1, <4>1, <4>2, <4>3, VersionSteps DEF CommittedOf
    <3>2. CASE VersionOf(r) # st[r].ver
      <4>1. hist' = Commit("bump", r, st[r].ver)
        BY <2>1, <3>2
      <4>2. /\ VersionOf(r)' = st[r].ver
            /\ \E i \in DOMAIN hist' : hist'[i] = [kind |-> "bump", of |-> r, ver |-> st[r].ver]
        BY <1>b, <2>3, <4>1
      <4> QED
        BY <2>4, <4>2 DEF CommittedOf
    <3> QED
      BY <3>1, <3>2
  <2>7. CarriedOf(r)'
    BY <1>s, <2>3, <2>4, <2>5, <2>6 DEF CarriedOf, Verified
  <2>8. UnpushedOf(r)'
    BY <1>s, <2>4, <2>5 DEF UnpushedOf
  <2>9. TaggedOf(r)'
    BY <1>s, <2>3, <2>5 DEF TaggedOf
  <2> QED
    BY <2>5, <2>6, <2>7, <2>8, <2>9, OthersSound DEF SoundOf
<1>24. ASSUME NEW r \in Releasables, PushAlone(r) PROVE \A q \in Releasables : SoundOf(q)'
  <2>1. /\ r \in m.queue /\ pc = "alone" /\ hist' = hist /\ st[r].stage \in {"begun", "pushed"}
        /\ m.tip = Len(hist) /\ st' = [st EXCEPT ![r].rc = m.tip, ![r].stage = "pushed"]
    BY <1>24 DEF PushAlone, Alone, Unmoved
  <2>3. /\ st'[r].rc = Len(hist) /\ st'[r].stage = "pushed" /\ st'[r].ver = st[r].ver
        /\ st'[r].committed = st[r].committed /\ \A q \in Releasables \ {r} : st'[q] = st[q]
    BY <1>t, <2>1 DEF StateType
  <2>4. /\ Its(r) /\ ltag' = ltag /\ otag' = otag /\ cut' = cut /\ Beside(r)
        /\ verdicts' = verdicts
    BY <1>24, <2>1, <2>3 DEF PushAlone, tagVars, Its, Beside
  <2>5. CommittedOf(r)' /\ VersionOf(r)' = VersionOf(r)
    BY <1>s, <2>3, <2>4, BesideKeeps
  <2>7. InProgress(r)
    BY <2>1 DEF InProgress, NoState
  <2>8. VersionAt(r, st[r].rc)' = VersionOf(r)
    <3>1. VersionAt(r, st[r].rc)' = VersionAt(r, Len(hist))'
      BY <2>1, <2>3
    <3> QED
      BY <2>5, <3>1 DEF VersionOf
  <2>9. CarriedOf(r)'
    BY <1>s, <2>1, <2>3, <2>4, <2>5, <2>7, <2>8 DEF CarriedOf, Verified
  <2> QED
    BY <2>1, <2>4, <2>5, <2>9, ItsSound
<1>25. ASSUME NEW r \in Releasables, VerifyAlone(r) PROVE \A q \in Releasables : SoundOf(q)'
  <2>1. /\ r \in m.queue /\ pc = "alone" /\ hist' = hist /\ st[r].stage = "pushed"
        /\ m.cand # 0 /\ st' = [st EXCEPT ![r].stage = "verified"]
        /\ verdicts' = verdicts \cup {m.cand}
    BY <1>25 DEF VerifyAlone, Alone, repoVars
  <2>2. st[r].rc = m.cand
    BY <1>s, <2>1 DEF Held
  <2>3. /\ st'[r].rc = st[r].rc /\ st'[r].stage = "verified" /\ st'[r].ver = st[r].ver
        /\ st'[r].committed = st[r].committed /\ \A q \in Releasables \ {r} : st'[q] = st[q]
    BY <1>t, <2>1 DEF StateType
  <2>4. /\ Its(r) /\ ltag' = ltag /\ otag' = otag /\ cut' = cut /\ Beside(r)
    BY <1>25, <2>1, <2>3 DEF VerifyAlone, tagVars, Its, Beside
  <2>5. CommittedOf(r)' /\ VersionOf(r)' = VersionOf(r)
    BY <1>s, <2>3, <2>4, BesideKeeps
  <2>7. InProgress(r)
    BY <2>1 DEF InProgress, NoState
  <2>8. VersionAt(r, st[r].rc)' = VersionAt(r, st[r].rc)
    <3>1. PICK n \in 0..origin : n = st[r].rc
      BY DEF Structure, Pinned
    <3>2. VersionAt(r, n)' = VersionAt(r, n)
      BY PinnedVersions
    <3>3. VersionAt(r, st[r].rc)' = VersionAt(r, n)'
      BY <2>1, <2>3, <3>1
    <3> QED
      BY <3>1, <3>2, <3>3
  <2>9. CarriedOf(r)'
    BY <1>s, <2>1, <2>2, <2>3, <2>4, <2>5, <2>7, <2>8 DEF CarriedOf, Verified
  <2> QED
    BY <2>1, <2>4, <2>5, <2>9, ItsSound
<1>26. ASSUME NEW r \in Releasables, Finalize(r) PROVE \A q \in Releasables : SoundOf(q)'
  <2>1. /\ st[r].stage = "verified" /\ st' = [st EXCEPT ![r].stage = "finalized"]
        /\ hist' = Commit("final", r, st[r].ver)
    BY <1>26 DEF Finalize, At
  <2>3. /\ st'[r].rc = st[r].rc /\ st'[r].stage = "finalized" /\ st'[r].ver = st[r].ver
        /\ st'[r].committed = st[r].committed /\ \A q \in Releasables \ {r} : st'[q] = st[q]
        /\ st[r].ver \in 0..MaxVersion
    BY <1>t, <2>1 DEF StateType
  <2>h. Topped([kind |-> "final", of |-> r, ver |-> st[r].ver])
    BY <1>u, <2>1, <2>3, Grown DEF Kinds
  <2>4. /\ Its(r) /\ ltag' = ltag /\ otag' = otag /\ cut' = cut /\ Beside(r)
        /\ verdicts' = verdicts
    BY <1>26, <2>h, <2>3 DEF Finalize, tagVars, Its, Beside, Topped
  <2>5. CommittedOf(r)' /\ VersionOf(r)' = VersionOf(r)
    BY <1>s, <2>3, <2>4, BesideKeeps
  <2>7. InProgress(r)
    BY <2>1 DEF InProgress, NoState
  <2>8. VersionAt(r, st[r].rc)' = VersionAt(r, st[r].rc)
    <3>1. PICK n \in 0..origin : n = st[r].rc
      BY DEF Structure, Pinned
    <3>2. VersionAt(r, n)' = VersionAt(r, n)
      BY PinnedVersions
    <3>3. VersionAt(r, st[r].rc)' = VersionAt(r, n)'
      BY <2>3, <3>1
    <3> QED
      BY <3>1, <3>2, <3>3
  <2>9. CarriedOf(r)'
    BY <1>s, <2>1, <2>3, <2>4, <2>5, <2>7, <2>8 DEF CarriedOf, Verified
  <2> QED
    BY <2>1, <2>4, <2>5, <2>9, ItsSound
<1>27. ASSUME NEW r \in Releasables, Tag(r) PROVE \A q \in Releasables : SoundOf(q)'
  <2>1. /\ st[r].stage = "finalized" /\ st' = [st EXCEPT ![r].stage = "tagged"] /\ hist' = hist
        /\ ltag' = [ltag EXCEPT ![r][st[r].ver] = st[r].rc]
    BY <1>27 DEF Tag, At, repoVars
  <2>3. /\ st'[r].rc = st[r].rc /\ st'[r].stage = "tagged" /\ st'[r].ver = st[r].ver
        /\ st'[r].committed = st[r].committed /\ \A q \in Releasables \ {r} : st'[q] = st[q]
    BY <1>t, <2>1 DEF StateType
  <2>7. InProgress(r)
    BY <2>1 DEF InProgress, NoState
  <2>a. /\ st[r].ver \in Version /\ st[r].rc \in verdicts
        /\ r \notin cut => VersionAt(r, st[r].rc) = st[r].ver
    BY <1>s, <2>1, <2>7 DEF CarriedOf, Verified
  <2>b. /\ ltag'[r][st[r].ver] = st[r].rc
        /\ \A v \in Version \ {st[r].ver} : ltag'[r][v] = ltag[r][v]
        /\ \A q \in Releasables \ {r} : ltag'[q] = ltag[q]
    BY <1>t, <2>1, <2>a
  <2>4. /\ Its(r) /\ otag' = otag /\ cut' = cut /\ Beside(r)
        /\ verdicts' = verdicts
    BY <1>27, <2>1, <2>3, <2>b DEF Tag, Its, Beside
  <2>5. CommittedOf(r)' /\ VersionOf(r)' = VersionOf(r)
    BY <1>s, <2>3, <2>4, BesideKeeps
  <2>8. VersionAt(r, st[r].rc)' = VersionAt(r, st[r].rc)
    <3>1. PICK n \in 0..origin : n = st[r].rc
      BY DEF Structure, Pinned
    <3>2. VersionAt(r, n)' = VersionAt(r, n)
      BY PinnedVersions
    <3>3. VersionAt(r, st[r].rc)' = VersionAt(r, n)'
      BY <2>1, <2>3, <3>1
    <3> QED
      BY <3>1, <3>2, <3>3
  <2>9. CarriedOf(r)'
    BY <1>s, <2>1, <2>3, <2>4, <2>5, <2>7, <2>8 DEF CarriedOf, Verified
  <2>10. TaggedOf(r)'
    <3> SUFFICES ASSUME r \notin cut, NEW v \in Version, ltag'[r][v] # 0
                 PROVE  ltag'[r][v] \in verdicts /\ VersionAt(r, ltag'[r][v]) = v
      BY <2>1, <2>4 DEF TaggedOf, VersionAt
    <3>1. CASE v = st[r].ver
      BY <2>a, <2>b, <3>1
    <3>2. CASE v # st[r].ver
      BY <1>s, <2>b, <3>2 DEF TaggedOf
    <3> QED
      BY <3>1, <3>2
  <2>11. UnpushedOf(r)'
    BY <1>s, <2>1, <2>3, <2>4, <2>b DEF UnpushedOf
  <2> QED
    BY <2>4, <2>5, <2>9, <2>10, <2>11, OthersSound DEF SoundOf
<1>28. ASSUME NEW r \in Releasables, PushTag(r) PROVE \A q \in Releasables : SoundOf(q)'
  <2>1. /\ st[r].stage = "tagged" /\ st' = [st EXCEPT ![r].stage = "onorigin"] /\ hist' = hist
        /\ otag' = [otag EXCEPT ![r][st[r].ver] = ltag[r][st[r].ver]] /\ ltag' = ltag
    BY <1>28 DEF PushTag, At
  <2>3. /\ st'[r].rc = st[r].rc /\ st'[r].stage = "onorigin" /\ st'[r].ver = st[r].ver
        /\ st'[r].committed = st[r].committed /\ \A q \in Releasables \ {r} : st'[q] = st[q]
    BY <1>t, <2>1 DEF StateType
  <2>7. InProgress(r)
    BY <2>1 DEF InProgress, NoState
  <2>a. st[r].ver \in Version
    BY <1>s, <2>7 DEF CarriedOf
  <2>b. /\ otag'[r][st[r].ver] = ltag[r][st[r].ver]
        /\ \A v \in Version \ {st[r].ver} : otag'[r][v] = otag[r][v]
        /\ \A q \in Releasables \ {r} : otag'[q] = otag[q]
    BY <1>t, <2>1, <2>a
  <2>4. Its(r) /\ cut' = cut /\ Beside(r) /\ verdicts' = verdicts
    BY <1>28, <2>1, <2>3, <2>b DEF PushTag, Its, Beside
  <2>5. CommittedOf(r)' /\ VersionOf(r)' = VersionOf(r)
    BY <1>s, <2>3, <2>4, BesideKeeps
  <2>8. VersionAt(r, st[r].rc)' = VersionAt(r, st[r].rc)
    <3>1. PICK n \in 0..origin : n = st[r].rc
      BY DEF Structure, Pinned
    <3>2. VersionAt(r, n)' = VersionAt(r, n)
      BY PinnedVersions
    <3>3. VersionAt(r, st[r].rc)' = VersionAt(r, n)'
      BY <2>1, <2>3, <3>1
    <3> QED
      BY <3>1, <3>2, <3>3
  <2>9. CarriedOf(r)'
    BY <1>s, <2>1, <2>3, <2>4, <2>5, <2>7, <2>8 DEF CarriedOf, Verified
  <2>10. TaggedOf(r)'
    BY <1>s, <2>1, <2>4, TaggedStays
  <2>11. UnpushedOf(r)'
    BY <1>s, <2>1, <2>3, <2>4, <2>b DEF UnpushedOf
  <2> QED
    BY <2>4, <2>5, <2>9, <2>10, <2>11, OthersSound DEF SoundOf
<1>29. ASSUME NEW r \in Releasables, Publish(r) PROVE \A q \in Releasables : SoundOf(q)'
  <2>1. st[r].stage = "onorigin" /\ st' = [st EXCEPT ![r] = NoState] /\ hist' = hist
    BY <1>29 DEF Publish, At, repoVars
  <2>2. Restated(r, NoState)
    BY <1>t, <2>1, Restates
  <2>3. Its(r) /\ ltag' = ltag /\ otag' = otag /\ cut' = cut
    BY <1>29, <2>1, <2>2 DEF Publish, tagVars, Its, Restated
  <2> QED
    BY <2>1, <2>2, <2>3, NothingCarried, ItsSound DEF Restated
<1>30. ASSUME NEW r \in Releasables, ReleaseAlone(r) PROVE \A q \in Releasables : SoundOf(q)'
  <2>1. /\ st[r] = NoState /\ VersionOf(r) + 1 \in Version
        /\ hist' = Commit("bump", r, VersionOf(r) + 1)
    BY <1>30 DEF ReleaseAlone, InProgress
  <2>2. PICK v \in Version : v = VersionOf(r) + 1
    BY <2>1
  <2>n. v \in Nat /\ v \in 0..MaxVersion
    BY <1>u DEF Version
  <2>3. [NoState EXCEPT !.ver = v, !.committed = TRUE, !.stage = "begun"] \in StateType
    BY <2>n DEF NoState, StateType, Stages
  <2>4. Restated(r, [NoState EXCEPT !.ver = v, !.committed = TRUE, !.stage = "begun"])
    BY <1>30, <1>t, <2>2, <2>3, Restates DEF ReleaseAlone
  <2>5. st'[r].ver = v /\ st'[r].committed /\ st'[r].stage = "begun"
    BY <2>4 DEF Restated, NoState
  <2>6. /\ VersionOf(r)' = v /\ Its(r) /\ ltag' = ltag /\ otag' = otag /\ cut' = cut
        /\ CommittedOf(r)'
    BY <1>30, <1>b, <2>1, <2>2, <2>4, <2>5 DEF ReleaseAlone, tagVars, Its, Restated, CommittedOf
  <2>7. CarriedOf(r)'
    BY <2>n, <2>5, <2>6 DEF CarriedOf, Verified
  <2> QED
    BY <2>1, <2>6, <2>7, ItsSound DEF NoState
<1>31. ASSUME NEW r \in Releasables, Abandon(r) PROVE \A q \in Releasables : SoundOf(q)'
  <2>1. /\ st[r].stage \in {"begun", "pushed", "verified"} /\ st' = [st EXCEPT ![r] = NoState]
        /\ hist' = Commit("never", r, st[r].ver) /\ st[r].ver \in 0..MaxVersion
    BY <1>31, <1>t DEF Abandon, StateType
  <2>2. Restated(r, NoState)
    BY <1>t, <2>1, Restates
  <2>h. Topped([kind |-> "never", of |-> r, ver |-> st[r].ver])
    BY <1>u, <2>1, Grown DEF Kinds
  <2>3. Its(r) /\ ltag' = ltag /\ otag' = otag /\ cut' = cut
    BY <1>31, <2>h, <2>2 DEF Abandon, tagVars, Its, Restated, Topped
  <2> QED
    BY <2>1, <2>2, <2>3, NothingCarried, ItsSound DEF Restated
<1>32. ASSUME Stop PROVE \A q \in Releasables : SoundOf(q)'
  <2>0. ltag' = ltag /\ otag' = otag /\ cut' = cut /\ verdicts' = verdicts
    BY <1>32 DEF Stop, tagVars
  <2>1. CASE hist' = hist /\ st' = st
    BY <2>0, <2>1, AllFramed
  <2>2. CASE ~(hist' = hist /\ st' = st)
    <3>1. m.fresh /\ m.cand = 0 /\ Len(hist) = m.tip /\ hist' = TakenBack /\ ~Idle
          /\ st' = [r \in Releasables |-> IF r \in m.queue THEN NoState ELSE st[r]]
      BY <1>32, <2>2 DEF Stop, Unmoved
    <3>2. /\ MayUnwind /\ m.queue = {hist[m.tip].of} /\ hist[m.tip].kind = "bump"
          /\ st[hist[m.tip].of].stage = "begun"
      BY <3>1 DEF Structure, Grounded, MayUnwind
    <3>3. PICK r \in Releasables : r = hist[Len(hist)].of /\ m.queue = {r} /\ st[r].stage = "begun"
      BY <1>n, <3>1, <3>2
    <3>4. Peeled
      BY <1>u, <1>n, <3>1, Shrunk
    <3>5. st'[r] = NoState /\ \A q \in Releasables \ {r} : st'[q] = st[q]
      BY <3>1, <3>3
    <3>6. Its(r)
      BY <2>0, <3>3, <3>4, <3>5 DEF Its
    <3> QED
      BY <2>0, <3>3, <3>5, <3>6, NothingCarried, ItsSound
  <2> QED
    BY <2>1, <2>2
<1> QED
  BY <1>1, <1>2, <1>3, <1>4, <1>5, <1>6, <1>7, <1>8, <1>9, <1>10, <1>11, <1>12,
     <1>13, <1>14, <1>15, <1>16, <1>17, <1>18, <1>19, <1>20, <1>21, <1>22, <1>23,
     <1>24, <1>25, <1>26, <1>27, <1>28, <1>29, <1>30, <1>31, <1>32
     DEF Next, Batch, Member, People, Faults

\* What a run holds, by where it is, it holds after each step.
HeldNext(r) ==
    /\ pc' \in {"commit", "record"} /\ r \in m'.pending => st'[r].stage \in {"begun", "pushed"}
    /\ pc' = "record" /\ r \in m'.pending /\ r \notin cut' => VersionAt(r, m.cand)' = st'[r].ver
    /\ pc' \in {"complete", "alone"} /\ r \in m'.queue => st'[r] # NoState
    /\ pc' = "alone" /\ m'.cand # 0 /\ r \in m'.queue => st'[r].rc = m'.cand

LEMMA HeldNextIs ==
    ASSUME m' \in RunType, \A r \in Releasables : HeldNext(r),
           pc' \in {"plan", "docs"} => m'.pending = {},
           pc' = "record" => m'.queue \subseteq m'.pending /\ m'.cand # 0,
           pc' = "alone" => \E r \in Releasables : m'.queue = {r},
           pc' = "complete" => m'.cand \in verdicts'
    PROVE  Held'
<1>1. m'.pending \subseteq Releasables /\ m'.queue \subseteq Releasables
  BY DEF RunType
<1> QED
  BY <1>1 DEF Held, HeldNext, InProgress

\* A run that ended holds nothing.
LEMMA HeldNowhere ==
    ASSUME pc' \in {"idle", "archive", "clear", "pushfile"}
    PROVE  Held'
BY DEF Held

LEMMA HeldKept ==
    ASSUME Structure, Structure', Course, Turn, Sound, Plans, Next
    PROVE  Held'
<1>h. Held
  BY SoundIs
<1>m. /\ m \in RunType /\ m' \in RunType /\ hist \in Seq(CommitType)
      /\ st \in [Releasables -> StateType] /\ \A r \in Releasables : st[r] \in StateType
  BY DEF Structure, TypeOK
<1>n. Len(hist) \in Nat \ {0} /\ m.queue \subseteq Releasables /\ m.pending \subseteq Releasables
  BY <1>m DEF Structure, Grounded, RunType
<1>c. \A r \in Releasables : CarriedOf(r)
  BY SoundIs DEF SoundOf
<1>k. ASSUME NEW r \in Releasables, m'.cand = m.cand
      PROVE  VersionAt(r, m.cand)' = VersionAt(r, m.cand)
  <2>1. PICK k \in 0..origin : k = m.cand
    BY DEF Structure, Pinned
  <2>2. VersionAt(r, k)' = VersionAt(r, k)
    BY PinnedVersions
  <2>3. VersionAt(r, m.cand)' = VersionAt(r, k)'
    BY <1>k, <2>1
  <2> QED
    BY <2>1, <2>2, <2>3
<1>s. /\ NoState.stage = "none" /\ NoState.committed = FALSE
      /\ \A r \in Releasables : st[r].stage # "none" => InProgress(r)
  BY DEF NoState, InProgress
<1>1. ASSUME FinishPlan PROVE Held'
  <2>1. pc' \in {"idle", "archive"}
    BY <1>1 DEF FinishPlan, Go, Idle
  <2> QED
    BY <2>1, HeldNowhere
<1>2. ASSUME BeginRun PROVE Held'
  <2>1. pc' = "idle" \/ (pc' = "plan" /\ m'.pending = {})
    BY <1>2 DEF BeginRun, Go, Idle, NoRun
  <2> QED
    BY <2>1, <1>h DEF Held
<1>3. ASSUME ValidateAndPlan PROVE Held'
  <2>1. pc' = "idle" \/ (pc' = "docs" /\ m' = m)
    BY <1>3 DEF ValidateAndPlan, Go, End
  <2> QED
    BY <2>1, <1>3, <1>h DEF Held, ValidateAndPlan
<1>4. ASSUME RootSelfdoc PROVE Held'
  <2>1. pc = "docs" /\ pc' = "commit" /\ m'.pending = m.pending
    BY <1>4, <1>m DEF RootSelfdoc, Go, Left, RunType
  <2> QED
    BY <2>1, <1>h DEF Held
<1>5. ASSUME PushCandidate PROVE Held'
  <2>1. /\ pc = "commit" /\ pc' = "record" /\ m'.pending = m.pending /\ m'.queue = m.pending
        /\ m'.cand = Len(hist) /\ st' = st /\ cut' = cut /\ hist' = hist
    BY <1>5, <1>m DEF PushCandidate, Go, Unmoved, RunType
  <2>2. ASSUME NEW r \in Releasables PROVE HeldNext(r)
    <3>1. r \in m.pending => st[r].stage \in {"begun", "pushed"}
      BY <1>h, <2>1 DEF Held
    <3>2. r \in m.pending /\ r \notin cut => VersionOf(r) = st[r].ver
      BY <1>c, <1>s, <3>1 DEF CarriedOf
    <3>3. VersionAt(r, m.cand)' = VersionAt(r, Len(hist))'
      BY <2>1
    <3>4. VersionAt(r, Len(hist))' = VersionOf(r)
      BY <2>1, VersionSteps DEF VersionOf
    <3> QED
      BY <2>1, <3>1, <3>2, <3>3, <3>4 DEF HeldNext
  <2> QED
    BY <1>m, <1>n, <2>1, <2>2, HeldNextIs
<1>6. ASSUME Gate PROVE Held'
  <2>1. /\ pc = "record" /\ pc' = "complete" /\ m'.queue = m.pending
        /\ m'.cand = m.cand /\ st' = st /\ verdicts' = verdicts \cup {m.cand}
    BY <1>6, <1>m DEF Gate, Go, RunType
  <2>2. ASSUME NEW r \in Releasables PROVE HeldNext(r)
    BY <1>h, <1>s, <2>1 DEF Held, HeldNext
  <2> QED
    BY <1>m, <2>1, <2>2, HeldNextIs
<1>7. ASSUME ArchiveIfComplete PROVE Held'
  <2>1. pc' \in {"idle", "archive"}
    BY <1>7 DEF ArchiveIfComplete, Go, End
  <2> QED
    BY <2>1, HeldNowhere
<1>8. ASSUME CommitArchive PROVE Held'
  BY <1>8, HeldNowhere DEF CommitArchive, Go
<1>9. ASSUME ClearPlan PROVE Held'
  BY <1>9, HeldNowhere DEF ClearPlan, Go
<1>10. ASSUME PushArchive PROVE Held'
  BY <1>10, HeldNowhere DEF PushArchive, End
<1>11. ASSUME Refused PROVE Held'
  BY <1>11, HeldNowhere DEF Refused, End
<1>12. ASSUME NEW r \in Releasables, Skip(r) PROVE Held'
  <2>1. pc = "commit" /\ pc' = pc /\ m'.pending = m.pending /\ st' = st
    BY <1>12, <1>m DEF Skip, Committing, Advanced, RunType
  <2> QED
    BY <1>h, <2>1 DEF Held
<1>13. ASSUME NEW r \in Releasables, Join(r) PROVE Held'
  <2>1. /\ pc = "commit" /\ pc' = pc /\ m'.pending = m.pending \cup {r} /\ st' = st
        /\ r \in m.queue /\ st[r] # NoState
    BY <1>13, <1>m DEF Join, Committing, First, Joined, RunType, InProgress
  <2>2. ~PastVerdict(st[r]) /\ st[r].stage # "none" /\ st[r].stage \in Stages
    BY <1>c, <1>m, <2>1 DEF Plans, Follows, CarriedOf, InProgress, StateType
  <2>3. st[r].stage \in {"begun", "pushed"}
    BY <2>2 DEF PastVerdict
  <2> QED
    BY <1>h, <2>1, <2>3 DEF Held
<1>14. ASSUME NEW r \in Releasables, CommitMember(r) PROVE Held'
  <2>1. /\ pc = "commit" /\ pc' = pc /\ m'.pending = m.pending \cup {r}
        /\ st'[r].stage = "begun" /\ \A q \in Releasables \ {r} : st'[q] = st[q]
    BY <1>14, <1>m DEF CommitMember, Committing, Joined, Left, RunType, NoState
  <2> QED
    BY <1>h, <1>n, <2>1 DEF Held
<1>15. ASSUME NEW r \in Releasables, RecordPushed(r) PROVE Held'
  <2>1. /\ pc = "record" /\ pc' = pc /\ m'.pending = m.pending /\ m'.queue = m.queue \ {r}
        /\ m'.cand = m.cand /\ cut' = cut /\ st' = [st EXCEPT ![r].rc = m.cand, ![r].stage = "pushed"]
    BY <1>15, <1>m DEF RecordPushed, Advanced, RunType
  <2>2. /\ st'[r].stage = "pushed" /\ st'[r].ver = st[r].ver
        /\ \A q \in Releasables \ {r} : st'[q] = st[q]
    BY <1>m, <2>1 DEF StateType
  <2>3. ASSUME NEW q \in Releasables PROVE HeldNext(q)
    <3>1. VersionAt(q, m.cand)' = VersionAt(q, m.cand) /\ st'[q].ver = st[q].ver
      BY <1>k, <2>1, <2>2
    <3> QED
      BY <1>h, <2>1, <2>2, <3>1 DEF Held, HeldNext
  <2> QED
    BY <1>m, <1>h, <2>1, <2>3, HeldNextIs DEF Held
<1>16. ASSUME NEW r \in Releasables, AdoptCandidate(r) PROVE Held'
  <2>1. /\ pc = "complete" /\ pc' = pc /\ m' = m /\ verdicts' = verdicts
        /\ st' = [st EXCEPT ![r].stage = "verified"]
    BY <1>16 DEF AdoptCandidate, Completing
  <2>2. st'[r].stage = "verified" /\ \A q \in Releasables \ {r} : st'[q] = st[q]
    BY <1>m, <2>1 DEF StateType
  <2>3. ASSUME NEW q \in Releasables PROVE HeldNext(q)
    BY <1>h, <1>s, <2>1, <2>2 DEF Held, HeldNext, InProgress
  <2> QED
    BY <1>m, <1>h, <2>1, <2>3, HeldNextIs DEF Held
<1>17. ASSUME NEW r \in Releasables, CommitOwed(r) PROVE Held'
  <2>1. /\ Working(r) /\ pc' = pc /\ m'.cand = m.cand /\ m'.queue = m.queue /\ verdicts' = verdicts
        /\ st' = [st EXCEPT ![r].committed = TRUE]
    BY <1>17, <1>m DEF CommitOwed, Left, RunType
  <2>2. /\ st'[r].committed # NoState.committed /\ st'[r].rc = st[r].rc
        /\ \A q \in Releasables \ {r} : st'[q] = st[q]
    BY <1>m, <1>s, <2>1 DEF StateType
  <2>3. pc \in {"complete", "alone"}
    BY <2>1 DEF Working, Completing, Alone
  <2>4. ASSUME NEW q \in Releasables PROVE HeldNext(q)
    <3>1. q \in m.queue => st[q] # NoState /\ (pc = "alone" /\ m.cand # 0 => st[q].rc = m.cand)
      BY <1>h, <2>3 DEF Held, InProgress
    <3>2. st'[q].rc = st[q].rc /\ (st[q] # NoState => st'[q] # NoState)
      BY <1>s, <2>2
    <3> QED
      BY <2>1, <2>3, <3>1, <3>2 DEF HeldNext
  <2> QED
    BY <1>m, <1>h, <2>1, <2>3, <2>4, HeldNextIs DEF Held
<1>18. ASSUME NEW r \in Releasables, PushAlone(r) PROVE Held'
  <2>1. /\ pc = "alone" /\ pc' = pc /\ m'.cand = m.tip /\ m'.queue = m.queue /\ r \in m.queue
        /\ st' = [st EXCEPT ![r].rc = m.tip, ![r].stage = "pushed"]
    BY <1>18, <1>m DEF PushAlone, Alone, RunType
  <2>2. /\ st'[r].stage = "pushed" /\ st'[r].rc = m.tip /\ m.queue = {r}
        /\ \A q \in Releasables \ {r} : st'[q] = st[q]
    BY <1>m, <1>h, <2>1 DEF StateType, Held
  <2>3. ASSUME NEW q \in Releasables PROVE HeldNext(q)
    BY <1>h, <1>s, <2>1, <2>2 DEF Held, HeldNext, InProgress
  <2> QED
    BY <1>m, <1>h, <2>1, <2>2, <2>3, HeldNextIs DEF Held
<1>19. ASSUME NEW r \in Releasables, VerifyAlone(r) PROVE Held'
  <2>1. /\ Working(r) /\ pc' = pc /\ m' = m /\ verdicts \subseteq verdicts'
        /\ st' = [st EXCEPT ![r].stage = "verified"]
    BY <1>19 DEF VerifyAlone, Working
  <2>2. /\ st'[r].stage = "verified" /\ st'[r].rc = st[r].rc
        /\ \A q \in Releasables \ {r} : st'[q] = st[q]
    BY <1>m, <2>1 DEF StateType
  <2>3. pc \in {"complete", "alone"}
    BY <2>1 DEF Working, Completing, Alone
  <2>4. ASSUME NEW q \in Releasables PROVE HeldNext(q)
    <3>1. q \in m.queue => st[q] # NoState /\ (pc = "alone" /\ m.cand # 0 => st[q].rc = m.cand)
      BY <1>h, <2>3 DEF Held, InProgress
    <3>2. st'[q].rc = st[q].rc /\ (st[q] # NoState => st'[q] # NoState)
      BY <1>s, <2>2
    <3> QED
      BY <2>1, <2>3, <3>1, <3>2 DEF HeldNext
  <2> QED
    BY <1>m, <1>h, <2>1, <2>3, <2>4, HeldNextIs DEF Held
<1>20. ASSUME NEW r \in Releasables, Finalize(r) PROVE Held'
  <2>1. /\ Working(r) /\ pc' = pc /\ m'.cand = m.cand /\ m'.queue = m.queue /\ verdicts' = verdicts
        /\ st' = [st EXCEPT ![r].stage = "finalized"]
    BY <1>20, <1>m DEF Finalize, At, Left, RunType
  <2>2. /\ st'[r].stage = "finalized" /\ st'[r].rc = st[r].rc
        /\ \A q \in Releasables \ {r} : st'[q] = st[q]
    BY <1>m, <2>1 DEF StateType
  <2>3. pc \in {"complete", "alone"}
    BY <2>1 DEF Working, Completing, Alone
  <2>4. ASSUME NEW q \in Releasables PROVE HeldNext(q)
    <3>1. q \in m.queue => st[q] # NoState /\ (pc = "alone" /\ m.cand # 0 => st[q].rc = m.cand)
      BY <1>h, <2>3 DEF Held, InProgress
    <3>2. st'[q].rc = st[q].rc /\ (st[q] # NoState => st'[q] # NoState)
      BY <1>s, <2>2
    <3> QED
      BY <2>1, <2>3, <3>1, <3>2 DEF HeldNext
  <2> QED
    BY <1>m, <1>h, <2>1, <2>3, <2>4, HeldNextIs DEF Held
<1>21. ASSUME NEW r \in Releasables, Tag(r) PROVE Held'
  <2>1. /\ Working(r) /\ pc' = pc /\ m' = m /\ verdicts' = verdicts
        /\ st' = [st EXCEPT ![r].stage = "tagged"]
    BY <1>21 DEF Tag, At
  <2>2. /\ st'[r].stage = "tagged" /\ st'[r].rc = st[r].rc
        /\ \A q \in Releasables \ {r} : st'[q] = st[q]
    BY <1>m, <2>1 DEF StateType
  <2>3. pc \in {"complete", "alone"}
    BY <2>1 DEF Working, Completing, Alone
  <2>4. ASSUME NEW q \in Releasables PROVE HeldNext(q)
    <3>1. q \in m.queue => st[q] # NoState /\ (pc = "alone" /\ m.cand # 0 => st[q].rc = m.cand)
      BY <1>h, <2>3 DEF Held, InProgress
    <3>2. st'[q].rc = st[q].rc /\ (st[q] # NoState => st'[q] # NoState)
      BY <1>s, <2>2
    <3> QED
      BY <2>1, <2>3, <3>1, <3>2 DEF HeldNext
  <2> QED
    BY <1>m, <1>h, <2>1, <2>3, <2>4, HeldNextIs DEF Held
<1>22. ASSUME NEW r \in Releasables, PushTag(r) PROVE Held'
  <2>1. /\ Working(r) /\ pc' = pc /\ m' = m /\ verdicts' = verdicts
        /\ st' = [st EXCEPT ![r].stage = "onorigin"]
    BY <1>22 DEF PushTag, At
  <2>2. /\ st'[r].stage = "onorigin" /\ st'[r].rc = st[r].rc
        /\ \A q \in Releasables \ {r} : st'[q] = st[q]
    BY <1>m, <2>1 DEF StateType
  <2>3. pc \in {"complete", "alone"}
    BY <2>1 DEF Working, Completing, Alone
  <2>4. ASSUME NEW q \in Releasables PROVE HeldNext(q)
    <3>1. q \in m.queue => st[q] # NoState /\ (pc = "alone" /\ m.cand # 0 => st[q].rc = m.cand)
      BY <1>h, <2>3 DEF Held, InProgress
    <3>2. st'[q].rc = st[q].rc /\ (st[q] # NoState => st'[q] # NoState)
      BY <1>s, <2>2
    <3> QED
      BY <2>1, <2>3, <3>1, <3>2 DEF HeldNext
  <2> QED
    BY <1>m, <1>h, <2>1, <2>3, <2>4, HeldNextIs DEF Held
<1>23. ASSUME NEW r \in Releasables, Publish(r) PROVE Held'
  <2>1. CASE Alone(r)
    BY <1>23, <2>1, HeldNowhere DEF Publish, End
  <2>2. CASE ~Alone(r)
    <3>1. /\ pc = "complete" /\ pc' = pc /\ m'.queue = m.queue \ {r} /\ m'.cand = m.cand
          /\ verdicts' = verdicts /\ \A q \in Releasables \ {r} : st'[q] = st[q]
      BY <1>23, <1>m, <2>2 DEF Publish, At, Working, Completing, Advanced, RunType
    <3> QED
      BY <1>h, <1>n, <3>1 DEF Held, InProgress
  <2> QED
    BY <2>1, <2>2
<1>24. ASSUME WriteFile PROVE Held'
  <2>1. pc' = "idle"
    BY <1>24 DEF WriteFile, Idle
  <2> QED
    BY <2>1, HeldNowhere
<1>25. ASSUME EditFile PROVE Held'
  <2>1. pc' = "idle"
    BY <1>25 DEF EditFile, Deed, Idle
  <2> QED
    BY <2>1, HeldNowhere
<1>26. ASSUME Work PROVE Held'
  <2>1. pc' = pc /\ m' = m /\ st' = st /\ cut' = cut /\ verdicts' = verdicts
    BY <1>26 DEF Work
  <2>2. ASSUME NEW q \in Releasables PROVE HeldNext(q)
    <3>1. VersionAt(q, m.cand)' = VersionAt(q, m.cand)
      BY <1>k, <2>1
    <3> QED
      BY <1>h, <2>1, <3>1 DEF Held, HeldNext, InProgress
  <2> QED
    BY <1>m, <1>h, <2>1, <2>2, HeldNextIs DEF Held
<1>27. ASSUME NEW r \in Releasables, ReleaseAlone(r) PROVE Held'
  <2>1. /\ pc' = "alone" /\ m'.queue = {r} /\ m'.cand = 0 /\ st'[r].stage = "begun"
    BY <1>27, <1>m DEF ReleaseAlone, Go, Left, NoRun, NoState
  <2>2. ASSUME NEW q \in Releasables PROVE HeldNext(q)
    BY <1>s, <2>1 DEF HeldNext
  <2> QED
    BY <1>m, <2>1, <2>2, HeldNextIs
<1>28. ASSUME NEW r \in Releasables, ResumeAlone(r) PROVE Held'
  <2>1. /\ pc' = "alone" /\ m'.queue = {r} /\ m'.cand \in {0, st[r].rc} /\ st' = st
        /\ st[r] # NoState
    BY <1>28 DEF ResumeAlone, Go, NoRun, InProgress
  <2>2. ASSUME NEW q \in Releasables PROVE HeldNext(q)
    BY <2>1 DEF HeldNext
  <2> QED
    BY <1>m, <2>1, <2>2, HeldNextIs
<1>29. ASSUME NEW r \in Releasables, Abandon(r) PROVE Held'
  <2>1. pc' = "idle"
    BY <1>29 DEF Abandon, Deed, Idle
  <2> QED
    BY <2>1, HeldNowhere
<1>30. ASSUME NEW r \in Releasables, KilledCommitting(r) PROVE Held'
  BY <1>30, HeldNowhere DEF KilledCommitting, End
<1>31. ASSUME NEW r \in Releasables, DiscardMember(r) PROVE Held'
  BY <1>31, HeldNowhere DEF DiscardMember, End
<1>32. ASSUME Stop PROVE Held'
  BY <1>32, HeldNowhere DEF Stop, End
<1> QED
  BY <1>1, <1>2, <1>3, <1>4, <1>5, <1>6, <1>7, <1>8, <1>9, <1>10, <1>11, <1>12,
     <1>13, <1>14, <1>15, <1>16, <1>17, <1>18, <1>19, <1>20, <1>21, <1>22, <1>23,
     <1>24, <1>25, <1>26, <1>27, <1>28, <1>29, <1>30, <1>31, <1>32
     DEF Next, Batch, Member, People, Faults

-----------------------------------------------------------------------------
(* The plan and the file. *)

\* What is committed on top: a bump is never below the version it is on, a batch
\* is filed by its archive only, and a version is given up by hand.
Tops(c) ==
    /\ c.kind = "bump" => \A r \in Releasables : c.of = r => VersionOf(r) =< c.ver
    /\ c.kind = "filed" => CommitArchive
    /\ c.kind = "never" => c.of \in touched'
Branches ==
    hist' = hist \/ (Peeled /\ hist[Len(hist)].kind = "bump") \/ \E c \in CommitType : Topped(c) /\ Tops(c)

LEMMA BranchesHolds ==
    ASSUME Structure, Course, Sound, Plans, Next
    PROVE  Branches
<1>u. /\ hist \in Seq(CommitType) /\ 0 \in 0..MaxVersion /\ \A v \in Version : v \in 0..MaxVersion
      /\ \A r \in Releasables : st[r] \in StateType
  BY BatchAssumption DEF Structure, TypeOK, Version
<1>n. Len(hist) \in Nat
  BY <1>u
<1>v. \A r \in Releasables : VersionOf(r) \in 0..MaxVersion
  <2>1. Len(hist) \in 0..Len(hist)
    BY <1>n
  <2> QED
    BY <1>u, <2>1, VersionType DEF VersionOf
<1>a. ASSUME NEW k \in Kinds, NEW r \in Releasables \cup {""}, NEW v \in 0..MaxVersion,
             hist' = Commit(k, r, v), Tops([kind |-> k, of |-> r, ver |-> v])
      PROVE  Branches
  <2>1. Topped([kind |-> k, of |-> r, ver |-> v])
    BY <1>u, <1>a, Grown
  <2>2. [kind |-> k, of |-> r, ver |-> v] \in CommitType
    BY <2>1 DEF Topped
  <2> QED
    BY <1>a, <2>1, <2>2 DEF Branches
<1>p. ASSUME hist' = TakenBack PROVE Branches
  <2>1. CASE hist' = hist
    BY <2>1 DEF Branches
  <2>2. CASE \E c \in CommitType : Topped(c)
    <3>1. Len(hist) \in Nat \ {0}
      BY <1>n DEF Structure, Grounded
    <3>2. Len(hist') = Len(hist) - 1
      BY <1>u, <1>p, <3>1, Shrunk DEF Peeled
    <3>3. Len(hist') = Len(hist) + 1
      BY <2>2 DEF Topped
    <3>4. FALSE
      BY <3>1, <3>2, <3>3
    <3> QED
      BY <3>4
  <2>3. CASE Peeled /\ hist[Len(hist)].kind = "bump"
    BY <2>3 DEF Branches
  <2> QED
    BY <2>1, <2>2, <2>3 DEF Course
<1>f. ASSUME NEW r \in Named, r \in Releasables, Validates(r)
      PROVE  Next1(r) \in 0..MaxVersion /\ VersionOf(r) =< Next1(r)
  <2>1. Next1(r) \in Version /\ Next1(r) = VersionOf(r) + file.bump[r] /\ file.bump[r] \in Nat
    BY <1>f DEF Validates, Next1, Structure, TypeOK, FileType
  <2>2. MaxVersion \in Nat /\ VersionOf(r) \in 0..MaxVersion
    BY <1>f, <1>v, BatchAssumption
  <2> QED
    BY <2>1, <2>2 DEF Version
<1>c. \A r \in Releasables : CarriedOf(r)
  BY SoundIs DEF SoundOf
<1>h. Held
  BY SoundIs
<1>y. ASSUME hist' = hist PROVE Branches
  BY <1>y DEF Branches
<1>1. ASSUME FinishPlan PROVE Branches
  BY <1>1, <1>y DEF FinishPlan, repoVars
<1>2. ASSUME BeginRun PROVE Branches
  BY <1>2, <1>y DEF BeginRun, repoVars
<1>3. ASSUME ValidateAndPlan PROVE Branches
  BY <1>3, <1>y DEF ValidateAndPlan, repoVars
<1>4. ASSUME RootSelfdoc PROVE Branches
  <2>1. hist' = hist \/ hist' = Commit("docs", "", 0)
    BY <1>4 DEF RootSelfdoc
  <2>2. Tops([kind |-> "docs", of |-> "", ver |-> 0])
    BY DEF Tops
  <2> QED
    BY <1>a, <1>u, <1>y, <2>1, <2>2 DEF Kinds
<1>5. ASSUME PushCandidate PROVE Branches
  BY <1>5, <1>y DEF PushCandidate, repoVars
<1>6. ASSUME Gate PROVE Branches
  BY <1>6, <1>y DEF Gate, repoVars
<1>7. ASSUME ArchiveIfComplete PROVE Branches
  BY <1>7, <1>y DEF ArchiveIfComplete, repoVars
<1>8. ASSUME CommitArchive PROVE Branches
  <2>1. hist' = Commit("filed", "", 0)
    BY <1>8 DEF CommitArchive
  <2>2. Tops([kind |-> "filed", of |-> "", ver |-> 0])
    BY <1>8 DEF Tops
  <2> QED
    BY <1>a, <1>u, <2>1, <2>2 DEF Kinds
<1>9. ASSUME ClearPlan PROVE Branches
  BY <1>9, <1>y DEF ClearPlan, repoVars
<1>10. ASSUME PushArchive PROVE Branches
  BY <1>10, <1>y DEF PushArchive, repoVars
<1>11. ASSUME Refused PROVE Branches
  BY <1>11, <1>y DEF Refused, repoVars
<1>12. ASSUME NEW r \in Releasables, Skip(r) PROVE Branches
  BY <1>12, <1>y DEF Skip, repoVars
<1>13. ASSUME NEW r \in Releasables, Join(r) PROVE Branches
  BY <1>13, <1>y DEF Join, repoVars
<1>14. ASSUME NEW r \in Releasables, CommitMember(r) PROVE Branches
  <2>1. r \in Named /\ Validates(r) /\ hist' = Commit("bump", r, Next1(r))
    BY <1>14 DEF CommitMember, Committing, First, Plans, Follows
  <2>2. Next1(r) \in 0..MaxVersion /\ VersionOf(r) =< Next1(r)
    BY <1>f, <2>1
  <2>3. Tops([kind |-> "bump", of |-> r, ver |-> Next1(r)])
    BY <2>2 DEF Tops
  <2> QED
    BY <1>a, <2>1, <2>2, <2>3 DEF Kinds
<1>15. ASSUME NEW r \in Releasables, RecordPushed(r) PROVE Branches
  BY <1>15, <1>y DEF RecordPushed, repoVars
<1>16. ASSUME NEW r \in Releasables, AdoptCandidate(r) PROVE Branches
  BY <1>16, <1>y DEF AdoptCandidate, repoVars
<1>17. ASSUME NEW r \in Releasables, CommitOwed(r) PROVE Branches
  <2>1. hist' = hist \/ hist' = Commit("bump", r, st[r].ver)
    BY <1>17 DEF CommitOwed
  <2>2. InProgress(r)
    BY <1>17, <1>h DEF CommitOwed, Working, Completing, Alone, First, Held
  <2>3. Tops([kind |-> "bump", of |-> r, ver |-> st[r].ver])
    BY <1>c, <2>2 DEF Tops, CarriedOf
  <2> QED
    BY <1>a, <1>u, <1>y, <2>1, <2>3 DEF Kinds, StateType
<1>18. ASSUME NEW r \in Releasables, PushAlone(r) PROVE Branches
  BY <1>18, <1>y DEF PushAlone, repoVars
<1>19. ASSUME NEW r \in Releasables, VerifyAlone(r) PROVE Branches
  BY <1>19, <1>y DEF VerifyAlone, repoVars
<1>20. ASSUME NEW r \in Releasables, Finalize(r) PROVE Branches
  <2>1. hist' = Commit("final", r, st[r].ver)
    BY <1>20 DEF Finalize
  <2>3. Tops([kind |-> "final", of |-> r, ver |-> st[r].ver])
    BY DEF Tops
  <2> QED
    BY <1>a, <1>u, <2>1, <2>3 DEF Kinds, StateType
<1>21. ASSUME NEW r \in Releasables, Tag(r) PROVE Branches
  BY <1>21, <1>y DEF Tag, repoVars
<1>22. ASSUME NEW r \in Releasables, PushTag(r) PROVE Branches
  BY <1>22, <1>y DEF PushTag, repoVars
<1>23. ASSUME NEW r \in Releasables, Publish(r) PROVE Branches
  BY <1>23, <1>y DEF Publish, repoVars
<1>24. ASSUME WriteFile PROVE Branches
  BY <1>24, <1>y DEF WriteFile, repoVars
<1>25. ASSUME EditFile PROVE Branches
  BY <1>25, <1>y DEF EditFile, repoVars
<1>26. ASSUME Work PROVE Branches
  <2>1. hist' = Commit("work", "", 0)
    BY <1>26 DEF Work
  <2>2. Tops([kind |-> "work", of |-> "", ver |-> 0])
    BY DEF Tops
  <2> QED
    BY <1>a, <1>u, <2>1, <2>2 DEF Kinds
<1>27. ASSUME NEW r \in Releasables, ReleaseAlone(r) PROVE Branches
  <2>1. hist' = Commit("bump", r, VersionOf(r) + 1) /\ VersionOf(r) + 1 \in 0..MaxVersion
    BY <1>27, <1>u DEF ReleaseAlone
  <2>3. Tops([kind |-> "bump", of |-> r, ver |-> VersionOf(r) + 1])
    BY <1>v DEF Tops
  <2> QED
    BY <1>a, <2>1, <2>3 DEF Kinds
<1>28. ASSUME NEW r \in Releasables, ResumeAlone(r) PROVE Branches
  BY <1>28, <1>y DEF ResumeAlone, repoVars
<1>29. ASSUME NEW r \in Releasables, Abandon(r) PROVE Branches
  <2>1. hist' = Commit("never", r, st[r].ver) /\ r \in touched'
    BY <1>29 DEF Abandon
  <2>3. Tops([kind |-> "never", of |-> r, ver |-> st[r].ver])
    BY <2>1 DEF Tops
  <2> QED
    BY <1>a, <1>u, <2>1, <2>3 DEF Kinds, StateType
<1>30. ASSUME NEW r \in Releasables, KilledCommitting(r) PROVE Branches
  <2>1. /\ r \in Named /\ Validates(r)
        /\ hist' = hist \/ hist' = Commit("bump", r, Next1(r))
    BY <1>30 DEF KilledCommitting, Committing, First, Plans, Follows
  <2>2. Next1(r) \in 0..MaxVersion /\ VersionOf(r) =< Next1(r)
    BY <1>f, <2>1
  <2>3. Tops([kind |-> "bump", of |-> r, ver |-> Next1(r)])
    BY <2>2 DEF Tops
  <2> QED
    BY <1>a, <1>y, <2>1, <2>2, <2>3 DEF Kinds
<1>31. ASSUME NEW r \in Releasables, DiscardMember(r) PROVE Branches
  BY <1>31, <1>p DEF DiscardMember
<1>32. ASSUME Stop PROVE Branches
  BY <1>32, <1>p, <1>y DEF Stop
<1> QED
  BY <1>1, <1>2, <1>3, <1>4, <1>5, <1>6, <1>7, <1>8, <1>9, <1>10, <1>11, <1>12,
     <1>13, <1>14, <1>15, <1>16, <1>17, <1>18, <1>19, <1>20, <1>21, <1>22, <1>23,
     <1>24, <1>25, <1>26, <1>27, <1>28, <1>29, <1>30, <1>31, <1>32
     DEF Next, Batch, Member, People, Faults

-----------------------------------------------------------------------------
(* The plan: left, marked with the file as it is, made, or removed. *)

Marked == Planned /\ plan' = [plan EXCEPT !.blob = file.id]
Made ==
    /\ ~Planned /\ \A r \in Named : Validates(r)
    /\ plan' = [blob   |-> file.id, bump |-> file.bump,
                base   |-> [r \in Named |-> VersionOf(r)],
                target |-> [r \in Named |-> Next1(r)]]

LEMMA NoItems == ~Planned => Items = {} /\ Released = {} /\ Stranded = {} /\ Sealed = {}
<1>1. NoPlan.target = <<>>
  BY DEF NoPlan
<1>2. ~Planned => Items = {}
  BY <1>1 DEF Planned, Items
<1> QED
  BY <1>2 DEF Released, Stranded, Sealed

LEMMA PlanSteps ==
    ASSUME Follows, Next
    PROVE  plan' = plan \/ plan' = NoPlan \/ (Marked /\ BeginRun) \/ (Made /\ ValidateAndPlan)
<1>1. ASSUME FinishPlan PROVE plan' = plan \/ plan' = NoPlan \/ (Marked /\ BeginRun) \/ (Made /\ ValidateAndPlan)
  BY <1>1 DEF FinishPlan, repoVars
<1>2. ASSUME BeginRun PROVE plan' = plan \/ plan' = NoPlan \/ (Marked /\ BeginRun) \/ (Made /\ ValidateAndPlan)
  BY <1>2 DEF BeginRun, Marked
<1>3. ASSUME ValidateAndPlan PROVE plan' = plan \/ plan' = NoPlan \/ (Marked /\ BeginRun) \/ (Made /\ ValidateAndPlan)
  <2>1. CASE plan' = plan
    BY <2>1
  <2>2. CASE plan' # plan
    <3>1. /\ ~Planned /\ pc = "plan" /\ \A r \in Owed(m.released) : Validates(r)
          /\ plan' = [blob   |-> file.id, bump |-> file.bump,
                      base   |-> [r \in Named |-> VersionOf(r)],
                      target |-> [r \in Named |-> Next1(r)]]
      BY <1>3, <2>2 DEF ValidateAndPlan
    <3>2. m.released = {} /\ Stranded = {}
      BY <3>1, NoItems DEF Follows
    <3>3. Owed(m.released) = Named
      BY <3>2 DEF Owed
    <3> QED
      BY <1>3, <3>1, <3>3 DEF Made
  <2> QED
    BY <2>1, <2>2
<1>4. ASSUME RootSelfdoc PROVE plan' = plan \/ plan' = NoPlan \/ (Marked /\ BeginRun) \/ (Made /\ ValidateAndPlan)
  BY <1>4 DEF RootSelfdoc, fileVars
<1>5. ASSUME PushCandidate PROVE plan' = plan \/ plan' = NoPlan \/ (Marked /\ BeginRun) \/ (Made /\ ValidateAndPlan)
  BY <1>5 DEF PushCandidate, fileVars
<1>6. ASSUME Gate PROVE plan' = plan \/ plan' = NoPlan \/ (Marked /\ BeginRun) \/ (Made /\ ValidateAndPlan)
  BY <1>6 DEF Gate, fileVars
<1>7. ASSUME ArchiveIfComplete PROVE plan' = plan \/ plan' = NoPlan \/ (Marked /\ BeginRun) \/ (Made /\ ValidateAndPlan)
  BY <1>7 DEF ArchiveIfComplete, fileVars
<1>8. ASSUME CommitArchive PROVE plan' = plan \/ plan' = NoPlan \/ (Marked /\ BeginRun) \/ (Made /\ ValidateAndPlan)
  BY <1>8 DEF CommitArchive, fileVars
<1>9. ASSUME ClearPlan PROVE plan' = plan \/ plan' = NoPlan \/ (Marked /\ BeginRun) \/ (Made /\ ValidateAndPlan)
  BY <1>9 DEF ClearPlan
<1>10. ASSUME PushArchive PROVE plan' = plan \/ plan' = NoPlan \/ (Marked /\ BeginRun) \/ (Made /\ ValidateAndPlan)
  BY <1>10 DEF PushArchive, fileVars
<1>11. ASSUME Refused PROVE plan' = plan \/ plan' = NoPlan \/ (Marked /\ BeginRun) \/ (Made /\ ValidateAndPlan)
  BY <1>11 DEF Refused, fileVars
<1>12. ASSUME NEW r \in Releasables, Skip(r) PROVE plan' = plan \/ plan' = NoPlan \/ (Marked /\ BeginRun) \/ (Made /\ ValidateAndPlan)
  BY <1>12 DEF Skip, fileVars
<1>13. ASSUME NEW r \in Releasables, Join(r) PROVE plan' = plan \/ plan' = NoPlan \/ (Marked /\ BeginRun) \/ (Made /\ ValidateAndPlan)
  BY <1>13 DEF Join, fileVars
<1>14. ASSUME NEW r \in Releasables, CommitMember(r) PROVE plan' = plan \/ plan' = NoPlan \/ (Marked /\ BeginRun) \/ (Made /\ ValidateAndPlan)
  BY <1>14 DEF CommitMember, fileVars
<1>15. ASSUME NEW r \in Releasables, RecordPushed(r) PROVE plan' = plan \/ plan' = NoPlan \/ (Marked /\ BeginRun) \/ (Made /\ ValidateAndPlan)
  BY <1>15 DEF RecordPushed, fileVars
<1>16. ASSUME NEW r \in Releasables, AdoptCandidate(r) PROVE plan' = plan \/ plan' = NoPlan \/ (Marked /\ BeginRun) \/ (Made /\ ValidateAndPlan)
  BY <1>16 DEF AdoptCandidate, fileVars
<1>17. ASSUME NEW r \in Releasables, CommitOwed(r) PROVE plan' = plan \/ plan' = NoPlan \/ (Marked /\ BeginRun) \/ (Made /\ ValidateAndPlan)
  BY <1>17 DEF CommitOwed, fileVars
<1>18. ASSUME NEW r \in Releasables, PushAlone(r) PROVE plan' = plan \/ plan' = NoPlan \/ (Marked /\ BeginRun) \/ (Made /\ ValidateAndPlan)
  BY <1>18 DEF PushAlone, fileVars
<1>19. ASSUME NEW r \in Releasables, VerifyAlone(r) PROVE plan' = plan \/ plan' = NoPlan \/ (Marked /\ BeginRun) \/ (Made /\ ValidateAndPlan)
  BY <1>19 DEF VerifyAlone, fileVars
<1>20. ASSUME NEW r \in Releasables, Finalize(r) PROVE plan' = plan \/ plan' = NoPlan \/ (Marked /\ BeginRun) \/ (Made /\ ValidateAndPlan)
  BY <1>20 DEF Finalize, fileVars
<1>21. ASSUME NEW r \in Releasables, Tag(r) PROVE plan' = plan \/ plan' = NoPlan \/ (Marked /\ BeginRun) \/ (Made /\ ValidateAndPlan)
  BY <1>21 DEF Tag, fileVars
<1>22. ASSUME NEW r \in Releasables, PushTag(r) PROVE plan' = plan \/ plan' = NoPlan \/ (Marked /\ BeginRun) \/ (Made /\ ValidateAndPlan)
  BY <1>22 DEF PushTag, fileVars
<1>23. ASSUME NEW r \in Releasables, Publish(r) PROVE plan' = plan \/ plan' = NoPlan \/ (Marked /\ BeginRun) \/ (Made /\ ValidateAndPlan)
  BY <1>23 DEF Publish, fileVars
<1>24. ASSUME WriteFile PROVE plan' = plan \/ plan' = NoPlan \/ (Marked /\ BeginRun) \/ (Made /\ ValidateAndPlan)
  BY <1>24 DEF WriteFile, fileVars
<1>25. ASSUME EditFile PROVE plan' = plan \/ plan' = NoPlan \/ (Marked /\ BeginRun) \/ (Made /\ ValidateAndPlan)
  BY <1>25 DEF EditFile, fileVars
<1>26. ASSUME Work PROVE plan' = plan \/ plan' = NoPlan \/ (Marked /\ BeginRun) \/ (Made /\ ValidateAndPlan)
  BY <1>26 DEF Work, fileVars
<1>27. ASSUME NEW r \in Releasables, ReleaseAlone(r) PROVE plan' = plan \/ plan' = NoPlan \/ (Marked /\ BeginRun) \/ (Made /\ ValidateAndPlan)
  BY <1>27 DEF ReleaseAlone, fileVars
<1>28. ASSUME NEW r \in Releasables, ResumeAlone(r) PROVE plan' = plan \/ plan' = NoPlan \/ (Marked /\ BeginRun) \/ (Made /\ ValidateAndPlan)
  BY <1>28 DEF ResumeAlone, fileVars
<1>29. ASSUME NEW r \in Releasables, Abandon(r) PROVE plan' = plan \/ plan' = NoPlan \/ (Marked /\ BeginRun) \/ (Made /\ ValidateAndPlan)
  BY <1>29 DEF Abandon, fileVars
<1>30. ASSUME NEW r \in Releasables, KilledCommitting(r) PROVE plan' = plan \/ plan' = NoPlan \/ (Marked /\ BeginRun) \/ (Made /\ ValidateAndPlan)
  BY <1>30 DEF KilledCommitting, fileVars
<1>31. ASSUME NEW r \in Releasables, DiscardMember(r) PROVE plan' = plan \/ plan' = NoPlan \/ (Marked /\ BeginRun) \/ (Made /\ ValidateAndPlan)
  BY <1>31 DEF DiscardMember, fileVars
<1>32. ASSUME Stop PROVE plan' = plan \/ plan' = NoPlan \/ (Marked /\ BeginRun) \/ (Made /\ ValidateAndPlan)
  BY <1>32 DEF Stop, fileVars
<1> QED
  BY <1>1, <1>2, <1>3, <1>4, <1>5, <1>6, <1>7, <1>8, <1>9, <1>10, <1>11, <1>12,
     <1>13, <1>14, <1>15, <1>16, <1>17, <1>18, <1>19, <1>20, <1>21, <1>22, <1>23,
     <1>24, <1>25, <1>26, <1>27, <1>28, <1>29, <1>30, <1>31, <1>32
     DEF Next, Batch, Member, People, Faults

\* What each way leaves of the plan's releasables.
LEMMA MarkedKeeps ==
    ASSUME PlanType, Marked
    PROVE  /\ plan'.blob = file.id /\ plan'.bump = plan.bump /\ plan'.base = plan.base
           /\ plan'.target = plan.target
           /\ plan' = [blob |-> plan'.blob, base |-> plan'.base, target |-> plan'.target,
                       bump |-> plan'.bump]
<1> DEFINE a == plan.base
           b == plan.bump
           t == plan.target
<1>1. plan = [blob |-> plan.blob, base |-> a, target |-> t, bump |-> b]
  BY DEF PlanType
<1>2. plan' = [blob |-> file.id, base |-> a, target |-> t, bump |-> b]
  BY <1>1 DEF Marked
<1> QED
  BY <1>2

LEMMA MadeIs ==
    ASSUME FileType, Made, NEW r \in Named
    PROVE  /\ plan'.base[r] = VersionOf(r) /\ plan'.target[r] = Next1(r)
           /\ plan'.bump[r] = file.bump[r] /\ r \in Releasables
           /\ file.bump[r] \in Nat \ {0} /\ Next1(r) = VersionOf(r) + file.bump[r]
           /\ Next1(r) \in Version /\ ~InProgress(r) /\ ~Never(r, Next1(r))
           /\ ltag[r][Next1(r)] = 0
BY DEF Made, FileType, Validates, Next1

LEMMA PlanTypeKept ==
    ASSUME Structure, Plans, Next
    PROVE  PlanType'
<1>1. CASE plan' = plan
  BY <1>1 DEF Plans, PlanType, Items
<1>2. CASE plan' = NoPlan
  BY <1>2 DEF NoPlan, PlanType, Items
<1>3. CASE Marked
  BY <1>3, MarkedKeeps DEF Plans, PlanType, Items, Structure, TypeOK, FileType
<1>4. CASE Made
  <2>1. FileType /\ file.id \in Nat \X Nat /\ plan'.blob = file.id
    BY <1>4 DEF Structure, TypeOK, FileType, Made
  <2>2. DOMAIN plan'.bump = Named /\ DOMAIN plan'.target = Named
    BY <1>4 DEF Made, Named
  <2>3. plan' = [blob |-> plan'.blob, base |-> plan'.base, target |-> plan'.target,
                 bump |-> plan'.bump]
    BY <1>4 DEF Made
  <2>4. ASSUME NEW r \in Named
        PROVE  /\ r \in Releasables /\ plan'.base[r] \in 0..MaxVersion /\ plan'.target[r] \in Version
               /\ plan'.bump[r] \in Nat \ {0} /\ plan'.target[r] = plan'.base[r] + plan'.bump[r]
    <3>1. VersionOf(r) \in 0..MaxVersion
      <4>1. hist \in Seq(CommitType) /\ Len(hist) \in Nat
        BY DEF Structure, TypeOK
      <4>2. Len(hist) \in 0..Len(hist)
        BY <4>1
      <4> QED
        BY <4>1, <4>2, VersionType DEF VersionOf
    <3> QED
      BY <1>4, <2>1, <3>1, MadeIs
  <2> QED
    BY <2>1, <2>2, <2>3, <2>4 DEF PlanType, Items
<1> QED
  BY <1>1, <1>2, <1>3, <1>4, PlanSteps DEF Plans

-----------------------------------------------------------------------------
(* A run follows its plan. *)

LEMMA FollowsNowhere ==
    ASSUME pc' \in {"idle", "alone", "clear", "pushfile"}
    PROVE  Follows'
BY DEF Follows

LEMMA FollowsOn ==
    ASSUME Follows, pc \in {"commit", "record", "complete"}, pc' \in {"record", "complete"},
           plan' = plan, file' = file
    PROVE  Follows'
<1>1. file # NoFile /\ Matches /\ ThisFile
  BY DEF Follows
<1> QED
  BY <1>1 DEF Follows, Matches, ThisFile

\* Until it completes, a run knows of every releasable it names.
LEMMA FollowsNamed ==
    ASSUME pc' \in {"docs", "commit"}, Matches', ThisFile', file' # NoFile,
           (m.queue \subseteq Named)',
           \A r \in Named' : ~PastVerdict(st'[r]) /\ (ItemReleased(r)' => r \in m'.released)
    PROVE  Follows'
BY DEF Follows

LEMMA FollowsKept ==
    ASSUME Structure, Structure', Course, Turn, Sound, Plans, Next
    PROVE  Follows'
<1>f. Follows /\ PlanType /\ FileType /\ m \in RunType
  BY DEF Plans, Structure, TypeOK
<1>s. /\ st \in [Releasables -> StateType] /\ ~PastVerdict(NoState)
      /\ \A r \in Named : r \in Releasables
  BY DEF Structure, TypeOK, FileType, PastVerdict, NoState
<1>r. ASSUME NEW r \in Releasables, VersionOf(r)' = VersionOf(r), plan'.target = plan.target,
             ltag' = ltag, otag' = otag
      PROVE  ItemReleased(r)' = ItemReleased(r)
  BY <1>r DEF ItemReleased
<1>b. ASSUME NEW r \in Releasables, Beside(r) PROVE VersionOf(r)' = VersionOf(r)
  BY <1>b, BesideKeeps
<1>c. ASSUME NEW k \in Kinds \ {"bump"}, hist' = hist \/ hist' = Commit(k, "", 0)
      PROVE  \A r \in Releasables : Beside(r)
  <2>1. hist \in Seq(CommitType) /\ 0 \in 0..MaxVersion
    BY BatchAssumption DEF Structure, TypeOK
  <2>2. hist' = hist \/ Topped([kind |-> k, of |-> "", ver |-> 0])
    BY <1>c, <2>1, Grown
  <2> QED
    BY <2>2 DEF Beside, Topped
<1>d. ASSUME plan' = plan, st' = st, ltag' = ltag, otag' = otag, \A q \in Releasables : Beside(q)
      PROVE  Finished' <=> Finished
  <2>1. Items' = Items /\ \A q \in Items : q \in Releasables
    BY <1>f, <1>d DEF PlanType, Items
  <2>2. \A q \in Items : ItemReleased(q)' = ItemReleased(q)
    BY <1>b, <1>d, <1>r, <2>1
  <2>3. Released' = Released
    BY <2>1, <2>2 DEF Released
  <2> QED
    BY <1>d, <2>1, <2>3 DEF Finished, InProgress
<1>1. ASSUME FinishPlan PROVE Follows'
  <2>1. CASE pc' = pc
    BY <1>1, <2>1, FollowsNowhere DEF FinishPlan, Idle
  <2>2. CASE pc' # pc
    <3>1. /\ pc' = "archive" /\ plan' = plan /\ file' = file /\ hist' = hist /\ st' = st
          /\ ltag' = ltag /\ otag' = otag /\ file # NoFile /\ Matches /\ ThisFile /\ Finished
      BY <1>1, <2>2 DEF FinishPlan, Go, Finished, repoVars, tagVars
    <3>2. Matches' /\ ThisFile' /\ file' # NoFile
      BY <3>1 DEF Matches, ThisFile
    <3>3. Finished'
      BY <1>d, <3>1 DEF Beside
    <3> QED
      BY <3>1, <3>2, <3>3 DEF Follows
  <2> QED
    BY <2>1, <2>2
<1>2. ASSUME BeginRun PROVE Follows'
  <2>1. CASE pc' = pc
    BY <1>2, <2>1, FollowsNowhere DEF BeginRun, Idle
  <2>2. CASE pc' # pc
    <3>1. /\ pc' = "plan" /\ m'.queue = Named /\ m'.released = Released /\ Sealed = {}
          /\ file' = file /\ hist' = hist /\ st' = st /\ ltag' = ltag /\ otag' = otag
          /\ file # NoFile
      BY <1>2, <2>2 DEF BeginRun, Go, NoRun, repoVars, tagVars
    <3>2. Named' = Named /\ file' # NoFile
      BY <3>1 DEF Named
    <3>3. CASE ~Planned
      <4>1. plan' = plan /\ Released = {}
        BY <1>2, <3>3, NoItems DEF BeginRun
      <4> QED
        BY <3>1, <3>2, <3>3, <4>1 DEF Follows, Planned
    <3>4. CASE Planned
      <4>1. Marked /\ Matches
        BY <1>2, <3>4 DEF BeginRun, Marked
      <4>2. plan'.blob = file.id /\ plan'.bump = plan.bump /\ plan'.target = plan.target
        BY <1>f, <4>1, MarkedKeeps
      <4>3. Matches' /\ ThisFile'
        BY <3>1, <4>1, <4>2 DEF Matches, ThisFile
      <4>4. Named = Items
        BY <1>f, <4>1 DEF Matches, PlanType, Named, Items
      <4>5. ASSUME NEW r \in Named
            PROVE  ~PastVerdict(st'[r]) /\ (ItemReleased(r)' => r \in m'.released)
        <5>1. ~PastVerdict(st[r])
          BY <1>s, <3>1, <4>4 DEF Sealed, InProgress
        <5>2. ItemReleased(r)' = ItemReleased(r)
          BY <3>1, <4>2 DEF ItemReleased, VersionOf, VersionAt
        <5> QED
          BY <3>1, <4>4, <5>1, <5>2 DEF Released
      <4>6. ~Planned' => m'.released = {}
        <5>1. ~Planned' => Items = {}
          BY <4>2 DEF Planned, NoPlan, Items
        <5> QED
          BY <3>1, <5>1 DEF Released
      <4> QED
        BY <3>1, <3>2, <4>3, <4>5, <4>6 DEF Follows
    <3> QED
      BY <3>3, <3>4
  <2> QED
    BY <2>1, <2>2
<1>3. ASSUME ValidateAndPlan PROVE Follows'
  <2>1. CASE pc' = "idle"
    BY <2>1, FollowsNowhere
  <2>2. CASE pc' # "idle"
    <3>1. /\ pc = "plan" /\ pc' = "docs" /\ m' = m /\ file' = file /\ hist' = hist /\ st' = st
          /\ ltag' = ltag /\ otag' = otag
      BY <1>3, <2>2 DEF ValidateAndPlan, Go, End, repoVars, tagVars
    <3>2. file # NoFile /\ m.queue \subseteq Named /\ Named' = Named
      BY <1>f, <3>1 DEF Follows, Named
    <3>3. CASE Planned
      <4>1. plan' = plan
        BY <1>3, <2>2, <3>3 DEF ValidateAndPlan, End
      <4>2. Matches' /\ ThisFile'
        BY <1>f, <3>1, <3>3, <4>1 DEF Follows, Matches, ThisFile
      <4>3. ASSUME NEW r \in Named
            PROVE  ~PastVerdict(st'[r]) /\ (ItemReleased(r)' => r \in m'.released)
        <5>1. ~PastVerdict(st[r]) /\ (ItemReleased(r) => r \in m.released)
          BY <1>f, <3>1, <3>3 DEF Follows
        <5>2. ItemReleased(r)' = ItemReleased(r)
          BY <3>1, <4>1 DEF ItemReleased, VersionOf, VersionAt
        <5> QED
          BY <3>1, <5>1, <5>2
      <4> QED
        BY <3>1, <3>2, <4>2, <4>3, FollowsNamed
    <3>4. CASE ~Planned
      <4>1. Made
        <5>1. /\ \A r \in Owed(m.released) : Validates(r)
              /\ plan' = [blob   |-> file.id, bump |-> file.bump,
                          base   |-> [r \in Named |-> VersionOf(r)],
                          target |-> [r \in Named |-> Next1(r)]]
          BY <1>3, <2>2, <3>4 DEF ValidateAndPlan, End
        <5>2. Owed(m.released) = Named
          BY <1>f, <3>1, <3>4, NoItems DEF Follows, Owed
        <5> QED
          BY <3>4, <5>1, <5>2 DEF Made
      <4>2. Matches' /\ ThisFile'
        BY <3>1, <4>1 DEF Made, Matches, ThisFile
      <4>3. ASSUME NEW r \in Named
            PROVE  ~PastVerdict(st'[r]) /\ (ItemReleased(r)' => r \in m'.released)
        <5>1. ~InProgress(r) /\ ltag[r][Next1(r)] = 0 /\ plan'.target[r] = Next1(r)
          BY <1>f, <4>1, MadeIs
        <5>2. ~PastVerdict(st'[r])
          BY <1>s, <3>1, <5>1 DEF InProgress
        <5>3. ~ItemReleased(r)'
          BY <3>1, <5>1 DEF ItemReleased
        <5> QED
          BY <5>2, <5>3
      <4> QED
        BY <3>1, <3>2, <4>2, <4>3, FollowsNamed
    <3> QED
      BY <3>3, <3>4
  <2> QED
    BY <2>1, <2>2
<1>4. ASSUME RootSelfdoc PROVE Follows'
  <2>1. /\ pc = "docs" /\ pc' = "commit" /\ m'.queue = m.queue /\ m'.released = m.released
        /\ file' = file /\ plan' = plan /\ st' = st /\ ltag' = ltag /\ otag' = otag
    BY <1>4, <1>f DEF RootSelfdoc, Go, Left, RunType, tagVars, fileVars
  <2>2. \A r \in Releasables : Beside(r)
    <3>1. hist' = hist \/ hist' = Commit("docs", "", 0)
      BY <1>4 DEF RootSelfdoc
    <3> QED
      BY <1>c, <3>1 DEF Kinds
  <2>3. Matches' /\ ThisFile' /\ file' # NoFile /\ Named' = Named /\ (m.queue \subseteq Named)'
    BY <1>f, <2>1 DEF Follows, Matches, ThisFile, Named
  <2>4. ASSUME NEW q \in Named
        PROVE  ~PastVerdict(st'[q]) /\ (ItemReleased(q)' => q \in m'.released)
    <3>1. ~PastVerdict(st[q]) /\ (ItemReleased(q) => q \in m.released) /\ q \in Releasables
      BY <1>f, <1>s, <2>1 DEF Follows
    <3>2. VersionOf(q)' = VersionOf(q)
      BY <1>b, <2>2, <3>1
    <3>3. ItemReleased(q)' = ItemReleased(q)
      BY <1>r, <2>1, <3>1, <3>2
    <3> QED
      BY <2>1, <3>1, <3>3
  <2> QED
    BY <2>1, <2>3, <2>4, FollowsNamed
<1>5. ASSUME PushCandidate PROVE Follows'
  BY <1>5, <1>f, FollowsOn DEF PushCandidate, Go, fileVars
<1>6. ASSUME Gate PROVE Follows'
  BY <1>6, <1>f, FollowsOn DEF Gate, Go, fileVars
<1>7. ASSUME ArchiveIfComplete PROVE Follows'
  <2>1. CASE pc' = "idle"
    BY <2>1, FollowsNowhere
  <2>2. CASE pc' # "idle"
    <3>1. /\ pc = "complete" /\ pc' = "archive" /\ plan' = plan /\ file' = file /\ hist' = hist
          /\ st' = st /\ ltag' = ltag /\ otag' = otag /\ Finished
      BY <1>7, <2>2 DEF ArchiveIfComplete, Go, End, repoVars, tagVars, fileVars
    <3>2. Matches' /\ ThisFile' /\ file' # NoFile
      BY <1>f, <3>1 DEF Follows, Matches, ThisFile
    <3>3. Finished'
      BY <1>d, <3>1 DEF Beside
    <3> QED
      BY <3>1, <3>2, <3>3 DEF Follows
  <2> QED
    BY <2>1, <2>2
<1>8. ASSUME CommitArchive PROVE Follows'
  BY <1>8, FollowsNowhere DEF CommitArchive, Go
<1>9. ASSUME ClearPlan PROVE Follows'
  BY <1>9, FollowsNowhere DEF ClearPlan, Go
<1>10. ASSUME PushArchive PROVE Follows'
  BY <1>10, FollowsNowhere DEF PushArchive, End
<1>11. ASSUME Refused PROVE Follows'
  BY <1>11, FollowsNowhere DEF Refused, End
<1>12. ASSUME NEW r \in Releasables, Skip(r) PROVE Follows'
  <2>1. /\ pc = "commit" /\ pc' = "commit" /\ m'.queue \subseteq m.queue /\ m'.released = m.released
        /\ file' = file /\ plan' = plan /\ st' = st /\ ltag' = ltag /\ otag' = otag
    BY <1>12, <1>f DEF Skip, Committing, Advanced, RunType, tagVars, fileVars
  <2>2. \A q \in Releasables : Beside(q)
    BY <1>12 DEF Skip, repoVars, Beside
  <2>3. Matches' /\ ThisFile' /\ file' # NoFile /\ Named' = Named /\ (m.queue \subseteq Named)'
    BY <1>f, <2>1 DEF Follows, Matches, ThisFile, Named
  <2>4. ASSUME NEW q \in Named
        PROVE  ~PastVerdict(st'[q]) /\ (ItemReleased(q)' => q \in m'.released)
    <3>1. ~PastVerdict(st[q]) /\ (ItemReleased(q) => q \in m.released) /\ q \in Releasables
      BY <1>f, <1>s, <2>1 DEF Follows
    <3>2. VersionOf(q)' = VersionOf(q)
      BY <1>b, <2>2, <3>1
    <3>3. ItemReleased(q)' = ItemReleased(q)
      BY <1>r, <2>1, <3>1, <3>2
    <3> QED
      BY <2>1, <3>1, <3>3
  <2> QED
    BY <2>1, <2>3, <2>4, FollowsNamed
<1>13. ASSUME NEW r \in Releasables, Join(r) PROVE Follows'
  <2>1. /\ pc = "commit" /\ pc' = "commit" /\ m'.queue \subseteq m.queue /\ m'.released = m.released
        /\ file' = file /\ plan' = plan /\ st' = st /\ ltag' = ltag /\ otag' = otag
    BY <1>13, <1>f DEF Join, Committing, Joined, RunType, tagVars, fileVars
  <2>2. \A q \in Releasables : Beside(q)
    BY <1>13 DEF Join, repoVars, Beside
  <2>3. Matches' /\ ThisFile' /\ file' # NoFile /\ Named' = Named /\ (m.queue \subseteq Named)'
    BY <1>f, <2>1 DEF Follows, Matches, ThisFile, Named
  <2>4. ASSUME NEW q \in Named
        PROVE  ~PastVerdict(st'[q]) /\ (ItemReleased(q)' => q \in m'.released)
    <3>1. ~PastVerdict(st[q]) /\ (ItemReleased(q) => q \in m.released) /\ q \in Releasables
      BY <1>f, <1>s, <2>1 DEF Follows
    <3>2. VersionOf(q)' = VersionOf(q)
      BY <1>b, <2>2, <3>1
    <3>3. ItemReleased(q)' = ItemReleased(q)
      BY <1>r, <2>1, <3>1, <3>2
    <3> QED
      BY <2>1, <3>1, <3>3
  <2> QED
    BY <2>1, <2>3, <2>4, FollowsNamed
<1>14. ASSUME NEW r \in Releasables, CommitMember(r) PROVE Follows'
  <2>1. /\ pc = "commit" /\ pc' = "commit" /\ m'.queue \subseteq m.queue /\ m'.released = m.released
        /\ file' = file /\ plan' = plan /\ ltag' = ltag /\ otag' = otag /\ Validates(r)
        /\ hist' = Commit("bump", r, Next1(r)) /\ st'[r].stage = "begun"
        /\ \A q \in Releasables \ {r} : st'[q] = st[q]
    BY <1>14, <1>f, <1>s DEF CommitMember, Committing, Joined, Left, RunType, tagVars, fileVars, NoState
  <2>2. Next1(r) \in Version /\ ltag[r][Next1(r)] = 0
    BY <2>1 DEF Validates
  <2>3. Topped([kind |-> "bump", of |-> r, ver |-> Next1(r)])
    <3>1. Next1(r) \in 0..MaxVersion
      BY <2>2 DEF Version
    <3>2. hist \in Seq(CommitType)
      BY DEF Structure, TypeOK
    <3> QED
      BY <2>1, <3>1, <3>2, Grown DEF Kinds
  <2>4. VersionOf(r)' = Next1(r) /\ \A q \in Releasables \ {r} : VersionOf(q)' = VersionOf(q)
    <3>1. [kind |-> "bump", of |-> r, ver |-> Next1(r)] \in CommitType
      BY <2>3 DEF Topped
    <3> QED
      BY <2>3, <3>1, VersionSteps
  <2>5. Matches' /\ ThisFile' /\ file' # NoFile /\ Named' = Named /\ (m.queue \subseteq Named)'
    BY <1>f, <2>1 DEF Follows, Matches, ThisFile, Named
  <2>6. ASSUME NEW q \in Named
        PROVE  ~PastVerdict(st'[q]) /\ (ItemReleased(q)' => q \in m'.released)
    <3>1. ~PastVerdict(st[q]) /\ (ItemReleased(q) => q \in m.released) /\ q \in Releasables
      BY <1>f, <1>s, <2>1 DEF Follows
    <3>2. CASE q = r
      <4>1. ~PastVerdict(st'[r])
        BY <2>1 DEF PastVerdict
      <4>2. ~ItemReleased(r)'
        <5>1. ItemReleased(r)' => ltag[r][plan.target[r]] # 0 /\ Next1(r) = plan.target[r]
          BY <2>1, <2>4 DEF ItemReleased
        <5> QED
          BY <2>2, <5>1
      <4> QED
        BY <3>2, <4>1, <4>2
    <3>3. CASE q # r
      BY <1>r, <2>1, <2>4, <3>1, <3>3
    <3> QED
      BY <3>2, <3>3
  <2> QED
    BY <2>1, <2>5, <2>6, FollowsNamed
<1>15. ASSUME NEW r \in Releasables, RecordPushed(r) PROVE Follows'
  BY <1>15, <1>f, FollowsOn DEF RecordPushed, fileVars
<1>16. ASSUME NEW r \in Releasables, AdoptCandidate(r) PROVE Follows'
  BY <1>16, <1>f, FollowsOn DEF AdoptCandidate, Completing, fileVars
<1>17. ASSUME NEW r \in Releasables, CommitOwed(r) PROVE Follows'
  BY <1>17, <1>f, FollowsOn, FollowsNowhere DEF CommitOwed, Working, Completing, Alone, fileVars
<1>18. ASSUME NEW r \in Releasables, PushAlone(r) PROVE Follows'
  BY <1>18, FollowsNowhere DEF PushAlone, Alone
<1>19. ASSUME NEW r \in Releasables, VerifyAlone(r) PROVE Follows'
  BY <1>19, FollowsNowhere DEF VerifyAlone, Alone
<1>20. ASSUME NEW r \in Releasables, Finalize(r) PROVE Follows'
  BY <1>20, <1>f, FollowsOn, FollowsNowhere DEF Finalize, At, Working, Completing, Alone, fileVars
<1>21. ASSUME NEW r \in Releasables, Tag(r) PROVE Follows'
  BY <1>21, <1>f, FollowsOn, FollowsNowhere DEF Tag, At, Working, Completing, Alone, fileVars
<1>22. ASSUME NEW r \in Releasables, PushTag(r) PROVE Follows'
  BY <1>22, <1>f, FollowsOn, FollowsNowhere DEF PushTag, At, Working, Completing, Alone, fileVars
<1>23. ASSUME NEW r \in Releasables, Publish(r) PROVE Follows'
  <2>1. /\ pc' = "idle" \/ (pc = "complete" /\ pc' = pc)
        /\ plan' = plan /\ file' = file
    BY <1>23 DEF Publish, At, Working, Completing, End, fileVars
  <2> QED
    BY <1>f, <2>1, FollowsOn, FollowsNowhere
<1>24. ASSUME WriteFile PROVE Follows'
  BY <1>24, FollowsNowhere DEF WriteFile, Idle
<1>25. ASSUME EditFile PROVE Follows'
  BY <1>25, FollowsNowhere DEF EditFile, Deed, Idle
<1>26. ASSUME Work PROVE Follows'
  <2>1. /\ pc' = pc /\ m' = m /\ file' = file /\ plan' = plan /\ st' = st /\ ltag' = ltag
        /\ otag' = otag
    BY <1>26 DEF Work, tagVars, fileVars
  <2>2. \A q \in Releasables : Beside(q)
    <3>1. hist' = Commit("work", "", 0)
      BY <1>26 DEF Work
    <3> QED
      BY <1>c, <3>1 DEF Kinds
  <2>3. \A q \in Releasables : ItemReleased(q)' = ItemReleased(q)
    BY <1>b, <1>r, <2>1, <2>2
  <2>4. (Matches' <=> Matches) /\ (ThisFile' <=> ThisFile) /\ Named' = Named /\ (Planned' <=> Planned)
    BY <2>1 DEF Matches, ThisFile, Named, Planned
  <2>5. Finished' <=> Finished
    BY <1>d, <2>1, <2>2
  <2> QED
    BY <1>f, <1>s, <2>1, <2>3, <2>4, <2>5 DEF Follows
<1>27. ASSUME NEW r \in Releasables, ReleaseAlone(r) PROVE Follows'
  BY <1>27, FollowsNowhere DEF ReleaseAlone, Go
<1>28. ASSUME NEW r \in Releasables, ResumeAlone(r) PROVE Follows'
  BY <1>28, FollowsNowhere DEF ResumeAlone, Go
<1>29. ASSUME NEW r \in Releasables, Abandon(r) PROVE Follows'
  BY <1>29, FollowsNowhere DEF Abandon, Deed, Idle
<1>30. ASSUME NEW r \in Releasables, KilledCommitting(r) PROVE Follows'
  BY <1>30, FollowsNowhere DEF KilledCommitting, End
<1>31. ASSUME NEW r \in Releasables, DiscardMember(r) PROVE Follows'
  BY <1>31, FollowsNowhere DEF DiscardMember, End
<1>32. ASSUME Stop PROVE Follows'
  BY <1>32, FollowsNowhere DEF Stop, End
<1> QED
  BY <1>1, <1>2, <1>3, <1>4, <1>5, <1>6, <1>7, <1>8, <1>9, <1>10, <1>11, <1>12,
     <1>13, <1>14, <1>15, <1>16, <1>17, <1>18, <1>19, <1>20, <1>21, <1>22, <1>23,
     <1>24, <1>25, <1>26, <1>27, <1>28, <1>29, <1>30, <1>31, <1>32
     DEF Next, Batch, Member, People, Faults

-----------------------------------------------------------------------------
(* What nobody touched is at the version the plan found or at the one it plans. *)

\* The versions a releasable is brought to: by hand, as its state has it, or
\* as a batch that joins it makes it.
Joins(r) == pc = "commit" /\ r \in Named \ m.released /\ Validates(r)
Reaches(r, v) ==
    r \in touched' \/ (InProgress(r) /\ v = st[r].ver) \/ (Joins(r) /\ v = Next1(r))
Reached ==
    /\ touched \subseteq touched' \/ (Made /\ ValidateAndPlan)
    /\ \A r \in Releasables :
          /\ st'[r] # NoState => Reaches(r, st'[r].ver)
          /\ \A c \in CommitType : Topped(c) /\ c.kind = "bump" /\ c.of = r => Reaches(r, c.ver)

LEMMA ReachedPlain ==
    ASSUME hist' = hist \/ \E c \in CommitType : Topped(c) /\ c.kind # "bump",
           Len(hist) \in Nat, touched \subseteq touched',
           \A r \in Releasables : st'[r] # NoState => st[r] # NoState /\ st'[r].ver = st[r].ver
    PROVE  Reached
<1>1. \A c \in CommitType : Topped(c) => c.kind # "bump"
  BY DEF Topped
<1> QED
  BY <1>1 DEF Reached, Reaches, InProgress

LEMMA ReachedBy ==
    ASSUME NEW r \in Releasables, NEW v \in 0..MaxVersion, hist \in Seq(CommitType),
           hist' = hist \/ hist' = Commit("bump", r, v), touched \subseteq touched',
           st'[r] # NoState => Reaches(r, st'[r].ver), Reaches(r, v),
           \A q \in Releasables \ {r} : st'[q] = st[q]
    PROVE  Reached
<1>1. Len(hist) \in Nat
  OBVIOUS
<1>2. ASSUME NEW c \in CommitType, Topped(c), NEW q \in Releasables, c.of = q
      PROVE  Reaches(q, c.ver)
  <2>1. hist' # hist
    BY <1>1, <1>2 DEF Topped
  <2>2. Topped([kind |-> "bump", of |-> r, ver |-> v])
    BY <2>1, Grown DEF Kinds
  <2>3. c = [kind |-> "bump", of |-> r, ver |-> v]
    BY <1>1, <1>2, <2>2 DEF Topped
  <2> QED
    BY <1>2, <2>3
<1>3. \A q \in Releasables : st'[q] # NoState => Reaches(q, st'[q].ver)
  BY DEF Reaches, InProgress
<1> QED
  BY <1>2, <1>3 DEF Reached

LEMMA ReachedHolds ==
    ASSUME Structure, Course, Turn, Held, Carried, Follows, Next
    PROVE  Reached
<1>u. /\ hist \in Seq(CommitType) /\ 0 \in 0..MaxVersion /\ Len(hist) \in Nat
      /\ st \in [Releasables -> StateType] /\ \A r \in Releasables : st[r] \in StateType
  BY BatchAssumption DEF Structure, TypeOK
<1>t. ASSUME NEW k \in Kinds \ {"bump"}, NEW q \in Releasables \cup {""}, NEW v \in 0..MaxVersion,
             hist' = hist \/ hist' = Commit(k, q, v)
      PROVE  hist' = hist \/ \E c \in CommitType : Topped(c) /\ c.kind # "bump"
  <2>1. hist' = hist \/ Topped([kind |-> k, of |-> q, ver |-> v])
    BY <1>t, <1>u, Grown
  <2> QED
    BY <2>1 DEF Topped
<1>p. ASSUME hist' = TakenBack, touched' = touched,
             \A q \in Releasables : st'[q] # NoState => st'[q] = st[q]
      PROVE  Reached
  <2>1. \A c \in CommitType : ~Topped(c)
    <3>1. Len(hist) \in Nat \ {0}
      BY <1>u DEF Structure, Grounded
    <3>2. Len(hist') = Len(hist) - 1
      BY <1>u, <1>p, <3>1, Shrunk DEF Peeled
    <3> QED
      BY <3>1, <3>2 DEF Topped
  <2> QED
    BY <1>p, <2>1 DEF Reached, Reaches, InProgress
<1>s. ASSUME st' = st
      PROVE  \A q \in Releasables : st'[q] # NoState => st[q] # NoState /\ st'[q].ver = st[q].ver
  BY <1>s
<1>1. ASSUME FinishPlan PROVE Reached
  <2>1. hist' = hist /\ st' = st /\ touched' = touched
    BY <1>1 DEF FinishPlan, repoVars
  <2> QED
    BY <1>s, <1>u, <2>1, ReachedPlain
<1>2. ASSUME BeginRun PROVE Reached
  <2>1. hist' = hist /\ st' = st /\ touched' = touched
    BY <1>2 DEF BeginRun, repoVars
  <2> QED
    BY <1>s, <1>u, <2>1, ReachedPlain
<1>3. ASSUME ValidateAndPlan PROVE Reached
  <2>1. st' = st /\ hist' = hist
    BY <1>3 DEF ValidateAndPlan, repoVars
  <2>2. CASE touched' = touched
    BY <1>s, <1>u, <2>1, <2>2, ReachedPlain
  <2>3. CASE touched' # touched
    <3>2. /\ ~Planned /\ pc = "plan" /\ \A r \in Owed(m.released) : Validates(r)
          /\ plan' = [blob   |-> file.id, bump |-> file.bump,
                      base   |-> [r \in Named |-> VersionOf(r)],
                      target |-> [r \in Named |-> Next1(r)]]
      BY <1>3, <2>3 DEF ValidateAndPlan
    <3>3. Owed(m.released) = Named
      BY <3>2, NoItems DEF Follows, Owed
    <3>4. Made
      BY <3>2, <3>3 DEF Made
    <3>5. \A c \in CommitType : ~Topped(c)
      BY <1>u, <2>1 DEF Topped
    <3> QED
      BY <1>3, <2>1, <3>4, <3>5 DEF Reached, Reaches, InProgress
  <2> QED
    BY <2>2, <2>3
<1>4. ASSUME RootSelfdoc PROVE Reached
  <2>1. (hist' = hist \/ hist' = Commit("docs", "", 0)) /\ st' = st /\ touched' = touched
    BY <1>4 DEF RootSelfdoc
  <2> QED
    BY <1>s, <1>t, <1>u, <2>1, ReachedPlain DEF Kinds
<1>5. ASSUME PushCandidate PROVE Reached
  <2>1. hist' = hist /\ st' = st /\ touched' = touched
    BY <1>5 DEF PushCandidate, repoVars
  <2> QED
    BY <1>s, <1>u, <2>1, ReachedPlain
<1>6. ASSUME Gate PROVE Reached
  <2>1. hist' = hist /\ st' = st /\ touched' = touched
    BY <1>6 DEF Gate, repoVars
  <2> QED
    BY <1>s, <1>u, <2>1, ReachedPlain
<1>7. ASSUME ArchiveIfComplete PROVE Reached
  <2>1. hist' = hist /\ st' = st /\ touched' = touched
    BY <1>7 DEF ArchiveIfComplete, repoVars
  <2> QED
    BY <1>s, <1>u, <2>1, ReachedPlain
<1>8. ASSUME CommitArchive PROVE Reached
  <2>1. (hist' = hist \/ hist' = Commit("filed", "", 0)) /\ st' = st /\ touched' = touched
    BY <1>8 DEF CommitArchive
  <2> QED
    BY <1>s, <1>t, <1>u, <2>1, ReachedPlain DEF Kinds
<1>9. ASSUME ClearPlan PROVE Reached
  <2>1. hist' = hist /\ st' = st /\ touched' = touched
    BY <1>9 DEF ClearPlan, repoVars
  <2> QED
    BY <1>s, <1>u, <2>1, ReachedPlain
<1>10. ASSUME PushArchive PROVE Reached
  <2>1. hist' = hist /\ st' = st /\ touched' = touched
    BY <1>10 DEF PushArchive, repoVars
  <2> QED
    BY <1>s, <1>u, <2>1, ReachedPlain
<1>11. ASSUME Refused PROVE Reached
  <2>1. hist' = hist /\ st' = st /\ touched' = touched
    BY <1>11 DEF Refused, repoVars
  <2> QED
    BY <1>s, <1>u, <2>1, ReachedPlain
<1>12. ASSUME NEW r \in Releasables, Skip(r) PROVE Reached
  <2>1. hist' = hist /\ st' = st /\ touched' = touched
    BY <1>12 DEF Skip, repoVars
  <2> QED
    BY <1>s, <1>u, <2>1, ReachedPlain
<1>13. ASSUME NEW r \in Releasables, Join(r) PROVE Reached
  <2>1. hist' = hist /\ st' = st /\ touched' = touched
    BY <1>13 DEF Join, repoVars
  <2> QED
    BY <1>s, <1>u, <2>1, ReachedPlain
<1>14. ASSUME NEW r \in Releasables, CommitMember(r) PROVE Reached
  <2>1. /\ Joins(r) /\ hist' = Commit("bump", r, Next1(r)) /\ touched' = touched
        /\ st'[r].ver = Next1(r) /\ \A q \in Releasables \ {r} : st'[q] = st[q]
    BY <1>14, <1>u DEF CommitMember, Committing, First, Follows, Joins, NoState
  <2>2. Next1(r) \in 0..MaxVersion
    BY <2>1 DEF Joins, Validates, Version
  <2> QED
    BY <1>u, <2>1, <2>2, ReachedBy DEF Reaches
<1>15. ASSUME NEW r \in Releasables, RecordPushed(r) PROVE Reached
  <2>1. hist' = hist /\ touched' = touched /\ st[r] # NoState
        /\ st' = [st EXCEPT ![r].rc = m.cand, ![r].stage = "pushed"]
    BY <1>15 DEF RecordPushed, repoVars, At, Completing, Alone, First, Held, InProgress, NoState
  <2>2. st'[r].ver = st[r].ver /\ \A q \in Releasables \ {r} : st'[q] = st[q]
    BY <1>u, <2>1 DEF StateType
  <2> QED
    BY <1>u, <2>1, <2>2, ReachedPlain
<1>16. ASSUME NEW r \in Releasables, AdoptCandidate(r) PROVE Reached
  <2>1. hist' = hist /\ touched' = touched /\ st[r] # NoState
        /\ st' = [st EXCEPT ![r].stage = "verified"]
    BY <1>16 DEF AdoptCandidate, repoVars, At, Completing, Alone, First, Held, InProgress, NoState
  <2>2. st'[r].ver = st[r].ver /\ \A q \in Releasables \ {r} : st'[q] = st[q]
    BY <1>u, <2>1 DEF StateType
  <2> QED
    BY <1>u, <2>1, <2>2, ReachedPlain
<1>17. ASSUME NEW r \in Releasables, CommitOwed(r) PROVE Reached
  <2>1. /\ hist' = hist \/ hist' = Commit("bump", r, st[r].ver)
        /\ touched' = touched /\ st' = [st EXCEPT ![r].committed = TRUE]
    BY <1>17 DEF CommitOwed
  <2>2. InProgress(r)
    BY <1>17 DEF CommitOwed, Working, Completing, Alone, First, Held
  <2>3. st'[r].ver = st[r].ver /\ st[r].ver \in 0..MaxVersion /\ \A q \in Releasables \ {r} : st'[q] = st[q]
    BY <1>u, <2>1 DEF StateType
  <2> QED
    BY <1>u, <2>1, <2>2, <2>3, ReachedBy DEF Reaches
<1>18. ASSUME NEW r \in Releasables, PushAlone(r) PROVE Reached
  <2>1. hist' = hist /\ touched' = touched /\ st[r] # NoState
        /\ st' = [st EXCEPT ![r].rc = m.tip, ![r].stage = "pushed"]
    BY <1>18 DEF PushAlone, repoVars, At, Completing, Alone, First, Held, InProgress, NoState
  <2>2. st'[r].ver = st[r].ver /\ \A q \in Releasables \ {r} : st'[q] = st[q]
    BY <1>u, <2>1 DEF StateType
  <2> QED
    BY <1>u, <2>1, <2>2, ReachedPlain
<1>19. ASSUME NEW r \in Releasables, VerifyAlone(r) PROVE Reached
  <2>1. hist' = hist /\ touched' = touched /\ st[r] # NoState
        /\ st' = [st EXCEPT ![r].stage = "verified"]
    BY <1>19 DEF VerifyAlone, repoVars, At, Completing, Alone, First, Held, InProgress, NoState
  <2>2. st'[r].ver = st[r].ver /\ \A q \in Releasables \ {r} : st'[q] = st[q]
    BY <1>u, <2>1 DEF StateType
  <2> QED
    BY <1>u, <2>1, <2>2, ReachedPlain
<1>20. ASSUME NEW r \in Releasables, Finalize(r) PROVE Reached
  <2>1. /\ hist' = Commit("final", r, st[r].ver) /\ touched' = touched
        /\ st' = [st EXCEPT ![r].stage = "finalized"] /\ st[r].stage = "verified"
    BY <1>20 DEF Finalize, At
  <2>2. st'[r].ver = st[r].ver /\ st[r].ver \in 0..MaxVersion /\ st[r] # NoState
        /\ \A q \in Releasables \ {r} : st'[q] = st[q]
    BY <1>u, <2>1 DEF StateType, NoState
  <2> QED
    BY <1>t, <1>u, <2>1, <2>2, ReachedPlain DEF Kinds
<1>21. ASSUME NEW r \in Releasables, Tag(r) PROVE Reached
  <2>1. hist' = hist /\ touched' = touched /\ st[r] # NoState
        /\ st' = [st EXCEPT ![r].stage = "tagged"]
    BY <1>21 DEF Tag, repoVars, At, Completing, Alone, First, Held, InProgress, NoState
  <2>2. st'[r].ver = st[r].ver /\ \A q \in Releasables \ {r} : st'[q] = st[q]
    BY <1>u, <2>1 DEF StateType
  <2> QED
    BY <1>u, <2>1, <2>2, ReachedPlain
<1>22. ASSUME NEW r \in Releasables, PushTag(r) PROVE Reached
  <2>1. hist' = hist /\ touched' = touched /\ st[r] # NoState
        /\ st' = [st EXCEPT ![r].stage = "onorigin"]
    BY <1>22 DEF PushTag, repoVars, At, Completing, Alone, First, Held, InProgress, NoState
  <2>2. st'[r].ver = st[r].ver /\ \A q \in Releasables \ {r} : st'[q] = st[q]
    BY <1>u, <2>1 DEF StateType
  <2> QED
    BY <1>u, <2>1, <2>2, ReachedPlain
<1>23. ASSUME NEW r \in Releasables, Publish(r) PROVE Reached
  <2>1. hist' = hist /\ touched' = touched /\ st' = [st EXCEPT ![r] = NoState]
    BY <1>23 DEF Publish, repoVars
  <2> QED
    BY <1>u, <2>1, ReachedPlain
<1>24. ASSUME WriteFile PROVE Reached
  <2>1. hist' = hist /\ st' = st /\ touched' = touched
    BY <1>24 DEF WriteFile, repoVars
  <2> QED
    BY <1>s, <1>u, <2>1, ReachedPlain
<1>25. ASSUME EditFile PROVE Reached
  <2>1. hist' = hist /\ st' = st /\ touched' = touched
    BY <1>25 DEF EditFile, repoVars
  <2> QED
    BY <1>s, <1>u, <2>1, ReachedPlain
<1>26. ASSUME Work PROVE Reached
  <2>1. (hist' = hist \/ hist' = Commit("work", "", 0)) /\ st' = st /\ touched' = touched
    BY <1>26 DEF Work
  <2> QED
    BY <1>s, <1>t, <1>u, <2>1, ReachedPlain DEF Kinds
<1>27. ASSUME NEW r \in Releasables, ReleaseAlone(r) PROVE Reached
  <2>1. /\ hist' = Commit("bump", r, VersionOf(r) + 1) /\ touched' = touched \cup {r}
        /\ VersionOf(r) + 1 \in 0..MaxVersion /\ \A q \in Releasables \ {r} : st'[q] = st[q]
    BY <1>27, <1>u DEF ReleaseAlone, Version
  <2> QED
    BY <1>u, <2>1, ReachedBy DEF Reaches
<1>28. ASSUME NEW r \in Releasables, ResumeAlone(r) PROVE Reached
  <2>1. hist' = hist /\ st' = st /\ touched' = touched
    BY <1>28 DEF ResumeAlone, repoVars
  <2> QED
    BY <1>s, <1>u, <2>1, ReachedPlain
<1>29. ASSUME NEW r \in Releasables, Abandon(r) PROVE Reached
  <2>1. /\ hist' = Commit("never", r, st[r].ver) /\ touched' = touched \cup {r}
        /\ st' = [st EXCEPT ![r] = NoState] /\ st[r].ver \in 0..MaxVersion
    BY <1>29, <1>u DEF Abandon, StateType
  <2> QED
    BY <1>t, <1>u, <2>1, ReachedPlain DEF Kinds
<1>30. ASSUME NEW r \in Releasables, KilledCommitting(r) PROVE Reached
  <2>1. /\ Joins(r)
        /\ hist' = hist \/ hist' = Commit("bump", r, Next1(r))
        /\ touched' = touched
        /\ st'[r].ver = Next1(r) /\ \A q \in Releasables \ {r} : st'[q] = st[q]
    BY <1>30, <1>u DEF KilledCommitting, Committing, First, Follows, Joins, NoState
  <2>2. Next1(r) \in 0..MaxVersion
    BY <2>1 DEF Joins, Validates, Version
  <2> QED
    BY <1>u, <2>1, <2>2, ReachedBy DEF Reaches
<1>31. ASSUME NEW r \in Releasables, DiscardMember(r) PROVE Reached
  <2>1. hist' = TakenBack /\ touched' = touched /\ st' = [st EXCEPT ![r] = NoState]
    BY <1>31 DEF DiscardMember
  <2> QED
    BY <1>p, <1>u, <2>1
<1>32. ASSUME Stop PROVE Reached
  <2>1. touched' = touched
    BY <1>32 DEF Stop
  <2>2. CASE hist' = hist /\ st' = st
    BY <1>s, <1>u, <2>1, <2>2, ReachedPlain
  <2>3. CASE ~(hist' = hist /\ st' = st)
    <3>1. hist' = TakenBack /\ st' = [r \in Releasables |-> IF r \in m.queue THEN NoState ELSE st[r]]
      BY <1>32, <2>3 DEF Stop
    <3> QED
      BY <1>p, <2>1, <3>1
  <2> QED
    BY <2>2, <2>3
<1> QED
  BY <1>1, <1>2, <1>3, <1>4, <1>5, <1>6, <1>7, <1>8, <1>9, <1>10, <1>11, <1>12,
     <1>13, <1>14, <1>15, <1>16, <1>17, <1>18, <1>19, <1>20, <1>21, <1>22, <1>23,
     <1>24, <1>25, <1>26, <1>27, <1>28, <1>29, <1>30, <1>31, <1>32
     DEF Next, Batch, Member, People, Faults

KeptOf(r) ==
    /\ \A n \in Standing : VersionAt(r, n) \in {plan.base[r], plan.target[r]}
    /\ InProgress(r) => st[r].ver = plan.target[r]
    /\ ~Never(r, plan.target[r])

\* What a batch that joins an untouched releasable makes is the version planned:
\* one at the version planned already has its tag, so the run knows it released.
LEMMA JoinsPlanned ==
    ASSUME Structure, Sound, Plans, NEW r \in Items, KeptOf(r), Joins(r)
    PROVE  Next1(r) = plan.target[r]
<1>1. /\ r \in Releasables /\ plan.base[r] \in 0..MaxVersion /\ plan.target[r] \in Version
      /\ plan.target[r] = plan.base[r] + plan.bump[r] /\ MaxVersion \in Nat
  BY BatchAssumption DEF Plans, PlanType
<1>2. plan.bump = file.bump /\ r \in Named /\ r \notin m.released
      /\ (ItemReleased(r) => r \in m.released)
  BY DEF Joins, Plans, Follows, Matches
<1>3. VersionOf(r) \in {plan.base[r], plan.target[r]}
  <2>1. Len(hist) \in Standing
    <3>1. Floor \in 1..Len(hist) /\ Len(hist) \in Nat
      BY DEF Structure, Grounded, TypeOK
    <3> QED
      BY <3>1 DEF Standing
  <2> QED
    BY <2>1 DEF KeptOf, VersionOf
<1>4. Next1(r) = VersionOf(r) + file.bump[r] /\ ~InProgress(r)
  BY DEF Joins, Validates, Next1
<1>5. CASE VersionOf(r) = plan.base[r]
  BY <1>1, <1>2, <1>4, <1>5
<1>6. CASE VersionOf(r) = plan.target[r]
  <2>1. ltag[r][plan.target[r]] # 0
    <3>1. (VersionOf(r) # 0 /\ ~Never(r, VersionOf(r))) => ltag[r][VersionOf(r)] # 0
      BY DEF Joins, Validates
    <3>2. VersionOf(r) # 0
      BY <1>1, <1>6 DEF Version
    <3> QED
      BY <1>6, <3>1, <3>2 DEF KeptOf
  <2>2. st[r].stage # "tagged"
    BY <1>4 DEF InProgress, NoState
  <2>3. otag[r][plan.target[r]] # 0
    BY <1>1, <2>1, <2>2 DEF Sound, Unpushed
  <2>4. ItemReleased(r)
    BY <1>6, <2>1, <2>3 DEF ItemReleased
  <2> QED
    BY <1>2, <2>4
<1> QED
  BY <1>3, <1>5, <1>6

LEMMA KeptStays ==
    ASSUME Structure, Structure', Course, Turn, Sound, Plans, Branches, Reached,
           NEW r \in Items, r \notin touched, r \notin touched',
           plan'.base = plan.base, plan'.target = plan.target
    PROVE  KeptOf(r)'
<1>1. r \in Releasables /\ KeptOf(r)
  BY DEF Plans, PlanType, Kept, KeptOf
<1>2. \A v : Reaches(r, v) => v = plan.target[r]
  BY <1>1, JoinsPlanned DEF Reaches, KeptOf
<1>f. /\ Floor \in Nat /\ Floor' \in Nat /\ Len(hist) \in Nat /\ Len(hist') \in Nat
      /\ Floor =< Floor' /\ Floor =< Len(hist) /\ Floor' =< Len(hist')
  BY FloorRises
<1>3. ASSUME NEW n \in Floor'..Len(hist')
      PROVE  VersionAt(r, n)' \in {plan.base[r], plan.target[r]}
  <2>1. CASE n =< Len(hist)
    <3>1. n \in 0..Len(hist) /\ n =< Len(hist') /\ n \in Floor..Len(hist)
      BY <1>f, <2>1
    <3>2. VersionAt(r, n)' = VersionAt(r, n)
      BY <1>1, <3>1, VersionSteps
    <3> QED
      BY <1>1, <3>1, <3>2 DEF KeptOf, Standing
  <2>2. CASE ~(n =< Len(hist))
    <3>1. PICK c \in CommitType : Topped(c)
      BY <1>f, <2>2 DEF Course, Peeled
    <3>2. n = Len(hist')
      BY <1>f, <2>2, <3>1 DEF Topped
    <3>3. VersionOf(r)' = VersionOf(r) \/ (c.kind = "bump" /\ c.of = r /\ VersionOf(r)' = c.ver)
      BY <1>1, <3>1, VersionSteps
    <3>4. VersionOf(r) \in {plan.base[r], plan.target[r]}
      <4>1. Len(hist) \in Floor..Len(hist)
        BY <1>f
      <4> QED
        BY <1>1, <4>1 DEF KeptOf, Standing, VersionOf
    <3>5. VersionOf(r)' \in {plan.base[r], plan.target[r]}
      BY <1>1, <1>2, <3>1, <3>3, <3>4 DEF Reached
    <3>6. VersionAt(r, n)' = VersionOf(r)'
      BY <3>2 DEF VersionOf
    <3> QED
      BY <3>5, <3>6
  <2> QED
    BY <2>1, <2>2
<1>4. st'[r] # NoState => st'[r].ver = plan.target[r]
  BY <1>1, <1>2 DEF Reached
<1>5. ~Never(r, plan.target[r])'
  <2>d. DOMAIN hist = 1..Len(hist) /\ DOMAIN hist' = 1..Len(hist')
    BY DEF Structure, TypeOK
  <2> DEFINE g == [kind |-> "never", of |-> r, ver |-> plan.target[r]]
  <2>1. SUFFICES ASSUME NEW i \in 1..Len(hist'), hist'[i] = g PROVE FALSE
    BY <2>d DEF Never
  <2>2. \A j \in 1..Len(hist) : hist[j] # g
    BY <1>1, <2>d DEF KeptOf, Never
  <2>3. CASE hist' = hist
    BY <2>1, <2>2, <2>3
  <2>4. CASE Peeled
    BY <1>f, <2>1, <2>2, <2>4 DEF Peeled
  <2>5. CASE \E c \in CommitType : Topped(c) /\ Tops(c)
    <3>1. PICK c \in CommitType : Topped(c) /\ Tops(c)
      BY <2>5
    <3>2. i \in 1..Len(hist) \/ i = Len(hist) + 1
      BY <1>f, <3>1 DEF Topped
    <3>3. i = Len(hist) + 1
      BY <2>1, <2>2, <3>1, <3>2 DEF Topped
    <3>4. c.kind = "never" /\ c.of = r
      BY <2>1, <3>1, <3>3 DEF Topped
    <3> QED
      BY <3>1, <3>4 DEF Tops
  <2> QED
    BY <2>3, <2>4, <2>5 DEF Branches
<1> QED
  BY <1>3, <1>4, <1>5 DEF KeptOf, Standing, InProgress

LEMMA KeptKept ==
    ASSUME Structure, Structure', Course, Turn, Sound, Plans, Next
    PROVE  Kept'
<1>1. Branches /\ Reached
  BY BranchesHolds, ReachedHolds, SoundIs DEF Sound, Plans
<1>k. (\A r \in Items' \ touched' : KeptOf(r)') => Kept'
  BY DEF Kept, KeptOf
<1>2. CASE plan' = NoPlan
  <2>1. Items' = {}
    BY <1>2 DEF Items, NoPlan
  <2> QED
    BY <1>k, <2>1
<1>3. CASE Made /\ ValidateAndPlan
  <2>1. FileType /\ Items' = Named
    BY <1>3 DEF Structure, TypeOK, Made, Items, Named
  <2>2. hist' = hist /\ st' = st /\ pc' \notin {"commit", "alone"}
    BY <1>3 DEF ValidateAndPlan, Go, End, repoVars
  <2>3. Standing' = {Len(hist)}
    <3>1. Floor' = Len(hist) /\ Len(hist) \in Nat
      BY <2>2 DEF Floor, MayUnwind, Structure, TypeOK
    <3> QED
      BY <2>2, <3>1 DEF Standing
  <2>4. ASSUME NEW r \in Named PROVE KeptOf(r)'
    <3>1. /\ plan'.base[r] = VersionOf(r) /\ plan'.target[r] = Next1(r) /\ ~InProgress(r)
          /\ ~Never(r, Next1(r)) /\ r \in Releasables
      BY <1>3, <2>1, MadeIs
    <3>2. VersionAt(r, Len(hist))' = VersionOf(r)
      BY <2>2, <3>1, VersionSteps DEF VersionOf
    <3>3. \A n \in Standing' : VersionAt(r, n)' = VersionOf(r)
      <4>1. SUFFICES ASSUME NEW n \in Standing' PROVE VersionAt(r, n)' = VersionOf(r)
        OBVIOUS
      <4>2. n = Len(hist)'
        BY <2>2, <2>3
      <4>3. VersionAt(r, n)' = VersionOf(r)'
        BY <4>2 DEF VersionOf
      <4> QED
        BY <2>2, <3>1, <4>3, VersionSteps
    <3>4. ~Never(r, plan.target[r])'
      BY <2>2, <3>1 DEF Never
    <3> QED
      BY <2>2, <3>1, <3>3, <3>4 DEF KeptOf, InProgress
  <2> QED
    BY <1>k, <2>1, <2>4
<1>4. CASE plan' = plan \/ Marked
  <2>1. plan'.base = plan.base /\ plan'.target = plan.target /\ Items' = Items
    BY <1>4, MarkedKeeps DEF Plans, Items
  <2>2. CASE touched \subseteq touched'
    <3>1. ASSUME NEW r \in Items' \ touched' PROVE KeptOf(r)'
      BY <1>1, <2>1, <2>2, KeptStays
    <3> QED
      BY <1>k, <3>1
  <2>3. CASE ~(touched \subseteq touched')
    BY <1>1, <1>3, <2>3 DEF Reached
  <2> QED
    BY <2>2, <2>3
<1> QED
  BY <1>2, <1>3, <1>4, PlanSteps DEF Plans

-----------------------------------------------------------------------------
(* Batches are filed in turn, each once what it plans is done. *)

\* Tags are not taken away.
TagsStand ==
    \A r \in Releasables, v \in Version :
        ltag[r][v] # 0 => ltag'[r][v] # 0 /\ (otag[r][v] # 0 => otag'[r][v] # 0)

LEMMA TagsStandStill == ASSUME ltag' = ltag, otag' = otag PROVE TagsStand
BY DEF TagsStand

LEMMA TagsStandHolds ==
    ASSUME Structure, Carried, Next
    PROVE  TagsStand
<1>t. /\ ltag \in [Releasables -> [Version -> Nat]] /\ otag \in [Releasables -> [Version -> Nat]]
  BY DEF Structure, TypeOK
<1>1. ASSUME FinishPlan PROVE TagsStand
  BY <1>1, TagsStandStill DEF FinishPlan, tagVars
<1>2. ASSUME BeginRun PROVE TagsStand
  BY <1>2, TagsStandStill DEF BeginRun, tagVars
<1>3. ASSUME ValidateAndPlan PROVE TagsStand
  BY <1>3, TagsStandStill DEF ValidateAndPlan, tagVars
<1>4. ASSUME RootSelfdoc PROVE TagsStand
  BY <1>4, TagsStandStill DEF RootSelfdoc, tagVars
<1>5. ASSUME PushCandidate PROVE TagsStand
  BY <1>5, TagsStandStill DEF PushCandidate, tagVars
<1>6. ASSUME Gate PROVE TagsStand
  BY <1>6, TagsStandStill DEF Gate, tagVars
<1>7. ASSUME ArchiveIfComplete PROVE TagsStand
  BY <1>7, TagsStandStill DEF ArchiveIfComplete, tagVars
<1>8. ASSUME CommitArchive PROVE TagsStand
  BY <1>8, TagsStandStill DEF CommitArchive, tagVars
<1>9. ASSUME ClearPlan PROVE TagsStand
  BY <1>9, TagsStandStill DEF ClearPlan, tagVars
<1>10. ASSUME PushArchive PROVE TagsStand
  BY <1>10, TagsStandStill DEF PushArchive, tagVars
<1>11. ASSUME Refused PROVE TagsStand
  BY <1>11, TagsStandStill DEF Refused, tagVars
<1>12. ASSUME NEW r \in Releasables, Skip(r) PROVE TagsStand
  BY <1>12, TagsStandStill DEF Skip, tagVars
<1>13. ASSUME NEW r \in Releasables, Join(r) PROVE TagsStand
  BY <1>13, TagsStandStill DEF Join, tagVars
<1>14. ASSUME NEW r \in Releasables, CommitMember(r) PROVE TagsStand
  BY <1>14, TagsStandStill DEF CommitMember, tagVars
<1>15. ASSUME NEW r \in Releasables, RecordPushed(r) PROVE TagsStand
  BY <1>15, TagsStandStill DEF RecordPushed, tagVars
<1>16. ASSUME NEW r \in Releasables, AdoptCandidate(r) PROVE TagsStand
  BY <1>16, TagsStandStill DEF AdoptCandidate, tagVars
<1>17. ASSUME NEW r \in Releasables, CommitOwed(r) PROVE TagsStand
  BY <1>17, TagsStandStill DEF CommitOwed, tagVars
<1>18. ASSUME NEW r \in Releasables, PushAlone(r) PROVE TagsStand
  BY <1>18, TagsStandStill DEF PushAlone, tagVars
<1>19. ASSUME NEW r \in Releasables, VerifyAlone(r) PROVE TagsStand
  BY <1>19, TagsStandStill DEF VerifyAlone, tagVars
<1>20. ASSUME NEW r \in Releasables, Finalize(r) PROVE TagsStand
  BY <1>20, TagsStandStill DEF Finalize, tagVars
<1>21. ASSUME NEW r \in Releasables, Tag(r) PROVE TagsStand
  <2>1. /\ st[r].stage = "finalized" /\ otag' = otag
        /\ ltag' = [ltag EXCEPT ![r][st[r].ver] = st[r].rc]
    BY <1>21 DEF Tag, At
  <2>2. st[r].rc # 0
    <3>1. st[r].rc \in verdicts
      BY <2>1 DEF Carried, Verified
    <3>2. 0 \notin verdicts
      BY DEF Structure, Pinned
    <3> QED
      BY <3>1, <3>2
  <2>3. \A q \in Releasables, v \in Version : ltag'[q][v] \in {ltag[q][v], st[r].rc}
    BY <1>t, <2>1
  <2> QED
    BY <2>1, <2>2, <2>3 DEF TagsStand
<1>22. ASSUME NEW r \in Releasables, PushTag(r) PROVE TagsStand
  <2>1. ltag' = ltag /\ otag' = [otag EXCEPT ![r][st[r].ver] = ltag[r][st[r].ver]]
    BY <1>22 DEF PushTag, At
  <2>2. \A q \in Releasables, v \in Version : otag'[q][v] \in {otag[q][v], ltag[q][v]}
    BY <1>t, <2>1
  <2> QED
    BY <2>1, <2>2 DEF TagsStand
<1>23. ASSUME NEW r \in Releasables, Publish(r) PROVE TagsStand
  BY <1>23, TagsStandStill DEF Publish, tagVars
<1>24. ASSUME WriteFile PROVE TagsStand
  BY <1>24, TagsStandStill DEF WriteFile, tagVars
<1>25. ASSUME EditFile PROVE TagsStand
  BY <1>25, TagsStandStill DEF EditFile, tagVars
<1>26. ASSUME Work PROVE TagsStand
  BY <1>26, TagsStandStill DEF Work, tagVars
<1>27. ASSUME NEW r \in Releasables, ReleaseAlone(r) PROVE TagsStand
  BY <1>27, TagsStandStill DEF ReleaseAlone, tagVars
<1>28. ASSUME NEW r \in Releasables, ResumeAlone(r) PROVE TagsStand
  BY <1>28, TagsStandStill DEF ResumeAlone, tagVars
<1>29. ASSUME NEW r \in Releasables, Abandon(r) PROVE TagsStand
  BY <1>29, TagsStandStill DEF Abandon, tagVars
<1>30. ASSUME NEW r \in Releasables, KilledCommitting(r) PROVE TagsStand
  BY <1>30, TagsStandStill DEF KilledCommitting, tagVars
<1>31. ASSUME NEW r \in Releasables, DiscardMember(r) PROVE TagsStand
  BY <1>31, TagsStandStill DEF DiscardMember, tagVars
<1>32. ASSUME Stop PROVE TagsStand
  BY <1>32, TagsStandStill DEF Stop, tagVars
<1> QED
  BY <1>1, <1>2, <1>3, <1>4, <1>5, <1>6, <1>7, <1>8, <1>9, <1>10, <1>11, <1>12,
     <1>13, <1>14, <1>15, <1>16, <1>17, <1>18, <1>19, <1>20, <1>21, <1>22, <1>23,
     <1>24, <1>25, <1>26, <1>27, <1>28, <1>29, <1>30, <1>31, <1>32
     DEF Next, Batch, Member, People, Faults

\* Only people and the archive change the file.
LEMMA FileSteps ==
    ASSUME Next
    PROVE  (file' = file /\ since' = since) \/ CommitArchive \/ WriteFile \/ EditFile
<1>1. ASSUME FinishPlan PROVE (file' = file /\ since' = since) \/ CommitArchive \/ WriteFile \/ EditFile
  BY <1>1 DEF FinishPlan, fileVars
<1>2. ASSUME BeginRun PROVE (file' = file /\ since' = since) \/ CommitArchive \/ WriteFile \/ EditFile
  BY <1>2 DEF BeginRun, fileVars
<1>3. ASSUME ValidateAndPlan PROVE (file' = file /\ since' = since) \/ CommitArchive \/ WriteFile \/ EditFile
  BY <1>3 DEF ValidateAndPlan, fileVars
<1>4. ASSUME RootSelfdoc PROVE (file' = file /\ since' = since) \/ CommitArchive \/ WriteFile \/ EditFile
  BY <1>4 DEF RootSelfdoc, fileVars
<1>5. ASSUME PushCandidate PROVE (file' = file /\ since' = since) \/ CommitArchive \/ WriteFile \/ EditFile
  BY <1>5 DEF PushCandidate, fileVars
<1>6. ASSUME Gate PROVE (file' = file /\ since' = since) \/ CommitArchive \/ WriteFile \/ EditFile
  BY <1>6 DEF Gate, fileVars
<1>7. ASSUME ArchiveIfComplete PROVE (file' = file /\ since' = since) \/ CommitArchive \/ WriteFile \/ EditFile
  BY <1>7 DEF ArchiveIfComplete, fileVars
<1>8. ASSUME CommitArchive PROVE (file' = file /\ since' = since) \/ CommitArchive \/ WriteFile \/ EditFile
  BY <1>8 DEF CommitArchive, fileVars
<1>9. ASSUME ClearPlan PROVE (file' = file /\ since' = since) \/ CommitArchive \/ WriteFile \/ EditFile
  BY <1>9 DEF ClearPlan, fileVars
<1>10. ASSUME PushArchive PROVE (file' = file /\ since' = since) \/ CommitArchive \/ WriteFile \/ EditFile
  BY <1>10 DEF PushArchive, fileVars
<1>11. ASSUME Refused PROVE (file' = file /\ since' = since) \/ CommitArchive \/ WriteFile \/ EditFile
  BY <1>11 DEF Refused, fileVars
<1>12. ASSUME NEW r \in Releasables, Skip(r) PROVE (file' = file /\ since' = since) \/ CommitArchive \/ WriteFile \/ EditFile
  BY <1>12 DEF Skip, fileVars
<1>13. ASSUME NEW r \in Releasables, Join(r) PROVE (file' = file /\ since' = since) \/ CommitArchive \/ WriteFile \/ EditFile
  BY <1>13 DEF Join, fileVars
<1>14. ASSUME NEW r \in Releasables, CommitMember(r) PROVE (file' = file /\ since' = since) \/ CommitArchive \/ WriteFile \/ EditFile
  BY <1>14 DEF CommitMember, fileVars
<1>15. ASSUME NEW r \in Releasables, RecordPushed(r) PROVE (file' = file /\ since' = since) \/ CommitArchive \/ WriteFile \/ EditFile
  BY <1>15 DEF RecordPushed, fileVars
<1>16. ASSUME NEW r \in Releasables, AdoptCandidate(r) PROVE (file' = file /\ since' = since) \/ CommitArchive \/ WriteFile \/ EditFile
  BY <1>16 DEF AdoptCandidate, fileVars
<1>17. ASSUME NEW r \in Releasables, CommitOwed(r) PROVE (file' = file /\ since' = since) \/ CommitArchive \/ WriteFile \/ EditFile
  BY <1>17 DEF CommitOwed, fileVars
<1>18. ASSUME NEW r \in Releasables, PushAlone(r) PROVE (file' = file /\ since' = since) \/ CommitArchive \/ WriteFile \/ EditFile
  BY <1>18 DEF PushAlone, fileVars
<1>19. ASSUME NEW r \in Releasables, VerifyAlone(r) PROVE (file' = file /\ since' = since) \/ CommitArchive \/ WriteFile \/ EditFile
  BY <1>19 DEF VerifyAlone, fileVars
<1>20. ASSUME NEW r \in Releasables, Finalize(r) PROVE (file' = file /\ since' = since) \/ CommitArchive \/ WriteFile \/ EditFile
  BY <1>20 DEF Finalize, fileVars
<1>21. ASSUME NEW r \in Releasables, Tag(r) PROVE (file' = file /\ since' = since) \/ CommitArchive \/ WriteFile \/ EditFile
  BY <1>21 DEF Tag, fileVars
<1>22. ASSUME NEW r \in Releasables, PushTag(r) PROVE (file' = file /\ since' = since) \/ CommitArchive \/ WriteFile \/ EditFile
  BY <1>22 DEF PushTag, fileVars
<1>23. ASSUME NEW r \in Releasables, Publish(r) PROVE (file' = file /\ since' = since) \/ CommitArchive \/ WriteFile \/ EditFile
  BY <1>23 DEF Publish, fileVars
<1>24. ASSUME WriteFile PROVE (file' = file /\ since' = since) \/ CommitArchive \/ WriteFile \/ EditFile
  BY <1>24 DEF WriteFile, fileVars
<1>25. ASSUME EditFile PROVE (file' = file /\ since' = since) \/ CommitArchive \/ WriteFile \/ EditFile
  BY <1>25 DEF EditFile, fileVars
<1>26. ASSUME Work PROVE (file' = file /\ since' = since) \/ CommitArchive \/ WriteFile \/ EditFile
  BY <1>26 DEF Work, fileVars
<1>27. ASSUME NEW r \in Releasables, ReleaseAlone(r) PROVE (file' = file /\ since' = since) \/ CommitArchive \/ WriteFile \/ EditFile
  BY <1>27 DEF ReleaseAlone, fileVars
<1>28. ASSUME NEW r \in Releasables, ResumeAlone(r) PROVE (file' = file /\ since' = since) \/ CommitArchive \/ WriteFile \/ EditFile
  BY <1>28 DEF ResumeAlone, fileVars
<1>29. ASSUME NEW r \in Releasables, Abandon(r) PROVE (file' = file /\ since' = since) \/ CommitArchive \/ WriteFile \/ EditFile
  BY <1>29 DEF Abandon, fileVars
<1>30. ASSUME NEW r \in Releasables, KilledCommitting(r) PROVE (file' = file /\ since' = since) \/ CommitArchive \/ WriteFile \/ EditFile
  BY <1>30 DEF KilledCommitting, fileVars
<1>31. ASSUME NEW r \in Releasables, DiscardMember(r) PROVE (file' = file /\ since' = since) \/ CommitArchive \/ WriteFile \/ EditFile
  BY <1>31 DEF DiscardMember, fileVars
<1>32. ASSUME Stop PROVE (file' = file /\ since' = since) \/ CommitArchive \/ WriteFile \/ EditFile
  BY <1>32 DEF Stop, fileVars
<1> QED
  BY <1>1, <1>2, <1>3, <1>4, <1>5, <1>6, <1>7, <1>8, <1>9, <1>10, <1>11, <1>12,
     <1>13, <1>14, <1>15, <1>16, <1>17, <1>18, <1>19, <1>20, <1>21, <1>22, <1>23,
     <1>24, <1>25, <1>26, <1>27, <1>28, <1>29, <1>30, <1>31, <1>32
     DEF Next, Batch, Member, People, Faults

\* How many batches are filed changes by the archive of one.
LEMMA FiledSteps ==
    ASSUME Structure, Structure', Branches
    PROVE  /\ Cardinality(Filed) \in Nat /\ Cardinality(Filed') \in Nat
           /\ ~CommitArchive => Filed' = Filed
           /\ CommitArchive => Cardinality(Filed') = Cardinality(Filed) + 1
<1>1. /\ hist \in Seq(CommitType) /\ hist' \in Seq(CommitType)
      /\ DOMAIN hist = 1..Len(hist) /\ DOMAIN hist' = 1..Len(hist')
      /\ Len(hist) \in Nat /\ Len(hist') \in Nat
  BY DEF Structure, TypeOK
<1>2. IsFiniteSet(Filed) /\ Cardinality(Filed) \in Nat
  BY <1>1, FiledFinite
<1>n. Len(hist) \in Nat /\ Len(hist') \in Nat
  BY <1>1
<1>3. /\ Filed = {i \in 1..Len(hist) : hist[i].kind = "filed"}
      /\ Filed' = {i \in 1..Len(hist') : hist'[i].kind = "filed"}
  BY <1>1 DEF Filed
<1>4. ASSUME ~CommitArchive PROVE Filed' = Filed
  <2>1. CASE hist' = hist
    BY <1>3, <2>1
  <2>2. CASE Peeled /\ hist[Len(hist)].kind = "bump"
    BY <1>n, <1>3, <2>2 DEF Peeled
  <2>3. CASE \E c \in CommitType : Topped(c) /\ Tops(c)
    BY <1>n, <1>3, <1>4, <2>3 DEF Topped, Tops
  <2> QED
    BY <2>1, <2>2, <2>3 DEF Branches
<1>5. ASSUME CommitArchive PROVE Filed' = Filed \cup {Len(hist) + 1} /\ Len(hist) + 1 \notin Filed
  <2>0. 0 \in 0..MaxVersion
    BY BatchAssumption
  <2>1. hist' = Commit("filed", "", 0)
    BY <1>5 DEF CommitArchive
  <2>2. Topped([kind |-> "filed", of |-> "", ver |-> 0])
    BY <1>1, <2>0, <2>1, Grown DEF Kinds
  <2>3. /\ Len(hist') = Len(hist) + 1 /\ hist'[Len(hist) + 1].kind = "filed"
        /\ \A i \in 1..Len(hist) : hist'[i] = hist[i]
    <3>1. hist'[Len(hist) + 1] = [kind |-> "filed", of |-> "", ver |-> 0]
      BY <2>2, Zenon DEF Topped
    <3>2. Len(hist') = Len(hist) + 1 /\ \A i \in 1..Len(hist) : hist'[i] = hist[i]
      BY <2>2, Zenon DEF Topped
    <3>3. hist'[Len(hist) + 1].kind = "filed"
      <4>1. PICK q : q = ""
        OBVIOUS
      <4>2. hist'[Len(hist) + 1] = [kind |-> "filed", of |-> q, ver |-> 0]
        BY <3>1, <4>1, Zenon
      <4>3. [kind |-> "filed", of |-> q, ver |-> 0].kind = "filed"
        OBVIOUS
      <4> QED
        BY <4>2, <4>3, Zenon
    <3> QED
      BY <3>2, <3>3, Zenon
  <2> QED
    BY <1>n, <1>3, <2>3
<1>6. CommitArchive => Cardinality(Filed') = Cardinality(Filed) + 1
  <2>1. ASSUME CommitArchive PROVE Cardinality(Filed') = Cardinality(Filed) + 1
    <3>1. Filed' = Filed \cup {Len(hist) + 1} /\ Len(hist) + 1 \notin Filed
      BY <1>5, <2>1
    <3> QED
      BY <1>2, <3>1, FS_AddElement
  <2> QED
    BY <2>1
<1>7. Cardinality(Filed') \in Nat
  BY <1>2, <1>4, <1>6
<1> QED
  BY <1>2, <1>4, <1>6, <1>7

\* Versions do not go back.
LEMMA Climbs ==
    ASSUME Structure, Structure', Course, Turn, Branches, NEW r \in Releasables, NEW x \in Nat,
           \A n \in Standing : x =< VersionAt(r, n)
    PROVE  \A n \in Standing' : x =< VersionAt(r, n)'
<1>f. /\ Floor \in Nat /\ Floor' \in Nat /\ Len(hist) \in Nat /\ Len(hist') \in Nat
      /\ Floor =< Floor' /\ Floor =< Len(hist) /\ Floor' =< Len(hist')
  BY FloorRises
<1>v. VersionOf(r) \in Nat /\ x =< VersionOf(r)
  <2>1. hist \in Seq(CommitType) /\ Len(hist) \in 0..Len(hist) /\ Len(hist) \in Standing
    BY <1>f DEF Structure, TypeOK, Standing
  <2>2. VersionAt(r, Len(hist)) \in 0..MaxVersion /\ x =< VersionAt(r, Len(hist))
    BY <2>1, VersionType
  <2> QED
    BY <2>2, BatchAssumption DEF VersionOf
<1> SUFFICES ASSUME NEW n \in Floor'..Len(hist') PROVE x =< VersionAt(r, n)'
  BY DEF Standing
<1>1. CASE n =< Len(hist)
  <2>1. n \in 0..Len(hist) /\ n =< Len(hist') /\ n \in Standing
    BY <1>f, <1>1 DEF Standing
  <2>2. VersionAt(r, n)' = VersionAt(r, n)
    BY <2>1, VersionSteps
  <2> QED
    BY <2>1, <2>2
<1>2. CASE ~(n =< Len(hist))
  <2>1. PICK c \in CommitType : Topped(c) /\ Tops(c)
    BY <1>f, <1>2 DEF Branches, Peeled
  <2>2. n = Len(hist')
    BY <1>f, <1>2, <2>1 DEF Topped
  <2>3. VersionOf(r)' = VersionOf(r) \/ (c.kind = "bump" /\ c.of = r /\ VersionOf(r)' = c.ver)
    BY <2>1, VersionSteps
  <2>4. c.ver \in Nat
    <3>1. c.ver \in 0..MaxVersion /\ MaxVersion \in Nat
      BY BatchAssumption DEF CommitType
    <3> QED
      BY <3>1
  <2>5. VersionOf(r)' \in Nat /\ VersionOf(r) =< VersionOf(r)'
    BY <1>v, <2>1, <2>3, <2>4 DEF Tops
  <2>6. VersionAt(r, n)' = VersionOf(r)'
    BY <2>2 DEF VersionOf
  <2> QED
    BY <1>v, <2>5, <2>6
<1> QED
  BY <1>1, <1>2

\* What is planned of a file stays ahead of what the file found, however the
\* branch grows, and what was filed stays released.
PlanAhead ==
    /\ LeftOver => \A r \in Items :
          /\ ltag[r][plan.target[r]] # 0 /\ otag[r][plan.target[r]] # 0
          /\ \A n \in Standing : plan.target[r] =< VersionAt(r, n)
    /\ Planned /\ ~LeftOver =>
          \/ \A r \in Items : since[r] < plan.target[r]
          \/ \E r \in Items : \A n \in Standing : plan.target[r] < VersionAt(r, n)
FilePart ==
    /\ file # NoFile => /\ file.id[1] = 1 + Cardinality(Filed)
                        /\ \A r \in Releasables, n \in Standing : since[r] =< VersionAt(r, n)
    /\ plan.blob[1] =< 1 + Cardinality(Filed)
    /\ file = NoFile => plan.blob[1] =< Cardinality(Filed)
LEMMA FilingIs == Filing <=> FilePart /\ PlanAhead
BY DEF Filing, FilePart, PlanAhead
LEMMA FilingIsNext == (Filing <=> FilePart /\ PlanAhead)'
BY FilingIs, PTL

\* Versions above a number stay above it.
LEMMA ClimbsAbove ==
    ASSUME Structure, Structure', Course, Turn, Branches, NEW r \in Releasables, NEW x \in Nat,
           \A n \in Standing : x < VersionAt(r, n)
    PROVE  \A n \in Standing' : x < VersionAt(r, n)'
<1>1. hist \in Seq(CommitType) /\ hist' \in Seq(CommitType) /\ MaxVersion \in Nat
  BY BatchAssumption DEF Structure, TypeOK
<1>f. /\ Floor \in Nat /\ Floor' \in Nat /\ Len(hist) \in Nat /\ Len(hist') \in Nat
  BY FloorRises
<1>2. \A n \in Standing : VersionAt(r, n) \in Nat
  <2>1. \A n \in Standing : n \in 0..Len(hist)
    BY <1>f DEF Standing
  <2>2. \A n \in Standing : VersionAt(r, n) \in 0..MaxVersion
    BY <1>1, <2>1, VersionType
  <2> QED
    BY <1>1, <2>2
<1>3. \A n \in Standing' : VersionAt(r, n)' \in Nat
  <2>1. SUFFICES ASSUME NEW n \in Standing' PROVE VersionAt(r, n)' \in Nat
    OBVIOUS
  <2>2. n \in 0..Len(hist')
    BY <1>f DEF Standing
  <2>3. VersionAt(r, n)' \in 0..MaxVersion
    BY <2>2, VersionedHoldsNext DEF Versioned, Structure
  <2> QED
    BY <1>1, <2>3
<1>4. x + 1 \in Nat /\ \A n \in Standing : x + 1 =< VersionAt(r, n)
  BY <1>2
<1>5. \A n \in Standing' : x + 1 =< VersionAt(r, n)'
  BY <1>4, Climbs
<1> QED
  BY <1>3, <1>5

LEMMA PlanAheadStays ==
    ASSUME Structure, Structure', Course, Turn, Branches, TagsStand, PlanType, PlanAhead,
           plan' = plan, since' = since \/ ~Planned \/ LeftOver, Filed' = Filed
    PROVE  PlanAhead'
<1>1. /\ Items' = Items /\ (LeftOver' <=> LeftOver) /\ (Planned' <=> Planned)
      /\ \A r \in Items : r \in Releasables /\ plan.target[r] \in Version /\ plan.target[r] \in Nat
  BY DEF Items, LeftOver, Planned, PlanType, Version
<1>2. ASSUME LeftOver, NEW r \in Items
      PROVE  /\ ltag'[r][plan.target[r]] # 0 /\ otag'[r][plan.target[r]] # 0
             /\ \A n \in Standing' : plan.target[r] =< VersionAt(r, n)'
  <2>1. /\ ltag[r][plan.target[r]] # 0 /\ otag[r][plan.target[r]] # 0
        /\ \A n \in Standing : plan.target[r] =< VersionAt(r, n)
    BY <1>2 DEF PlanAhead
  <2>2. ltag'[r][plan.target[r]] # 0 /\ otag'[r][plan.target[r]] # 0
    BY <1>1, <2>1 DEF TagsStand
  <2>3. PICK x \in Nat : x = plan.target[r]
    BY <1>1
  <2>4. \A n \in Standing' : x =< VersionAt(r, n)'
    BY <1>1, <2>1, <2>3, Climbs
  <2> QED
    BY <2>2, <2>3, <2>4
<1>3. ASSUME NEW r \in Items, \A n \in Standing : plan.target[r] < VersionAt(r, n)
      PROVE  \A n \in Standing' : plan.target[r] < VersionAt(r, n)'
  <2>1. PICK x \in Nat : x = plan.target[r]
    BY <1>1
  <2>2. \A n \in Standing' : x < VersionAt(r, n)'
    BY <1>1, <1>3, <2>1, ClimbsAbove
  <2> QED
    BY <2>1, <2>2
<1>4. LeftOver => \A r \in Items :
          /\ ltag'[r][plan.target[r]] # 0 /\ otag'[r][plan.target[r]] # 0
          /\ \A n \in Standing' : plan.target[r] =< VersionAt(r, n)'
  BY <1>2
<1>5. Planned /\ ~LeftOver =>
          \/ \A r \in Items : since'[r] < plan.target[r]
          \/ \E r \in Items : \A n \in Standing' : plan.target[r] < VersionAt(r, n)'
  BY <1>3 DEF PlanAhead
<1> QED
  BY <1>1, <1>4, <1>5 DEF PlanAhead

\* What the file found stays below what the branch has.
LEMMA FilePartStays ==
    ASSUME Structure, Structure', Course, Turn, Branches, FilePart,
           file' # NoFile => file # NoFile /\ file'.id[1] = file.id[1],
           file' = NoFile => file = NoFile, since' = since, Filed' = Filed,
           \/ plan'.blob = plan.blob \/ plan'.blob = NoPlan.blob
           \/ file' # NoFile /\ plan'.blob = file'.id
    PROVE  FilePart'
<1>1. Cardinality(Filed) \in Nat /\ NoPlan.blob[1] = 0
  BY FiledSteps DEF NoPlan
<1>2. ASSUME file' # NoFile, NEW r \in Releasables
      PROVE  \A n \in Standing' : since[r] =< VersionAt(r, n)'
  <2>1. PICK x \in Nat : x = since[r]
    BY BatchAssumption DEF Structure, TypeOK
  <2>2. \A n \in Standing : x =< VersionAt(r, n)
    BY <1>2, <2>1 DEF FilePart
  <2>3. \A n \in Standing' : x =< VersionAt(r, n)'
    BY <2>2, Climbs
  <2> QED
    BY <2>1, <2>3
<1>3. file' # NoFile => file'.id[1] = 1 + Cardinality(Filed)
  BY DEF FilePart
<1>4. plan'.blob[1] =< 1 + Cardinality(Filed)
  BY <1>1, <1>3 DEF FilePart
<1>5. file' = NoFile => plan'.blob[1] =< Cardinality(Filed)
  BY <1>1 DEF FilePart
<1> QED
  BY <1>2, <1>3, <1>4, <1>5 DEF FilePart

LEMMA FilingKept ==
    ASSUME Structure, Structure', Course, Turn, Sound, Plans, Next
    PROVE  Filing'
<1>1. /\ Branches /\ TagsStand /\ Follows /\ PlanType /\ FilePart /\ PlanAhead /\ FileType
      /\ hist \in Seq(CommitType) /\ since \in [Releasables -> 0..MaxVersion]
  BY BranchesHolds, TagsStandHolds, FilingIs DEF Sound, Plans, Structure, TypeOK
<1>2. /\ Cardinality(Filed) \in Nat
      /\ ~CommitArchive => Filed' = Filed
      /\ CommitArchive => Cardinality(Filed') = Cardinality(Filed) + 1
  BY <1>1, FiledSteps
<1>f. /\ Floor \in Nat /\ Floor' \in Nat /\ Len(hist) \in Nat /\ Len(hist') \in Nat
      /\ Floor =< Len(hist) /\ Floor' =< Len(hist')
  BY FloorRises
<1>n. NoFile.id[1] = 0 /\ NoPlan.blob = <<0, 0>> /\ NoPlan.blob[1] = 0
  BY DEF NoFile, NoPlan
<1>v. ASSUME NEW r \in Releasables
      PROVE  VersionOf(r) \in Nat
  <2>1. Len(hist) \in 0..Len(hist) /\ MaxVersion \in Nat
    BY <1>f, BatchAssumption
  <2>2. VersionAt(r, Len(hist)) \in 0..MaxVersion
    BY <1>1, <2>1, VersionType
  <2> QED
    BY <2>1, <2>2 DEF VersionOf
<1>t. \A r \in Items : r \in Releasables /\ plan.target[r] \in Version /\ plan.target[r] \in Nat
  BY <1>1 DEF PlanType, Version
<1>s. ASSUME pc' \notin {"commit", "alone"}, NEW r \in Releasables
      PROVE  \A n \in Standing' : VersionAt(r, n)' = VersionOf(r)'
  <2>1. SUFFICES ASSUME NEW n \in Standing' PROVE VersionAt(r, n)' = VersionOf(r)'
    OBVIOUS
  <2>2. Floor' = Len(hist')
    BY <1>s DEF Floor, MayUnwind
  <2>3. n = Len(hist')
    BY <1>f, <2>1, <2>2 DEF Standing
  <2> QED
    BY <2>3 DEF VersionOf
<1>h. ASSUME hist' = hist, NEW r \in Releasables PROVE VersionOf(r)' = VersionOf(r)
  BY <1>h, VersionSteps
<1>3. CASE CommitArchive
  <2>0. hist' = Commit("filed", "", 0)
    BY <1>3, Zenon DEF CommitArchive
  <2>1. /\ pc = "archive" /\ pc' = "clear" /\ file' = NoFile
        /\ plan' = plan /\ ltag' = ltag /\ otag' = otag
    BY <1>3, Zenon DEF CommitArchive, Go, tagVars
  <2>2. file # NoFile /\ Finished /\ plan.blob = file.id
    BY <1>1, <2>1 DEF Follows, ThisFile
  <2>3. plan.blob[1] = Cardinality(Filed')
    BY <1>1, <1>2, <1>3, <2>2 DEF FilePart
  <2>4. FilePart'
    <3>1. Cardinality(Filed') \in Nat /\ plan'.blob[1] = Cardinality(Filed')
      BY <1>2, <1>3, <2>1, <2>3
    <3>2. plan'.blob[1] =< 1 + Cardinality(Filed') /\ plan'.blob[1] =< Cardinality(Filed')
      BY <3>1
    <3> QED
      BY <2>1, <3>2 DEF FilePart
  <2>5. ASSUME NEW r \in Items
        PROVE  /\ ltag'[r][plan.target[r]] # 0 /\ otag'[r][plan.target[r]] # 0
               /\ \A n \in Standing' : plan.target[r] =< VersionAt(r, n)'
    <3>1. ItemReleased(r)
      BY <2>2 DEF Finished, Released
    <3>2. Beside(r)
      <4>1. 0 \in 0..MaxVersion
        BY BatchAssumption
      <4>2. Topped([kind |-> "filed", of |-> "", ver |-> 0])
        BY <1>1, <2>0, <4>1, Grown DEF Kinds
      <4> QED
        BY <4>2 DEF Beside, Topped
    <3>3. VersionOf(r)' = VersionOf(r)
      BY <1>t, <3>2, BesideKeeps
    <3>4. \A n \in Standing' : VersionAt(r, n)' = VersionOf(r)
      BY <1>s, <1>t, <2>1, <3>3
    <3> QED
      BY <1>t, <2>1, <3>1, <3>4 DEF ItemReleased
  <2>6. PlanAhead'
    <3>1. Items' = Items /\ (LeftOver' \/ ~Planned')
      BY <1>2, <1>3, <2>1, <2>3 DEF Items, LeftOver
    <3> QED
      BY <2>1, <2>5, <3>1 DEF PlanAhead
  <2> QED
    BY <2>4, <2>6, FilingIsNext
<1>4. CASE WriteFile
  <2>1. /\ pc = "idle" /\ pc' = pc /\ file = NoFile /\ hist' = hist /\ plan' = plan
        /\ file'.id = <<1 + Cardinality(Filed), 0>> /\ since' = [r \in Releasables |-> VersionOf(r)]
    BY <1>4 DEF WriteFile, Idle, repoVars
  <2>2. Filed' = Filed
    BY <2>1 DEF Filed
  <2>3. plan.blob[1] =< Cardinality(Filed) /\ file'.id[1] = 1 + Cardinality(Filed)
    BY <1>1, <2>1 DEF FilePart
  <2>4. ~Planned \/ LeftOver
    BY <2>3 DEF LeftOver
  <2>5. PlanAhead'
    BY <1>1, <2>1, <2>2, <2>4, PlanAheadStays
  <2>6. \A r \in Releasables, n \in Standing' : since'[r] =< VersionAt(r, n)'
    <3>1. SUFFICES ASSUME NEW r \in Releasables, NEW n \in Standing'
                   PROVE  since'[r] =< VersionAt(r, n)'
      OBVIOUS
    <3>2. VersionAt(r, n)' = VersionOf(r) /\ since'[r] = VersionOf(r) /\ VersionOf(r) \in Nat
      BY <1>h, <1>s, <1>v, <2>1
    <3> QED
      BY <3>2
  <2>7. FilePart'
    <3>1. file' # NoFile
      BY <1>2, <1>n, <2>3
    <3>2. plan'.blob[1] =< 1 + Cardinality(Filed)
      <4>1. plan.blob[1] \in Nat
        BY <1>1 DEF PlanType
      <4> QED
        BY <1>2, <2>1, <2>3, <4>1
    <3> QED
      BY <2>2, <2>3, <2>6, <3>1, <3>2 DEF FilePart
  <2> QED
    BY <2>5, <2>7, FilingIsNext
<1>5. CASE EditFile
  <2>1. /\ hist' = hist /\ plan' = plan /\ since' = since /\ file # NoFile
        /\ file'.id = [file.id EXCEPT ![2] = @ + 1]
    BY <1>5 DEF EditFile, repoVars
  <2>2. Filed' = Filed
    BY <2>1 DEF Filed
  <2>3. file'.id[1] = file.id[1]
    BY <1>1, <2>1 DEF FileType
  <2>4. file' # NoFile
    <3>1. file.id[1] = 1 + Cardinality(Filed)
      BY <1>1, <2>1 DEF FilePart
    <3> QED
      BY <1>2, <1>n, <2>3, <3>1
  <2>5. PlanAhead' /\ FilePart'
    BY <1>1, <2>1, <2>2, <2>3, <2>4, PlanAheadStays, FilePartStays
  <2> QED
    BY <2>5, FilingIsNext
<1>6. CASE file' = file /\ since' = since /\ ~CommitArchive
  <2>0. Filed' = Filed
    BY <1>2, <1>6
  <2>a. ASSUME file # NoFile, plan'.blob = file.id PROVE ~LeftOver' /\ FilePart'
    <3>1. plan'.blob[1] = 1 + Cardinality(Filed)
      BY <1>1, <2>a DEF FilePart
    <3>2. ~LeftOver'
      BY <1>2, <2>0, <3>1 DEF LeftOver
    <3> QED
      BY <1>1, <1>6, <2>0, <2>a, <3>2, FilePartStays
  <2>1. CASE plan' = plan
    BY <1>1, <1>6, <2>0, <2>1, PlanAheadStays, FilePartStays, FilingIsNext
  <2>2. CASE plan' = NoPlan
    <3>1. PlanAhead'
      BY <1>n, <2>2 DEF PlanAhead, LeftOver, Planned
    <3>2. FilePart'
      BY <1>1, <1>6, <2>0, <2>2, FilePartStays
    <3> QED
      BY <3>1, <3>2, FilingIsNext
  <2>3. CASE Marked /\ BeginRun
    <3>1. /\ file # NoFile /\ hist' = hist /\ Released # Items
          /\ plan'.blob = file.id /\ plan'.target = plan.target /\ Items' = Items
          /\ pc' \notin {"commit", "alone"}
      BY <1>1, <2>3, MarkedKeeps DEF Marked, BeginRun, Go, Idle, repoVars, Items
    <3>2. ~LeftOver' /\ FilePart'
      BY <2>a, <3>1
    <3>3. CASE LeftOver
      <4>1. PICK r \in Items : ~ItemReleased(r)
        BY <3>1 DEF Released
      <4>2. /\ ltag[r][plan.target[r]] # 0 /\ otag[r][plan.target[r]] # 0
            /\ plan.target[r] =< VersionOf(r)
        <5>1. Len(hist) \in Standing
          BY <1>f DEF Standing
        <5> QED
          BY <1>1, <3>3, <5>1 DEF PlanAhead, VersionOf
      <4>3. plan.target[r] < VersionOf(r)
        <5>1. VersionOf(r) # plan.target[r]
          BY <4>1, <4>2 DEF ItemReleased
        <5> QED
          BY <1>t, <1>v, <4>2, <5>1
      <4>4. \A n \in Standing' : VersionAt(r, n)' = VersionOf(r)
        BY <1>h, <1>s, <1>t, <3>1
      <4>5. \A n \in Standing' : plan'.target[r] < VersionAt(r, n)'
        BY <3>1, <4>3, <4>4
      <4> QED
        BY <3>1, <3>2, <4>5, FilingIsNext DEF PlanAhead
    <3>4. CASE ~LeftOver
      <4>1. CASE \A r \in Items : since[r] < plan.target[r]
        BY <1>6, <3>1, <3>2, <4>1, FilingIsNext DEF PlanAhead
      <4>2. CASE \E r \in Items : \A n \in Standing : plan.target[r] < VersionAt(r, n)
        <5>1. PICK r \in Items : \A n \in Standing : plan.target[r] < VersionAt(r, n)
          BY <4>2
        <5>2. PICK x \in Nat : x = plan.target[r]
          BY <1>t
        <5>3. \A n \in Standing' : x < VersionAt(r, n)'
          BY <1>1, <1>t, <5>1, <5>2, ClimbsAbove
        <5>4. \A n \in Standing' : plan'.target[r] < VersionAt(r, n)'
          BY <3>1, <5>2, <5>3
        <5> QED
          BY <3>1, <3>2, <5>4, FilingIsNext DEF PlanAhead
      <4> QED
        BY <1>1, <2>3, <3>4, <4>1, <4>2 DEF PlanAhead, Marked
    <3> QED
      BY <3>3, <3>4
  <2>4. CASE Made /\ ValidateAndPlan
    <3>1. file # NoFile /\ plan'.blob = file.id /\ Items' = Named
      BY <1>1, <2>4 DEF Made, ValidateAndPlan, Follows, Items, Named
    <3>2. ~LeftOver' /\ FilePart'
      BY <2>a, <3>1
    <3>3. ASSUME NEW r \in Named PROVE since'[r] < plan'.target[r]
      <4>1. /\ r \in Releasables /\ plan'.target[r] = VersionOf(r) + file.bump[r]
            /\ file.bump[r] \in Nat \ {0}
        BY <1>1, <2>4, MadeIs
      <4>2. since[r] =< VersionOf(r)
        <5>1. Len(hist) \in Standing
          BY <1>f DEF Standing
        <5> QED
          BY <1>1, <3>1, <4>1, <5>1 DEF FilePart, VersionOf
      <4>3. since[r] \in Nat /\ VersionOf(r) \in Nat
        BY <1>1, <1>v, <4>1, BatchAssumption
      <4> QED
        BY <1>6, <4>1, <4>2, <4>3
    <3> QED
      BY <3>1, <3>2, <3>3, FilingIsNext DEF PlanAhead
  <2> QED
    BY <1>1, <2>1, <2>2, <2>3, <2>4, PlanSteps
<1> QED
  BY <1>3, <1>4, <1>5, <1>6, FileSteps

-----------------------------------------------------------------------------
(* The properties. *)

\* A verified candidate is not moved.
LEMMA VerdictHolds ==
    ASSUME Structure, Held, Next
    PROVE  VerdictKept
<1>t. st \in [Releasables -> StateType] /\ m \in RunType
  BY DEF Structure, TypeOK
<1>1. ASSUME FinishPlan PROVE VerdictKept
  BY <1>1 DEF FinishPlan, VerdictKept
<1>2. ASSUME BeginRun PROVE VerdictKept
  BY <1>2 DEF BeginRun, VerdictKept
<1>3. ASSUME ValidateAndPlan PROVE VerdictKept
  BY <1>3 DEF ValidateAndPlan, VerdictKept
<1>4. ASSUME RootSelfdoc PROVE VerdictKept
  BY <1>4 DEF RootSelfdoc, VerdictKept
<1>5. ASSUME PushCandidate PROVE VerdictKept
  BY <1>5 DEF PushCandidate, VerdictKept
<1>6. ASSUME Gate PROVE VerdictKept
  BY <1>6 DEF Gate, VerdictKept
<1>7. ASSUME ArchiveIfComplete PROVE VerdictKept
  BY <1>7 DEF ArchiveIfComplete, VerdictKept
<1>8. ASSUME CommitArchive PROVE VerdictKept
  BY <1>8 DEF CommitArchive, VerdictKept
<1>9. ASSUME ClearPlan PROVE VerdictKept
  BY <1>9 DEF ClearPlan, VerdictKept
<1>10. ASSUME PushArchive PROVE VerdictKept
  BY <1>10 DEF PushArchive, VerdictKept
<1>11. ASSUME Refused PROVE VerdictKept
  BY <1>11 DEF Refused, VerdictKept
<1>12. ASSUME NEW r \in Releasables, Skip(r) PROVE VerdictKept
  BY <1>12 DEF Skip, VerdictKept
<1>13. ASSUME NEW r \in Releasables, Join(r) PROVE VerdictKept
  BY <1>13 DEF Join, VerdictKept
<1>14. ASSUME NEW r \in Releasables, CommitMember(r) PROVE VerdictKept
  <2>1. ~Verified(st[r]) /\ \A q \in Releasables \ {r} : st'[q] = st[q]
    BY <1>14, <1>t DEF CommitMember, Validates, InProgress, Verified, NoState
  <2> QED
    BY <2>1 DEF VerdictKept
<1>15. ASSUME NEW r \in Releasables, RecordPushed(r) PROVE VerdictKept
  <2>1. ~Verified(st[r]) /\ \A q \in Releasables \ {r} : st'[q] = st[q]
    BY <1>15, <1>t DEF RecordPushed, First, Held, Verified
  <2> QED
    BY <2>1 DEF VerdictKept
<1>16. ASSUME NEW r \in Releasables, AdoptCandidate(r) PROVE VerdictKept
  <2>1. ~Verified(st[r]) /\ \A q \in Releasables \ {r} : st'[q] = st[q]
    BY <1>16, <1>t DEF AdoptCandidate, Verified
  <2> QED
    BY <2>1 DEF VerdictKept
<1>17. ASSUME NEW r \in Releasables, CommitOwed(r) PROVE VerdictKept
  <2>1. /\ st'[r].rc = st[r].rc /\ st'[r].stage = st[r].stage
        /\ \A q \in Releasables \ {r} : st'[q] = st[q]
    BY <1>17, <1>t DEF CommitOwed, StateType
  <2> QED
    BY <2>1 DEF VerdictKept, Verified
<1>18. ASSUME NEW r \in Releasables, PushAlone(r) PROVE VerdictKept
  <2>1. ~Verified(st[r]) /\ \A q \in Releasables \ {r} : st'[q] = st[q]
    BY <1>18, <1>t DEF PushAlone, Verified
  <2> QED
    BY <2>1 DEF VerdictKept
<1>19. ASSUME NEW r \in Releasables, VerifyAlone(r) PROVE VerdictKept
  <2>1. ~Verified(st[r]) /\ \A q \in Releasables \ {r} : st'[q] = st[q]
    BY <1>19, <1>t DEF VerifyAlone, Verified
  <2> QED
    BY <2>1 DEF VerdictKept
<1>20. ASSUME NEW r \in Releasables, Finalize(r) PROVE VerdictKept
  <2>1. /\ st'[r].rc = st[r].rc /\ st'[r].stage = "finalized"
        /\ \A q \in Releasables \ {r} : st'[q] = st[q]
    BY <1>20, <1>t DEF Finalize, StateType
  <2> QED
    BY <2>1 DEF VerdictKept, Verified
<1>21. ASSUME NEW r \in Releasables, Tag(r) PROVE VerdictKept
  <2>1. /\ st'[r].rc = st[r].rc /\ st'[r].stage = "tagged"
        /\ \A q \in Releasables \ {r} : st'[q] = st[q]
    BY <1>21, <1>t DEF Tag, StateType
  <2> QED
    BY <2>1 DEF VerdictKept, Verified
<1>22. ASSUME NEW r \in Releasables, PushTag(r) PROVE VerdictKept
  <2>1. /\ st'[r].rc = st[r].rc /\ st'[r].stage = "onorigin"
        /\ \A q \in Releasables \ {r} : st'[q] = st[q]
    BY <1>22, <1>t DEF PushTag, StateType
  <2> QED
    BY <2>1 DEF VerdictKept, Verified
<1>23. ASSUME NEW r \in Releasables, Publish(r) PROVE VerdictKept
  <2>1. st'[r] = NoState /\ \A q \in Releasables \ {r} : st'[q] = st[q]
    BY <1>23, <1>t DEF Publish
  <2> QED
    BY <2>1 DEF VerdictKept
<1>24. ASSUME WriteFile PROVE VerdictKept
  BY <1>24 DEF WriteFile, VerdictKept
<1>25. ASSUME EditFile PROVE VerdictKept
  BY <1>25 DEF EditFile, VerdictKept
<1>26. ASSUME Work PROVE VerdictKept
  BY <1>26 DEF Work, VerdictKept
<1>27. ASSUME NEW r \in Releasables, ReleaseAlone(r) PROVE VerdictKept
  <2>1. ~Verified(st[r]) /\ \A q \in Releasables \ {r} : st'[q] = st[q]
    BY <1>27, <1>t DEF ReleaseAlone, Validates, InProgress, Verified, NoState
  <2> QED
    BY <2>1 DEF VerdictKept
<1>28. ASSUME NEW r \in Releasables, ResumeAlone(r) PROVE VerdictKept
  BY <1>28 DEF ResumeAlone, VerdictKept
<1>29. ASSUME NEW r \in Releasables, Abandon(r) PROVE VerdictKept
  <2>1. st'[r] = NoState /\ \A q \in Releasables \ {r} : st'[q] = st[q]
    BY <1>29, <1>t DEF Abandon
  <2> QED
    BY <2>1 DEF VerdictKept
<1>30. ASSUME NEW r \in Releasables, KilledCommitting(r) PROVE VerdictKept
  <2>1. ~Verified(st[r]) /\ \A q \in Releasables \ {r} : st'[q] = st[q]
    BY <1>30, <1>t DEF KilledCommitting, Validates, InProgress, Verified, NoState
  <2> QED
    BY <2>1 DEF VerdictKept
<1>31. ASSUME NEW r \in Releasables, DiscardMember(r) PROVE VerdictKept
  <2>1. st'[r] = NoState /\ \A q \in Releasables \ {r} : st'[q] = st[q]
    BY <1>31, <1>t DEF DiscardMember
  <2> QED
    BY <2>1 DEF VerdictKept
<1>32. ASSUME Stop PROVE VerdictKept
  <2>1. \A q \in Releasables : st'[q] \in {st[q], NoState}
    BY <1>32 DEF Stop
  <2> QED
    BY <2>1 DEF VerdictKept
<1> QED
  BY <1>1, <1>2, <1>3, <1>4, <1>5, <1>6, <1>7, <1>8, <1>9, <1>10, <1>11, <1>12,
     <1>13, <1>14, <1>15, <1>16, <1>17, <1>18, <1>19, <1>20, <1>21, <1>22, <1>23,
     <1>24, <1>25, <1>26, <1>27, <1>28, <1>29, <1>30, <1>31, <1>32
     DEF Next, Batch, Member, People, Faults

\* The archive of a batch file finds every release it names done since the
\* file was written: a plan of another file is not archived, and one that
\* planned below what the file found cannot be finished.
LEMMA FiledHolds ==
    ASSUME Structure, Plans, Next
    PROVE  FiledIsDone
<1> SUFFICES ASSUME file # NoFile, file' = NoFile, NEW r \in Named
             PROVE  ~InProgress(r) /\ \E v \in since[r] + 1..MaxVersion : otag[r][v] # 0
  BY DEF FiledIsDone
<1>n. NoFile.id[1] = 0
  BY DEF NoFile
<1>1. CommitArchive
  <2>1. ~WriteFile
    BY DEF WriteFile
  <2>2. ~EditFile
    <3>1. SUFFICES ASSUME EditFile PROVE FALSE
      OBVIOUS
    <3>2. file'.id = [file.id EXCEPT ![2] = @ + 1] /\ file.id \in Nat \X Nat
      BY <3>1 DEF EditFile, Structure, TypeOK, FileType
    <3>3. file'.id[1] = file.id[1] /\ file.id[1] = 1 + Cardinality(Filed)
      BY <3>2 DEF Plans, Filing
    <3>4. Cardinality(Filed) \in Nat
      <4>1. Len(hist) \in Nat /\ hist \in Seq(CommitType)
        BY DEF Structure, TypeOK
      <4> QED
        BY <4>1, FiledFinite
    <3> QED
      BY <1>n, <3>3, <3>4
  <2> QED
    BY <2>1, <2>2, FileSteps
<1>2. /\ Finished /\ Matches /\ plan.blob = file.id /\ PlanType /\ Filing
  BY <1>1 DEF CommitArchive, Plans, Follows, ThisFile
<1>3. /\ r \in Items /\ r \in Releasables /\ plan.target[r] \in Version
  BY <1>2 DEF Matches, PlanType, Named, Items
<1>4. ~InProgress(r) /\ otag[r][plan.target[r]] # 0 /\ \A q \in Items : VersionOf(q) = plan.target[q]
  BY <1>2, <1>3 DEF Finished, Released, ItemReleased
<1>5. Planned /\ ~LeftOver
  <2>1. Planned
    BY <1>3, NoItems
  <2>2. Cardinality(Filed) \in Nat
    <3>1. Len(hist) \in Nat /\ hist \in Seq(CommitType)
      BY DEF Structure, TypeOK
    <3> QED
      BY <3>1, FiledFinite
  <2>3. plan.blob[1] = 1 + Cardinality(Filed)
    BY <1>2 DEF Filing
  <2> QED
    BY <2>1, <2>2, <2>3 DEF LeftOver
<1>6. since[r] < plan.target[r]
  <2>1. ASSUME NEW q \in Items, \A n \in Standing : plan.target[q] < VersionAt(q, n) PROVE FALSE
    <3>1. Len(hist) \in Standing
      <4>1. Floor \in 1..Len(hist) /\ Len(hist) \in Nat
        BY DEF Structure, Grounded, TypeOK
      <4> QED
        BY <4>1 DEF Standing
    <3>2. plan.target[q] < VersionOf(q) /\ VersionOf(q) = plan.target[q]
      BY <1>4, <2>1, <3>1 DEF VersionOf
    <3>3. plan.target[q] \in Nat
      BY <1>2 DEF PlanType, Version
    <3> QED
      BY <3>2, <3>3
  <2> QED
    BY <1>2, <1>3, <1>5, <2>1 DEF Filing
<1>7. plan.target[r] \in since[r] + 1..MaxVersion
  <2>1. since[r] \in 0..MaxVersion /\ MaxVersion \in Nat
    BY <1>3, BatchAssumption DEF Structure, TypeOK
  <2> QED
    BY <1>3, <1>6, <2>1 DEF Version
<1> QED
  BY <1>4, <1>7

LEMMA OneOf == ASSUME NEW S, NEW s \in S PROVE <<s>> \in Seq(S)
OBVIOUS

IInv == Structure /\ Sound /\ Plans

LEMMA InitHolds == Init => IInv
<1> SUFFICES ASSUME Init PROVE IInv
  OBVIOUS
<1>a. MaxVersion \in Nat /\ 0 \in 0..MaxVersion
  BY BatchAssumption
<1>1. /\ hist \in Seq(CommitType) /\ Len(hist) = 1 /\ hist[1].kind = "work"
  <2>1. PICK q \in Releasables \cup {""} : q = ""
    OBVIOUS
  <2>2. hist = <<[kind |-> "work", of |-> q, ver |-> 0]>>
    BY <2>1, Zenon DEF Init
  <2>3. [kind |-> "work", of |-> q, ver |-> 0] \in CommitType
    BY <1>a DEF CommitType, Kinds
  <2>4. PICK c \in CommitType : hist = <<c>> /\ c.kind = "work"
    BY <2>2, <2>3
  <2>5. <<c>> \in Seq(CommitType) /\ Len(<<c>>) = 1 /\ <<c>>[1] = c
    <3>1. <<c>> \in Seq(CommitType)
      BY Zenon, OneOf
    <3>2. Len(<<c>>) = 1
      OBVIOUS
    <3>3. <<c>>[1] = c
      OBVIOUS
    <3> QED
      BY <3>1, <3>2, <3>3, Zenon
  <2> QED
    BY <2>4, <2>5, Zenon
<1>2. /\ origin = 1 /\ pc = "idle" /\ m = NoRun /\ file = NoFile /\ plan = NoPlan
      /\ verdicts = {} /\ touched = {} /\ cut = {}
      /\ ltag = [r \in Releasables |-> [v \in Version |-> 0]] /\ otag = ltag
      /\ st = [r \in Releasables |-> NoState] /\ since = [r \in Releasables |-> 0]
  BY Zenon DEF Init
<1>3. NoState \in StateType /\ NoRun \in RunType
  BY <1>a DEF NoState, StateType, Stages, NoRun, RunType
<1>4. TypeOK
  <2>1. /\ origin \in Nat /\ ltag \in [Releasables -> [Version -> Nat]]
        /\ otag \in [Releasables -> [Version -> Nat]] /\ st \in [Releasables -> StateType]
        /\ since \in [Releasables -> 0..MaxVersion] /\ pc \in Labels /\ m \in RunType
    BY <1>2, <1>3, <1>a DEF Labels
  <2>2. FileType
    BY <1>2 DEF NoFile, FileType, Named
  <2> QED
    BY <1>1, <2>1, <2>2 DEF TypeOK
<1>5. Floor = 1 /\ ~MayUnwind
  BY <1>1, <1>2 DEF Floor, MayUnwind
<1>6. Grounded
  BY <1>1, <1>2, <1>5 DEF Grounded, Idle, NoRun
<1>7. Pinned
  BY <1>2 DEF Pinned, NoRun, NoState
<1>8. \A r \in Releasables : ~InProgress(r) /\ st[r].stage = "none" /\ ~st[r].committed
                             /\ \A v \in Version : ltag[r][v] = 0
  BY <1>2 DEF InProgress, NoState
<1>9. Sound
  <2>1. Carried /\ CommittedStays
    BY <1>8 DEF Carried, CommittedStays, Verified
  <2>2. TagHasBumpUnlessCut /\ Unpushed
    BY <1>8 DEF TagHasBumpUnlessCut, Unpushed
  <2>3. Held
    BY <1>2 DEF Held
  <2> QED
    BY <2>1, <2>2, <2>3 DEF Sound
<1>10. ~Planned /\ Items = {}
  BY <1>2, NoItems DEF Planned
<1>11. Plans
  <2>1. PlanType
    BY <1>2, <1>10 DEF PlanType, NoPlan, Items
  <2>2. Follows /\ Kept
    BY <1>2, <1>10 DEF Follows, Kept
  <2>3. Filing
    <3>1. plan.blob[1] = 0
      BY <1>2 DEF NoPlan
    <3>2. Cardinality(Filed) \in Nat
      BY <1>1, FiledFinite
    <3>3. plan.blob[1] =< 1 + Cardinality(Filed) /\ plan.blob[1] =< Cardinality(Filed)
      BY <3>1, <3>2
    <3> QED
      BY <1>2, <1>10, <3>3 DEF Filing, LeftOver
  <2> QED
    BY <2>1, <2>2, <2>3 DEF Plans
<1> QED
  BY <1>4, <1>6, <1>7, <1>9, <1>11 DEF IInv, Structure

LEMMA StepHolds ==
    ASSUME IInv, Next
    PROVE  IInv' /\ VerdictKept /\ FiledIsDone
<1>1. Structure /\ Sound /\ Plans /\ Held /\ PlanType
  BY DEF IInv, Sound, Plans
<1>2. Structure'
  BY <1>1, StructureKept
<1>3. Course /\ Turn
  BY <1>1, CourseHolds
<1>4. Sound'
  <2>1. \A r \in Releasables : SoundOf(r)'
    BY <1>1, <1>2, <1>3, SoundOfKept
  <2>2. Held'
    BY <1>1, <1>2, <1>3, HeldKept
  <2> QED
    BY <2>1, <2>2, SoundIsNext
<1>5. Plans'
  <2>1. PlanType'
    BY <1>1, PlanTypeKept
  <2>2. Follows' /\ Kept' /\ Filing'
    BY <1>1, <1>2, <1>3, FollowsKept, KeptKept, FilingKept
  <2> QED
    BY <2>1, <2>2 DEF Plans
<1>6. VerdictKept /\ FiledIsDone
  BY <1>1, VerdictHolds, FiledHolds
<1> QED
  BY <1>2, <1>4, <1>5, <1>6 DEF IInv

LEMMA StutterHolds ==
    ASSUME IInv, UNCHANGED vars
    PROVE  IInv'
<1>1. /\ hist' = hist /\ origin' = origin /\ ltag' = ltag /\ otag' = otag /\ st' = st
      /\ file' = file /\ plan' = plan /\ since' = since /\ pc' = pc /\ m' = m
      /\ verdicts' = verdicts /\ touched' = touched /\ cut' = cut
  BY DEF vars, repoVars, tagVars, fileVars
<1>2. Structure'
  BY <1>1, Zenon DEF IInv, Structure, TypeOK, FileType, Named, Grounded, Pinned, Floor,
     MayUnwind, Idle
<1>v. /\ \A r, n : VersionAt(r, n)' = VersionAt(r, n)
      /\ \A r : VersionOf(r)' = VersionOf(r) /\ (InProgress(r)' <=> InProgress(r))
  <2>1. \A r, n : VersionAt(r, n)' = VersionAt(r, n)
    BY <1>1 DEF VersionAt
  <2> QED
    BY <1>1, <2>1, Zenon DEF VersionOf, InProgress
<1>w. /\ Items' = Items /\ Named' = Named /\ (Planned' <=> Planned) /\ Standing' = Standing
      /\ Filed' = Filed
  BY <1>1, Zenon DEF Items, Named, Planned, Standing, Floor, MayUnwind, Filed
<1>r. \A r : ItemReleased(r)' <=> ItemReleased(r)
  BY <1>1, <1>v, Zenon DEF ItemReleased
<1>3. Sound'
  <2>1. Carried' /\ CommittedStays'
    BY <1>1, <1>v, Zenon DEF IInv, Sound, Carried, CommittedStays, Verified
  <2>2. TagHasBumpUnlessCut' /\ Unpushed'
    BY <1>1, <1>v, Zenon DEF IInv, Sound, TagHasBumpUnlessCut, Unpushed
  <2>3. Held'
    BY <1>1, <1>v, Zenon DEF IInv, Sound, Held
  <2> QED
    BY <2>1, <2>2, <2>3 DEF Sound
<1>4. PlanType' /\ Follows'
  <2>1. PlanType'
    BY <1>1, <1>w, Zenon DEF IInv, Plans, PlanType
  <2>2. (Finished' <=> Finished) /\ (Matches' <=> Matches) /\ (ThisFile' <=> ThisFile)
    <3>1. Released' = Released
      BY <1>r, <1>w DEF Released
    <3> QED
      BY <1>1, <1>v, <1>w, <3>1, Zenon DEF Finished, Matches, ThisFile
  <2>3. Follows'
    BY <1>1, <1>r, <1>w, <2>2 DEF IInv, Plans, Follows
  <2> QED
    BY <2>1, <2>3
<1>5. Kept' /\ Filing'
  <2>1. Kept'
    BY <1>1, <1>v, <1>w DEF IInv, Plans, Kept, Never
  <2>2. Filing'
    BY <1>1, <1>v, <1>w DEF IInv, Plans, Filing, LeftOver
  <2> QED
    BY <2>1, <2>2
<1> QED
  BY <1>2, <1>3, <1>4, <1>5 DEF IInv, Plans

\* What nobody touched is at the version the plan found or at the one it plans.
LEMMA BatchIsSoundHolds == ASSUME IInv PROVE BatchIsSound
<1>1. TagHasBumpUnlessCut /\ CommittedStays
  BY DEF IInv, Sound
<1>2. PlanKept
  <2>1. Len(hist) \in Standing
    <3>1. Floor \in 1..Len(hist) /\ Len(hist) \in Nat
      BY DEF IInv, Structure, Grounded, TypeOK
    <3> QED
      BY <3>1 DEF Standing
  <2> QED
    BY <2>1 DEF IInv, Plans, Kept, PlanKept, VersionOf
<1> QED
  BY <1>1, <1>2 DEF BatchIsSound

\* In every run of batches, ordinary releases, failures and kills, what a batch
\* leaves of a releasable is a release to go on from: the commit its state
\* records is on the branch, its tags are of commits CI passed that hold its
\* release commit, and it is at the version planned or the one it was found at
\* (internal/batchrelease, internal/release/batch.go).
THEOREM BatchSound == Spec => []BatchIsSound
<1>1. IInv /\ [Next]_vars => IInv'
  BY StepHolds, StutterHolds
<1>2. IInv => BatchIsSound
  BY BatchIsSoundHolds
<1> QED
  BY <1>1, <1>2, InitHolds, PTL DEF Spec

\* The commit CI verified for a release is not moved by a later candidate, and
\* a batch file is archived only once every releasable it names was released
\* since the file was written (stranded, adoptBatchCandidate, archiveIfComplete,
\* finishCompletedPlan and the plan's blob).
THEOREM BatchSettles == Spec => SettledStays
<1>1. IInv /\ [Next]_vars => IInv'
  BY StepHolds, StutterHolds
<1>2. IInv /\ [Next]_vars => [VerdictKept /\ FiledIsDone]_vars
  BY StepHolds
<1> QED
  BY <1>1, <1>2, InitHolds, PTL DEF Spec, SettledStays
=============================================================================
