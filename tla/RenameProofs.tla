---------------------------- MODULE RenameProofs ----------------------------
(***************************************************************************)
(* What a rename leaves at every moment, proved for any number of          *)
(* versions and interruptions.  The inductive invariant says what each     *)
(* step of the run may rely on: from its commit on the renamed releasable  *)
(* is whole at HEAD, from its stamping on no release is left to stamp, and *)
(* from its alias on the tag here and the one on origin agree.             *)
(***************************************************************************)
EXTENDS Rename, TLAPS

(* Where the run stands, by what it has behind it.                         *)
Declared == Steps \ {"idle", "declare"}
Moved == Declared \ {"move"}
Recorded == Moved \ {"record"}
Renamed == Recorded \ {"routers", "commit"}
Stamped == Renamed \ {"stamp"}
Aliased == {"recordAlias", "commitAlias", "push"}

WholeHead ==
  /\ HeadIsWhole
  /\ tree.decl = "old" => tree = head /\ renamedAt = None
  /\ head.decl = "old" => head.shippedAs = {}
  /\ head.decl = "new" => tree.decl = "new" /\ tree.moved = Dirs /\ tree.record = "new"
  /\ head.shippedAs \subseteq tree.shippedAs

StepInv ==
  /\ pc = "declare" => tree.decl = "old"
  /\ pc \in Declared => tree.decl = "new"
  /\ pc \in Moved => tree.moved = Dirs
  /\ pc \in Recorded => tree.record = "new"
  /\ pc \in Renamed => head.decl = "new"

PastInv ==
  /\ renamedAt \in 0..version
  /\ \A v \in Versions, n \in Names :
       v > version => tags[<<n, v>>] = None /\ origin[<<n, v>>] = None
  /\ tree.decl = "new" =>
       /\ renamedAt # None
       /\ \A v \in Versions : v > renamedAt => tags[<<"old", v>>] # v
  /\ OnlyOldStamped

AliasInv ==
  /\ pc \in Stamped => \A v \in 1..version : ShippedUnderOld(v) => v \in tree.shippedAs
  /\ pc \in Aliased => tags[Alias] # None /\ origin[Alias] \in {None, tags[Alias]}
  /\ pc \in {"commitAlias", "push"} => tree.alias

IInv == TypeOK /\ WholeHead /\ StepInv /\ PastInv /\ AliasInv

-----------------------------------------------------------------------------
LEMMA InitHolds == Init => IInv
<1> SUFFICES ASSUME Init PROVE IInv
  OBVIOUS
<1> USE RenameAssumption DEF None, Elsewhere
<1>1. PICK at \in [1..Shipped -> {None, Elsewhere} \cup Versions] :
        /\ \A v \in 1..Shipped : at[v] \in {None, Elsewhere, v}
        /\ LET released == [p \in Names \X Versions |->
                              IF p[1] = "old" /\ p[2] <= Shipped THEN at[p[2]] ELSE None]
           IN \E here, there \in {None, Elsewhere} :
                /\ tags = [released EXCEPT ![<<"new", Shipped>>] = here]
                /\ origin = [released EXCEPT ![<<"new", Shipped>>] = there]
  BY DEF Init
<1> DEFINE released == [p \in Names \X Versions |->
                          IF p[1] = "old" /\ p[2] <= Shipped THEN at[p[2]] ELSE None]
<1>2. PICK here \in {None, Elsewhere}, there \in {None, Elsewhere} :
        /\ tags = [released EXCEPT ![<<"new", Shipped>>] = here]
        /\ origin = [released EXCEPT ![<<"new", Shipped>>] = there]
  BY <1>1
<1>3. released \in TagsOf
  BY DEF TagsOf, Commits, Names, Versions
<1>4. tags \in TagsOf /\ origin \in TagsOf
  BY <1>2, <1>3 DEF TagsOf, Commits, Names, Versions
<1>5. head \in Content /\ tree = head /\ head.decl = "old" /\ head.moved = {}
      /\ head.record = "old" /\ head.shippedAs = {}
  BY DEF Init, Content, Names, Dirs
<1>a. /\ version = Shipped /\ renamedAt = None /\ pc = "idle" /\ written = {}
      /\ done = FALSE /\ stops = 0
  BY DEF Init
<1>6. TypeOK
  <2>1. version \in Versions
    BY <1>a DEF Versions
  <2>2. renamedAt \in Commits
    BY <1>a DEF Commits
  <2>3. stops \in 0..MaxStops
    BY <1>a
  <2>4. pc \in Steps
    BY <1>a DEF Steps
  <2> HIDE DEF None, Elsewhere
  <2> QED
    BY <2>1, <2>2, <2>3, <2>4, <1>4, <1>5, <1>a DEF TypeOK
<1>7. WholeHead /\ StepInv /\ AliasInv
  BY <1>5 DEF Init, WholeHead, HeadIsWhole, StepInv, AliasInv, Declared, Moved, Recorded,
              Renamed, Stamped, Aliased, Steps
<1>8. \A v \in Versions, n \in Names : v > version => released[<<n, v>>] = None
  BY DEF Init, Versions, Names
<1>9. PastInv
  <2>1. \A v \in Versions, n \in Names :
          v > version => tags[<<n, v>>] = None /\ origin[<<n, v>>] = None
    BY <1>2, <1>3, <1>8 DEF Init, TagsOf, Versions, Names
  <2> QED
    BY <2>1, <1>5 DEF Init, PastInv, OnlyOldStamped, Versions
<1> QED
  BY <1>6, <1>7, <1>9 DEF IInv


-----------------------------------------------------------------------------
LEMMA TypeKept == IInv /\ [Next]_vars => TypeOK'
<1> SUFFICES ASSUME IInv, [Next]_vars PROVE TypeOK'
  OBVIOUS
<1> USE RenameAssumption DEF IInv, TypeOK, Content, Names, Dirs, Versions, Commits, Steps, Fields,
           TagsOf, Alias, None, Elsewhere
<1>1. CASE Begin
  BY <1>1 DEF Begin, Clean
<1>2. CASE Declare
  BY <1>2 DEF Declare
<1>3. CASE Move
  BY <1>3 DEF Move
<1>4. CASE RenameSubjects
  BY <1>4 DEF RenameSubjects
<1>5. CASE SyncRouters
  BY <1>5 DEF SyncRouters
<1>6. CASE CommitRename
  BY <1>6 DEF CommitRename, Committing, AlwaysCommitted
<1>7. CASE Stamp
  BY <1>7 DEF Stamp, Unstamped
<1>8. CASE CommitStamps
  BY <1>8 DEF CommitStamps, Committing
<1>9. CASE NoAliasOwed
  BY <1>9 DEF NoAliasOwed, Finish
<1>10. CASE CreateAlias
  BY <1>10 DEF CreateAlias, AliasAt, AliasHeld, NothingToAlias
<1>11. CASE RecordAlias
  BY <1>11 DEF RecordAlias, RecordOwed
<1>12. CASE CommitAlias
  BY <1>12 DEF CommitAlias, Committing
<1>13. CASE PushAlias
  BY <1>13 DEF PushAlias, Finish
<1>14. CASE Kill
  BY <1>14 DEF Kill, Interrupt
<1>15. CASE LoseAnswer
  BY <1>15 DEF LoseAnswer, Interrupt
<1>16. CASE Restore
  BY <1>16 DEF Restore, Interrupt, Clean
<1>17. CASE Release
  BY <1>17 DEF Release, Clean
<1>18. CASE Rest
  BY <1>18 DEF Rest, vars
<1>19. CASE UNCHANGED vars
  BY <1>19 DEF vars
<1> QED
  BY <1>1, <1>2, <1>3, <1>4, <1>5, <1>6, <1>7, <1>8, <1>9, <1>10, <1>11, <1>12, <1>13, <1>14, <1>15, <1>16, <1>17, <1>18, <1>19 DEF Next, Advance

LEMMA WholeKept == IInv /\ [Next]_vars => WholeHead'
<1> SUFFICES ASSUME IInv, [Next]_vars PROVE WholeHead'
  OBVIOUS
<1> USE RenameAssumption DEF IInv, TypeOK, Content, Fields, WholeHead, HeadIsWhole, StepInv,
           Declared, Moved, Recorded, Renamed, Steps
<1>1. CASE Begin
  BY <1>1 DEF Begin, Clean
<1>2. CASE Declare
  BY <1>2 DEF Declare
<1>3. CASE Move
  BY <1>3 DEF Move
<1>4. CASE RenameSubjects
  BY <1>4 DEF RenameSubjects
<1>5. CASE SyncRouters
  BY <1>5 DEF SyncRouters
<1>6. CASE CommitRename
  BY <1>6 DEF CommitRename, Committing, AlwaysCommitted
<1>7. CASE Stamp
  BY <1>7 DEF Stamp, Unstamped
<1>8. CASE CommitStamps
  BY <1>8 DEF CommitStamps, Committing
<1>9. CASE NoAliasOwed
  BY <1>9 DEF NoAliasOwed, Finish
<1>10. CASE CreateAlias
  BY <1>10 DEF CreateAlias, AliasAt, AliasHeld, NothingToAlias
<1>11. CASE RecordAlias
  BY <1>11 DEF RecordAlias, RecordOwed
<1>12. CASE CommitAlias
  BY <1>12 DEF CommitAlias, Committing
<1>13. CASE PushAlias
  BY <1>13 DEF PushAlias, Finish
<1>14. CASE Kill
  BY <1>14 DEF Kill, Interrupt
<1>15. CASE LoseAnswer
  BY <1>15 DEF LoseAnswer, Interrupt
<1>16. CASE Restore
  BY <1>16 DEF Restore, Interrupt, Clean
<1>17. CASE Release
  BY <1>17 DEF Release, Clean
<1>18. CASE Rest
  BY <1>18 DEF Rest, vars
<1>19. CASE UNCHANGED vars
  BY <1>19 DEF vars
<1> QED
  BY <1>1, <1>2, <1>3, <1>4, <1>5, <1>6, <1>7, <1>8, <1>9, <1>10, <1>11, <1>12, <1>13, <1>14, <1>15, <1>16, <1>17, <1>18, <1>19 DEF Next, Advance

LEMMA StepKept == IInv /\ [Next]_vars => StepInv'
<1> SUFFICES ASSUME IInv, [Next]_vars PROVE StepInv'
  OBVIOUS
<1> USE RenameAssumption DEF IInv, TypeOK, Content, Fields, WholeHead, StepInv, Declared, Moved,
           Recorded, Renamed, Steps
<1>1. CASE Begin
  BY <1>1 DEF Begin, Clean
<1>2. CASE Declare
  BY <1>2 DEF Declare
<1>3. CASE Move
  BY <1>3 DEF Move
<1>4. CASE RenameSubjects
  BY <1>4 DEF RenameSubjects
<1>5. CASE SyncRouters
  BY <1>5 DEF SyncRouters
<1>6. CASE CommitRename
  BY <1>6 DEF CommitRename, Committing, AlwaysCommitted
<1>7. CASE Stamp
  BY <1>7 DEF Stamp, Unstamped
<1>8. CASE CommitStamps
  BY <1>8 DEF CommitStamps, Committing
<1>9. CASE NoAliasOwed
  BY <1>9 DEF NoAliasOwed, Finish
<1>10. CASE CreateAlias
  BY <1>10 DEF CreateAlias, AliasAt, AliasHeld, NothingToAlias
<1>11. CASE RecordAlias
  BY <1>11 DEF RecordAlias, RecordOwed
<1>12. CASE CommitAlias
  BY <1>12 DEF CommitAlias, Committing
<1>13. CASE PushAlias
  BY <1>13 DEF PushAlias, Finish
<1>14. CASE Kill
  BY <1>14 DEF Kill, Interrupt
<1>15. CASE LoseAnswer
  BY <1>15 DEF LoseAnswer, Interrupt
<1>16. CASE Restore
  BY <1>16 DEF Restore, Interrupt, Clean
<1>17. CASE Release
  BY <1>17 DEF Release, Clean
<1>18. CASE Rest
  BY <1>18 DEF Rest, vars
<1>19. CASE UNCHANGED vars
  BY <1>19 DEF vars
<1> QED
  BY <1>1, <1>2, <1>3, <1>4, <1>5, <1>6, <1>7, <1>8, <1>9, <1>10, <1>11, <1>12, <1>13, <1>14, <1>15, <1>16, <1>17, <1>18, <1>19 DEF Next, Advance

LEMMA PastKept == IInv /\ [Next]_vars => PastInv'
<1> SUFFICES ASSUME IInv, [Next]_vars PROVE PastInv'
  OBVIOUS
<1> USE RenameAssumption DEF IInv, TypeOK, Content, Fields, Names, Versions, TagsOf, WholeHead,
           StepInv, Declared, Moved, Recorded, Renamed, Stamped, Steps,
           PastInv, OnlyOldStamped, ShippedUnderOld, Alias, None
<1>1. CASE Begin
  BY <1>1 DEF Begin, Clean
<1>2. CASE Declare
  <2>1. tree'.shippedAs = {} /\ renamedAt' = version /\ version \in Versions
    BY <1>2 DEF Declare
  <2>2. \A v \in Versions : v > version => tags[<<"old", v>>] = None
    OBVIOUS
  <2> QED
    BY <1>2, <2>1, <2>2 DEF Declare
<1>3. CASE Move
  BY <1>3 DEF Move
<1>4. CASE RenameSubjects
  BY <1>4 DEF RenameSubjects
<1>5. CASE SyncRouters
  BY <1>5 DEF SyncRouters
<1>6. CASE CommitRename
  BY <1>6 DEF CommitRename, Committing, AlwaysCommitted
<1>7. CASE Stamp
  <2>1. CASE \E v \in Unstamped : tree' = [tree EXCEPT !.shippedAs = @ \cup {v}]
    <3>1. PICK v \in Unstamped : tree' = [tree EXCEPT !.shippedAs = @ \cup {v}]
      BY <2>1
    <3>2. tags[<<"old", v>>] = v /\ v \in 1..version /\ v \in Versions
      BY DEF Unstamped
    <3>3. tree.decl = "new" /\ v <= renamedAt
      BY <1>7, <3>2 DEF Stamp
    <3>4. tree'.shippedAs = tree.shippedAs \cup {v} /\ tree'.decl = tree.decl
      BY <3>1
    <3> QED
      BY <1>7, <3>2, <3>3, <3>4 DEF Stamp
  <2>2. CASE UNCHANGED tree
    BY <1>7, <2>2 DEF Stamp
  <2> QED
    BY <1>7, <2>1, <2>2 DEF Stamp
<1>8. CASE CommitStamps
  BY <1>8 DEF CommitStamps, Committing
<1>9. CASE NoAliasOwed
  BY <1>9 DEF NoAliasOwed, Finish
<1>10. CASE CreateAlias
  BY <1>10 DEF CreateAlias, AliasAt, AliasHeld, NothingToAlias
<1>11. CASE RecordAlias
  BY <1>11 DEF RecordAlias, RecordOwed
<1>12. CASE CommitAlias
  BY <1>12 DEF CommitAlias, Committing
<1>13. CASE PushAlias
  BY <1>13 DEF PushAlias, Finish
<1>14. CASE Kill
  BY <1>14 DEF Kill, Interrupt
<1>15. CASE LoseAnswer
  BY <1>15 DEF LoseAnswer, Interrupt
<1>16. CASE Restore
  BY <1>16 DEF Restore, Interrupt, Clean
<1>17. CASE Release
  BY <1>17 DEF Release, Clean
<1>18. CASE Rest
  BY <1>18 DEF Rest, vars
<1>19. CASE UNCHANGED vars
  BY <1>19 DEF vars
<1> QED
  BY <1>1, <1>2, <1>3, <1>4, <1>5, <1>6, <1>7, <1>8, <1>9, <1>10, <1>11, <1>12, <1>13, <1>14, <1>15, <1>16, <1>17, <1>18, <1>19 DEF Next, Advance

LEMMA AliasKept == IInv /\ [Next]_vars => AliasInv'
<1> SUFFICES ASSUME IInv, [Next]_vars PROVE AliasInv'
  OBVIOUS
<1> USE RenameAssumption DEF IInv, TypeOK, Content, Fields, Names, Versions, TagsOf, WholeHead,
           StepInv, PastInv, AliasInv, Declared, Moved, Recorded, Renamed,
           Stamped, Aliased, Steps, ShippedUnderOld, Alias, None
<1>1. CASE Begin
  BY <1>1 DEF Begin, Clean
<1>2. CASE Declare
  BY <1>2 DEF Declare
<1>3. CASE Move
  BY <1>3 DEF Move
<1>4. CASE RenameSubjects
  BY <1>4 DEF RenameSubjects
<1>5. CASE SyncRouters
  BY <1>5 DEF SyncRouters
<1>6. CASE CommitRename
  BY <1>6 DEF CommitRename, Committing, AlwaysCommitted
<1>7. CASE Stamp
  BY <1>7 DEF Stamp, Unstamped
<1>8. CASE CommitStamps
  BY <1>8 DEF CommitStamps, Committing
<1>9. CASE NoAliasOwed
  BY <1>9 DEF NoAliasOwed, Finish
<1>10. CASE CreateAlias
  BY <1>10 DEF CreateAlias, AliasAt, AliasHeld, NothingToAlias
<1>11. CASE RecordAlias
  BY <1>11 DEF RecordAlias, RecordOwed
<1>12. CASE CommitAlias
  BY <1>12 DEF CommitAlias, Committing
<1>13. CASE PushAlias
  BY <1>13 DEF PushAlias, Finish
<1>14. CASE Kill
  BY <1>14 DEF Kill, Interrupt
<1>15. CASE LoseAnswer
  BY <1>15 DEF LoseAnswer, Interrupt
<1>16. CASE Restore
  BY <1>16 DEF Restore, Interrupt, Clean
<1>17. CASE Release
  BY <1>17 DEF Release, Clean
<1>18. CASE Rest
  BY <1>18 DEF Rest, vars
<1>19. CASE UNCHANGED vars
  BY <1>19 DEF vars
<1> QED
  BY <1>1, <1>2, <1>3, <1>4, <1>5, <1>6, <1>7, <1>8, <1>9, <1>10, <1>11, <1>12, <1>13, <1>14, <1>15, <1>16, <1>17, <1>18, <1>19 DEF Next, Advance

-----------------------------------------------------------------------------
LEMMA Invariance == Spec => []IInv
<1>1. IInv /\ [Next]_vars => IInv'
  BY TypeKept, WholeKept, StepKept, PastKept, AliasKept DEF IInv
<1> QED
  BY InitHolds, <1>1, PTL DEF Spec

(* At every commit and in every working tree of a rename, killed and run   *)
(* again however often, the releasable has one name, and only what shipped *)
(* under the old one says so.                                              *)
THEOREM NamesStayTrue == Spec => []NamesAreTrue
<1>1. IInv => NamesAreTrue
  BY DEF IInv, WholeHead, PastInv, NamesAreTrue
<1> QED
  BY Invariance, <1>1, PTL

(* No step of a rename moves or deletes a tag, here or on origin: the      *)
(* alias is created where there was none, and a lost answer pushes the     *)
(* same tag again.                                                         *)
THEOREM TagsNeverMove == Spec => TagsStay
<1>1. IInv /\ [Next]_vars =>
        [\A p \in Names \X Versions :
           /\ tags[p] # None => tags'[p] = tags[p]
           /\ origin[p] # None => origin'[p] = origin[p]]_vars
  <2> SUFFICES ASSUME IInv, [Next]_vars, NEW n \in Names, NEW v \in Versions
               PROVE  /\ tags[<<n, v>>] # None => tags'[<<n, v>>] = tags[<<n, v>>]
                      /\ origin[<<n, v>>] # None => origin'[<<n, v>>] = origin[<<n, v>>]
    OBVIOUS
  <2> USE RenameAssumption DEF IInv, TypeOK, Names, Versions, TagsOf, Alias
  <2>1. CASE Release
    <3>1. version + 1 \in Versions /\ version + 1 > version /\ head.decl \in Names
      BY <2>1 DEF Release, Content
    <3>2. tags[<<head.decl, version + 1>>] = None /\ origin[<<head.decl, version + 1>>] = None
      BY <3>1 DEF PastInv, None
    <3> QED
      BY <2>1, <3>1, <3>2 DEF Release
  <2>2. CASE CreateAlias
    BY <2>2 DEF CreateAlias, AliasAt
  <2>3. CASE PushAlias \/ LoseAnswer
    <3>1. pc = "push" /\ origin' = [origin EXCEPT ![Alias] = tags[Alias]] /\ tags' = tags
      BY <2>3 DEF PushAlias, LoseAnswer
    <3>2. origin[Alias] \in {None, tags[Alias]}
      BY <3>1 DEF AliasInv, Aliased
    <3> QED
      BY <3>1, <3>2
  <2>4. CASE UNCHANGED <<tags, origin>>
    BY <2>4
  <2> QED
    BY <2>1, <2>2, <2>3, <2>4
       DEF Next, Advance, Begin, Declare, Move, RenameSubjects, SyncRouters, CommitRename, Stamp,
           CommitStamps, NoAliasOwed, RecordAlias, CommitAlias, Kill, Restore, Rest, vars
<1> QED
  BY Invariance, <1>1, PTL DEF Spec, TagsStay

(* A run that finishes leaves no release without the tag it shipped under. *)
THEOREM FinishedIsStamped == Spec => NoneUnstamped
<1>1. IInv /\ [Next]_vars =>
        [done' /\ ~done =>
           \A v \in 1..renamedAt : ShippedUnderOld(v) => v \in tree'.shippedAs]_vars
  <2> SUFFICES ASSUME IInv, [Next]_vars, done', ~done, NEW v \in 1..renamedAt, ShippedUnderOld(v)
               PROVE  v \in tree'.shippedAs
    OBVIOUS
  <2>1. pc \in Stamped /\ tree' = tree
    BY DEF Next, Advance, Begin, Declare, Move, RenameSubjects, SyncRouters, CommitRename, Stamp,
           CommitStamps, NoAliasOwed, CreateAlias, RecordAlias, CommitAlias, PushAlias, Kill,
           LoseAnswer, Restore, Release, Rest, vars, Stamped, Renamed, Recorded, Moved, Declared,
           Steps
  <2>2. v \in 1..version
    BY RenameAssumption DEF IInv, PastInv, TypeOK, Versions
  <2> QED
    BY <2>1, <2>2 DEF IInv, AliasInv
<1> QED
  BY Invariance, <1>1, PTL DEF Spec, NoneUnstamped

(* No alias reaches origin before the transition record holds it.          *)
THEOREM PushedAfterWritten == Spec => PushedIsWritten
<1>1. IInv /\ [Next]_vars => [PushesAlias => tree.alias]_vars
  <2> SUFFICES ASSUME IInv, [Next]_vars,
                      NEW v \in Versions, v <= renamedAt,
                      origin'[<<"new", v>>] # origin[<<"new", v>>]
               PROVE  tree.alias
    BY DEF PushesAlias
  <2> USE RenameAssumption DEF IInv, TypeOK, Names, Versions, TagsOf
  <2>1. ~Release
    <3> SUFFICES ASSUME Release PROVE FALSE
      OBVIOUS
    <3>1. head.decl \in Names /\ origin' = [origin EXCEPT ![<<head.decl, version + 1>>] = version + 1]
      BY DEF Release, Content
    <3>2. v # version + 1
      BY DEF PastInv
    <3> QED
      BY <3>1, <3>2
  <2>2. pc = "push"
    BY <2>1 DEF Next, Advance, Begin, Declare, Move, RenameSubjects, SyncRouters, CommitRename,
           Stamp, CommitStamps, NoAliasOwed, CreateAlias, RecordAlias, CommitAlias, PushAlias,
           Kill, LoseAnswer, Restore, Rest, vars
  <2> QED
    BY <2>2 DEF AliasInv
<1> QED
  BY Invariance, <1>1, PTL DEF Spec, PushedIsWritten
=============================================================================
