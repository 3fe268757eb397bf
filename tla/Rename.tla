------------------------------- MODULE Rename -------------------------------
(***************************************************************************)
(* `rlsbl monorepo rename-releasable` (internal/monorepo/rename.go) over   *)
(* one releasable whose tag format holds {name}: its tags change spelling  *)
(* with it, so each past release records the tag it shipped under and the  *)
(* current version gets a boundary alias, recorded and then pushed.        *)
(*                                                                         *)
(* The command may be killed after any write and is then run again: a run  *)
(* that finds the declarations renamed already completes the interrupted   *)
(* rename, each step doing what it finds left to do.  What distinguishes   *)
(* the steps is what they ask to find that out: the files on disk, while   *)
(* what they commit is what this run wrote.                                *)
(***************************************************************************)
EXTENDS Naturals, FiniteSets

CONSTANTS MaxVersion,   \* releases end at this version
          Shipped,      \* the version current when the rename starts
          MaxStops      \* bound on kills, failed pushes and people's deeds

ASSUME RenameAssumption ==
  /\ MaxVersion \in Nat /\ Shipped \in 1..MaxVersion
  /\ MaxStops \in Nat

Names == {"old", "new"}
Versions == 1..MaxVersion

(* Commits are named by the version released at them; 0 is no commit and   *)
(* Elsewhere a commit no release was made at.                              *)
None == 0
Elsewhere == MaxVersion + 1
Commits == None..Elsewhere

(* The state directories that move; the run-state directory moves with     *)
(* them and is not tracked.                                                *)
Dirs == {"changelog", "releases"}

(* What git tracks of the releasable: the name its declaration, its record *)
(* and the generated routers use, the directories moved to the new name,   *)
(* the archives that state shipped_as, and whether the transition record   *)
(* holds the boundary alias.                                               *)
Content ==
  [decl : Names, moved : SUBSET Dirs, record : Names, routers : Names,
   shippedAs : SUBSET Versions, alias : BOOLEAN]

Steps == {"idle", "declare", "move", "record", "routers", "commit",
          "stamp", "commitStamps", "alias", "recordAlias", "commitAlias",
          "push"}

VARIABLES
  head,      \* what the branch's last commit holds
  tree,      \* what the working tree holds
  version,   \* the version file: the current version
  renamedAt, \* the version current when the declarations took the new name
  tags,      \* the tags here: name and version -> commit
  origin,    \* the tags on origin
  pc,        \* where the running rename is
  written,   \* the paths this run wrote and has yet to commit
  done,      \* a rename run reported that it finished
  stops      \* kills, failed pushes and deeds so far
vars == <<head, tree, version, renamedAt, tags, origin, pc, written, done, stops>>

TagsOf == [Names \X Versions -> Commits]

Clean == tree = head
Fields == {"decl", "moved", "record", "routers", "shippedAs", "alias"}

(* A commit of the paths named takes those from the working tree.          *)
Committing(paths) ==
  [f \in Fields |-> IF f \in paths THEN tree[f] ELSE head[f]]

(* The past releases' tags stand at their release commits, except where a  *)
(* person moved or deleted one before the rename; the name the alias will  *)
(* take may be in use, here or on origin, for something else.              *)
Init ==
  /\ head = [decl |-> "old", moved |-> {}, record |-> "old", routers |-> "old",
             shippedAs |-> {}, alias |-> FALSE]
  /\ tree = head
  /\ version = Shipped
  /\ renamedAt = None
  /\ \E at \in [1..Shipped -> {None, Elsewhere} \cup Versions] :
       /\ \A v \in 1..Shipped : at[v] \in {None, Elsewhere, v}
       /\ LET released == [p \in Names \X Versions |->
                             IF p[1] = "old" /\ p[2] <= Shipped THEN at[p[2]] ELSE None]
          IN \E here, there \in {None, Elsewhere} :
               /\ tags = [released EXCEPT ![<<"new", Shipped>>] = here]
               /\ origin = [released EXCEPT ![<<"new", Shipped>>] = there]
  /\ pc = "idle"
  /\ written = {}
  /\ done = FALSE
  /\ stops = 0

(***************************************************************************)
(* Starting.                                                               *)
(***************************************************************************)
(* The old name's state is still on disk, or the record holds the          *)
(* releasable-name identity of the old name, open or closed: it always     *)
(* does, since the rename requires it open and only closes it.             *)
InterruptedClean == Clean
Interrupted == tree.moved # Dirs \/ tree.record \in Names

(* preflight, then the lock.  A fresh rename requires a clean working tree; *)
(* one that completes an interrupted rename returns before that check.     *)
Begin ==
  /\ pc = "idle" /\ ~done
  /\ \/ tree.decl = "old" /\ Clean /\ pc' = "declare"
     \/ tree.decl = "new" /\ Interrupted /\ pc' = "move"
  /\ written' = {}
  /\ UNCHANGED <<head, tree, version, renamedAt, tags, origin, done, stops>>

(***************************************************************************)
(* The rename itself, up to its commit.                                    *)
(***************************************************************************)
Declare ==
  /\ pc = "declare"
  /\ tree' = [tree EXCEPT !.decl = "new"]
  /\ renamedAt' = version
  /\ pc' = "move"
  /\ UNCHANGED <<head, version, tags, origin, written, done, stops>>

(* One directory after the other; a kill may come between two.             *)
Move ==
  /\ pc = "move"
  /\ \/ \E d \in Dirs \ tree.moved :
          /\ tree' = [tree EXCEPT !.moved = @ \cup {d}]
          /\ pc' = pc
     \/ /\ tree.moved = Dirs
        /\ pc' = "record"
        /\ UNCHANGED tree
  /\ UNCHANGED <<head, version, renamedAt, tags, origin, written, done, stops>>

(* renameSubjects, left alone when the new name's identity is open.        *)
RenameSubjects ==
  /\ pc = "record"
  /\ tree' = [tree EXCEPT !.record = "new"]
  /\ pc' = "routers"
  /\ UNCHANGED <<head, version, renamedAt, tags, origin, written, done, stops>>

(* The paths the rename's commit takes whether this run wrote them or not. *)
RecordLeftOut == {"decl", "moved"}
AlwaysCommitted == {"decl", "moved", "record"}

(* The router regeneration reports the files it wrote: those whose text    *)
(* changed.                                                                *)
SyncRouters ==
  /\ pc = "routers"
  /\ written' = IF tree.routers = "new" THEN {} ELSE {"routers"}
  /\ tree' = [tree EXCEPT !.routers = "new"]
  /\ pc' = "commit"
  /\ UNCHANGED <<head, version, renamedAt, tags, origin, done, stops>>

CommitRename ==
  /\ pc = "commit"
  /\ head' = Committing(AlwaysCommitted \cup written)
  /\ written' = {}
  /\ pc' = "stamp"
  /\ UNCHANGED <<tree, version, renamedAt, tags, origin, done, stops>>

(***************************************************************************)
(* recordShippedAs.                                                        *)
(***************************************************************************)
(* A version shipped under the old spelling when that tag stands at its    *)
(* release commit; one whose archive says so already is passed over.       *)
ShippedUnderOld(v) == tags[<<"old", v>>] = v

Unstamped == {v \in 1..version : v \notin tree.shippedAs /\ ShippedUnderOld(v)}

Stamp ==
  /\ pc = "stamp"
  /\ \/ \E v \in Unstamped :
          /\ tree' = [tree EXCEPT !.shippedAs = @ \cup {v}]
          /\ written' = {"shippedAs"}
          /\ pc' = pc
     \/ /\ Unstamped = {}
        /\ pc' = "commitStamps"
        /\ UNCHANGED <<tree, written>>
  /\ UNCHANGED <<head, version, renamedAt, tags, origin, done, stops>>

(* Only the archives this run stamped are committed.                       *)
CommitStamps ==
  /\ pc = "commitStamps"
  /\ head' = Committing(written)
  /\ written' = {}
  /\ pc' = "alias"
  /\ UNCHANGED <<tree, version, renamedAt, tags, origin, done, stops>>

(***************************************************************************)
(* aliasCurrentVersion.                                                    *)
(***************************************************************************)
Alias == <<"new", version>>
AliasHeld == tags[Alias] # None /\ tags[Alias] = origin[Alias]
NothingToAlias == tags[Alias] = None /\ tags[<<"old", version>>] = None

Finish == pc' = "idle" /\ done' = TRUE /\ written' = {}

NoAliasOwed ==
  /\ pc = "alias"
  /\ AliasHeld \/ NothingToAlias
  /\ Finish
  /\ UNCHANGED <<head, tree, version, renamedAt, tags, origin, stops>>

AliasAt == IF tags[Alias] # None THEN tags[Alias] ELSE tags[<<"old", version>>]

(* The tag is created here when it is missing; one on origin that names    *)
(* another commit refuses the run.                                         *)
CreateAlias ==
  /\ pc = "alias"
  /\ ~AliasHeld /\ ~NothingToAlias
  /\ LET at == AliasAt
     IN /\ tags' = [tags EXCEPT ![Alias] = at]
        /\ pc' = IF origin[Alias] \in {None, at} THEN "recordAlias" ELSE "idle"
  /\ UNCHANGED <<head, tree, version, renamedAt, origin, written, done, stops>>

RecordOwed == ~tree.alias

(* recordAlias: an alias the transition record holds on disk is recorded.  *)
RecordAlias ==
  /\ pc = "recordAlias"
  /\ IF RecordOwed
     THEN /\ tree' = [tree EXCEPT !.alias = TRUE]
          /\ written' = {"alias"}
          /\ pc' = "commitAlias"
     ELSE pc' = "push" /\ UNCHANGED <<tree, written>>
  /\ UNCHANGED <<head, version, renamedAt, tags, origin, done, stops>>

CommitAlias ==
  /\ pc = "commitAlias"
  /\ head' = Committing(written)
  /\ written' = {}
  /\ pc' = "push"
  /\ UNCHANGED <<tree, version, renamedAt, tags, origin, done, stops>>

PushAlias ==
  /\ pc = "push"
  /\ origin' = [origin EXCEPT ![Alias] = tags[Alias]]
  /\ Finish
  /\ UNCHANGED <<head, tree, version, renamedAt, tags, stops>>

(***************************************************************************)
(* What goes wrong, and what people do between two runs.                   *)
(***************************************************************************)
Interrupt ==
  /\ stops < MaxStops /\ stops' = stops + 1

(* The process is killed, or a write or the push fails: what this run      *)
(* wrote and did not commit is known to nobody.                            *)
Kill ==
  /\ pc # "idle"
  /\ Interrupt
  /\ pc' = "idle" /\ written' = {}
  /\ UNCHANGED <<head, tree, version, renamedAt, tags, origin, done>>

(* The connection breaks after origin took the tag: the push is a failure. *)
LoseAnswer ==
  /\ pc = "push"
  /\ Interrupt
  /\ origin' = [origin EXCEPT ![Alias] = tags[Alias]]
  /\ pc' = "idle" /\ written' = {}
  /\ UNCHANGED <<head, tree, version, renamedAt, tags, done>>

(* A person puts the uncommitted changes away and starts over.             *)
Restore ==
  /\ pc = "idle" /\ ~Clean
  /\ Interrupt
  /\ tree' = head
  /\ renamedAt' = IF head.decl = "old" THEN None ELSE renamedAt
  /\ UNCHANGED <<head, version, tags, origin, pc, written, done>>

(* A release from a clean working tree, tagged under the declared name.    *)
Release ==
  /\ pc = "idle" /\ Clean
  /\ version < MaxVersion
  /\ version' = version + 1
  /\ tags' = [tags EXCEPT ![<<head.decl, version + 1>>] = version + 1]
  /\ origin' = [origin EXCEPT ![<<head.decl, version + 1>>] = version + 1]
  /\ UNCHANGED <<head, tree, renamedAt, pc, written, done, stops>>

(* Nobody has to do anything while no run is under way.                    *)
Rest ==
  /\ pc = "idle"
  /\ UNCHANGED vars

Advance ==
  \/ Begin \/ Declare \/ Move \/ RenameSubjects \/ SyncRouters \/ CommitRename
  \/ Stamp \/ CommitStamps \/ NoAliasOwed \/ CreateAlias \/ RecordAlias
  \/ CommitAlias \/ PushAlias

Next == Advance \/ Kill \/ LoseAnswer \/ Restore \/ Release \/ Rest

Spec == Init /\ [][Next]_vars

(* The operator runs the command until it reports that it finished.        *)
FairSpec == Spec /\ WF_vars(Advance)

(***************************************************************************)
(* Properties.                                                             *)
(***************************************************************************)
(* Every variable keeps its type.                                          *)
TypeOK ==
  /\ head \in Content /\ tree \in Content
  /\ version \in Versions
  /\ renamedAt \in Commits
  /\ tags \in TagsOf /\ origin \in TagsOf
  /\ pc \in Steps
  /\ written \subseteq Fields
  /\ done \in BOOLEAN
  /\ stops \in 0..MaxStops

(* No commit of an interrupted rename holds the releasable under two names: *)
(* the declarations, the directories and the identities move in one commit  *)
(* however often the run was killed before it.                              *)
HeadIsWhole ==
  /\ head.decl = head.record
  /\ head.moved = (IF head.decl = "new" THEN Dirs ELSE {})

(* A release made under the new name never states that it shipped under     *)
(* the old one, however long after it a run completes the rename.           *)
OnlyOldStamped == \A v \in tree.shippedAs : v <= renamedAt /\ ShippedUnderOld(v)

(* At any moment of a rename everything goes by the name it should have.    *)
NamesAreTrue == HeadIsWhole /\ OnlyOldStamped

(* A run that finishes leaves no past release without the tag it shipped    *)
(* under, whichever earlier run stamped it: "every step does only what is   *)
(* left" (rename.go).                                                       *)
NoneUnstamped ==
  [][done' /\ ~done =>
       \A v \in 1..renamedAt : ShippedUnderOld(v) => v \in tree'.shippedAs]_vars

(* A tag once given stays where it is, here and on origin.                  *)
TagsStay ==
  [][\A p \in Names \X Versions :
       /\ tags[p] # None => tags'[p] = tags[p]
       /\ origin[p] # None => origin'[p] = origin[p]]_vars

(* "recorded in the transition record (before the push, so a pushed tag     *)
(* never lacks its record)" (rename.go): when the alias reaches origin the  *)
(* record here holds it, on disk if not in a commit.                        *)
PushesAlias ==
  \E v \in Versions : v <= renamedAt /\ origin'[<<"new", v>>] # origin[<<"new", v>>]
PushedIsWritten == [][PushesAlias => tree.alias]_vars

(* A rename that took its declarations is completed by running it again,    *)
(* unless the alias's name is in use on origin for another commit, which a  *)
(* person must decide.                                                      *)
Collides ==
  /\ origin[Alias] # None
  /\ tags[Alias] \notin {None, origin[Alias]}
RenameEnds == (tree.decl = "new") ~> (done \/ tree.decl = "old" \/ Collides)

=============================================================================
