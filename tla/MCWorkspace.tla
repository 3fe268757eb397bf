---------------------------- MODULE MCWorkspace ----------------------------
(***************************************************************************)
(* A workspace's declarations, and what scaffolding makes of them, checked *)
(* in one run.  A behaviour is of one of:                                  *)
(*  - Workspace: a repository that declares nothing, a workspace of two    *)
(*    members, one inside the other and depending on it, one whose root is *)
(*    versioned and whose unversioned member has a status of its own, and  *)
(*    one whose member retired once already;                               *)
(*  - Scaffold: a go member and a python member, and one process.          *)
(***************************************************************************)
EXTENDS Workspace, TLC


A == [path |-> <<"a">>, name |-> "a"]
B == [path |-> <<"a", "b">>, name |-> "b"]
MCTerritories == {Root, A, B}
MCRequires == {<<"b", "a">>}

Member(t, rel, deps) == [path |-> t.path, name |-> t.name, rel |-> rel, deps |-> deps]
Still(subject, value) == Period(subject, value, 0, Open)
Residue == {[what |-> ".rlsbl", keep |-> FALSE], [what |-> "changelog", keep |-> TRUE]}
Licensed(license) ==
  [EmptyRecord EXCEPT
     !.lic = {Still("a", "MIT"), Still("x", license)},
     !.ids = {Still("a", "a"), Still("x", "x")}]

Nothing == [decl |-> None, record |-> EmptyRecord, leftovers |-> {}]
Pair(license) ==
  [decl |-> [members |-> {Member(Root, None, {}), Member(A, "a", {}), Member(B, "x", {})},
             rels |-> {Created("a", "named", "ci"), Created("x", "bare", "ci")}],
   record |-> Licensed(license), leftovers |-> {}]
Versioned ==
  [decl |-> [members |-> {Member(Root, "x", {}), Member(A, "a", {}), Member(B, None, {})},
             rels |-> {Created("a", "named", "ci"), Created("x", "bare", "none")}],
   record |-> [Licensed("proprietary") EXCEPT !.life = {Still("b", "active")}], leftovers |-> {}]
Again ==
  [decl |-> [members |-> {Member(Root, None, {})}, rels |-> {}],
   record |-> [EmptyRecord EXCEPT !.life = {Still("a", "retired")},
                                  !.lic = {Still("a", "MIT")}],
   leftovers |-> Residue]
MCStarts == {Nothing, Pair("MIT"), Pair("proprietary"), Versioned, Again}

-----------------------------------------------------------------------------
(* Of Scaffold.                                                            *)

CONSTANTS m1, m2, p1

MCTargets == (m1 :> {"go"} @@ m2 :> {"pypi"})
MCFlags == (m1 :> {<<TRUE, FALSE>>, <<FALSE, TRUE>>} @@ m2 :> {<<TRUE, FALSE>>})

VARIABLES declared, disk, base, committed, committedBase, scaffolded, managed, bases, hook,
          routers, tool, lock, run, acts, scaffolds, killed, torn, fresh
scaffoldVars == <<declared, disk, base, committed, committedBase, scaffolded, managed, bases, hook,
                  routers, tool, lock, run, acts, scaffolds, killed, torn, fresh>>

VARIABLE about   \* what the behaviour is of

all == <<vars, scaffoldVars, about>>

S == INSTANCE Scaffold WITH
       Members <- {m1, m2}, Targets <- MCTargets, Procs <- {p1}, Hunks <- {1, 2}, Changing <- {1},
       Editable <- {<<m1, "publish">>}, Flags <- MCFlags, SharedKinds <- {"scratch"}, Versioned <- {},
       Overlap <- FALSE, MaxTool <- 2, MaxActs <- 1, MaxRuns <- 3, MaxStops <- 1,
       head <- committed, headBase <- committedBase, runs <- scaffolds, stops <- killed

ASSUME MCAssumption == WorkspaceAssumption /\ S!ScaffoldAssumption

PublishFollowsMode == S!PublishFollowsMode
RerunIsSafe == S!RerunIsSafe

(* What a behaviour is not about stays as one of its initial states.       *)
MCInit ==
  /\ Init /\ S!Init
  /\ \/ about = "workspace" /\ hook = "none"
     \/ about = "scaffold" /\ wt = Tree(Nothing)
MCNext ==
  \/ about = "workspace" /\ Next /\ UNCHANGED <<scaffoldVars, about>>
  \/ about = "scaffold" /\ S!Next /\ UNCHANGED <<vars, about>>
MCSpec == MCInit /\ [][MCNext]_all
=============================================================================
