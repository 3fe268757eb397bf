---------------------------- MODULE MCMigration ----------------------------
(***************************************************************************)
(* The record of past releases, as three commands bring it about, checked  *)
(* in one run.  A behaviour is of one of:                                  *)
(*  - Migration: a standalone repository with pre-releases, a workspace    *)
(*    with two renames in a row and a closed releasable, and a workspace   *)
(*    whose first run is refused for what a person then edits away;        *)
(*  - Changelog: a workspace of a core, released once, and a tool whose    *)
(*    first version was never released; one more release, a rewrite, a     *)
(*    kill and a hand-written line among a few commands;                   *)
(*  - Backfill: a core tagged v<version> with a companion, and a tool; one *)
(*    history lost tags and archives, one holds a tag of an old format and *)
(*    a closed identity's.                                                 *)
(***************************************************************************)
EXTENDS Migration, TLC

CONSTANTS pre, post, ci, gone, map, done   \* hook points and file names, model values

Old(dir, class, key, val) == [dir |-> dir, class |-> class, key |-> key, val |-> val, ignored |-> class \in {"retry", "batch_plan"}]
Entry(commits) == [commits |-> commits, reason |-> FALSE]
Archive(fate, day) == [fate |-> fate, day |-> day]
Config(form, mode, timeout, hooks, excluded) ==
  [form |-> form, mode |-> mode, timeout |-> timeout, hooks |-> hooks, excluded |-> excluded]
Event(event, subject, from, to, at, version) ==
  [event |-> event, subject |-> subject, from |-> from, to |-> to, at |-> at, version |-> version]
Ref(what, subject) == Path(what, subject, <<>>)

Alone ==
  [layout |-> "standalone", rels |-> {"main"}, members |-> {}, under |-> <<>>,
   given |-> [r \in {"main"} |-> None], manifests |-> [r \in {"main"} |-> {"MIT"}], private |-> FALSE,
   tags |-> {<<"main", <<2, 1>> >>},
   old |-> {Old(RootDir, "changes", <<>>, <<Entry({"c5"})>>),
            Old(RootDir, "changes", <<1>>, <<Entry({"c1"}), Entry({"c2"})>>),
            Old(RootDir, "changes", <<1, 1>>, <<Entry({"c1"})>>),
            Old(RootDir, "changes", <<2, 1>>, <<Entry({"c3", "c4"})>>),
            Old(RootDir, "archive", <<1>>, Archive("released", 2)),
            Old(RootDir, "archive", <<2, 1>>, Archive("released", 3)),
            Old(RootDir, "archive", <<2>>, Archive("never", 3)),
            Old(RootDir, "release_file", <<>>, "filled"), Old(RootDir, "retry", <<>>, "failed"),
            Old(RootDir, "version", <<>>, "0"), Old(RootDir, "undo_audit", <<>>, <<"undone">>),
            Old(RootDir, "scrub", map, "map"), Old(RootDir, "config", <<>>, Config("known", "private", 60, {}, {<<<<2, 1>>, 1>>})),
            Old(RootDir, "managed", <<>>, {ci}), Old(RootDir, "base", ci, "base"), Old(RootDir, "base", gone, "base"),
            Old(RootDir, "hook", pre, "customized"), Old(RootDir, "hook", post, "shipped")},
   new |-> [p \in {Ref("options", "")} |-> {"lint", "kept"}]]

Renamed ==
  [layout |-> "workspace", rels |-> {"c"}, members |-> {"m", "n"}, under |-> [m |-> "c", n |-> "c"],
   given |-> [r \in {"c"} |-> "proprietary"], manifests |-> [r \in {"c"} |-> {}], private |-> TRUE, tags |-> {},
   old |-> {Old(Dir("releasable", "c"), "changes", <<1>>, <<Entry({"c1"})>>),
            Old(Dir("releasable", "c"), "archive", <<1>>, Archive("released", 4)),
            Old(Dir("releasable", "c"), "version", <<>>, "1"),
            Old(Dir("member", "m"), "config", <<>>, Config("known", "ci", None, {}, {})),
            Old(Dir("member", "n"), "config", <<>>, Config("known", None, 60, {pre}, {})),
            Old(Dir("member", "m"), "tools", <<>>, [rule |-> "lint", cwd |-> <<"m">>, paths |-> {<<"src">>}]),
            Old(Dir("member", "n"), "tools", <<>>, [rule |-> "lint", cwd |-> <<"n">>, paths |-> {<<>>, <<"tests">>}]),
            Old(Dir("member", "n"), "lint", <<>>, [language |-> "py", list |-> {"os"}]),
            Old(Dir("member", "n"), "dead_modules", <<>>, {<<"run">>}),
            Old(Dir("closed", "x"), "changes", <<1>>, <<Entry({"c2"})>>),
            Old(Dir("closed", "x"), "archive", <<1>>, Archive("released", 1)),
            Old(Dir("closed", "x"), "undo_audit", <<>>, <<"undone">>),
            Old(WorkspaceDir, "batch_file", <<>>, "filled"), Old(WorkspaceDir, "batch_plan", <<>>, "plan"),
            Old(WorkspaceDir, "batch_archive", done, "done"),
            Old(WorkspaceDir, "transitions", <<>>,
                <<Event("rename", "c", "b", "c", 3, None), Event("rename", "b", "a", "b", 1, None),
                  Event("closed", "x", None, None, 2, None), Event("surgery", "c", None, None, 2, None),
                  Event("identity", "c", "py-b", "py-c", 3, <<1>>), Event("identity", "c", "py-c", "py-d", 5, <<2>>),
                  Event("tag", "c", None, None, 2, None)>>)},
   new |-> <<>>]

Blocked ==
  [layout |-> "workspace", rels |-> {"r", "s"}, members |-> {"m"}, under |-> [m |-> "r"],
   given |-> [r \in {"r", "s"} |-> "MIT"], manifests |-> [r \in {"r", "s"} |-> {"MIT"}], private |-> FALSE, tags |-> {},
   old |-> {Old(Dir("releasable", "r"), "config", <<>>, Config("known", "private", 60, {pre}, {})),
            Old(Dir("releasable", "s"), "config", <<>>, Config("known", "ci", 60, {}, {})),
            Old(Dir("releasable", "s"), "changes", <<>>, <<Entry({"c1"})>>),
            Old(Dir("releasable", "r"), "hook", pre, "customized"),
            Old(Dir("releasable", "r"), "in_progress", <<>>, "saved"),
            Old(Dir("member", "m"), "unknown", <<>>, "notes"),
            Old(WorkspaceDir, "batch_file", <<>>, "unfilled")},
   new |-> [p \in {Ref("options", "")} |-> {"kept"}]]

MCRepositories == {Alone, Renamed, Blocked}

-----------------------------------------------------------------------------
(* Of Changelog.                                                           *)

Core == "core"
Tool == "tool"
Homes == [rel \in {Core, Tool} |-> rel]
StateDirs == [rel \in {Core, Tool} |-> IF rel = Core THEN "core-state" ELSE "tool-state"]
People == {[paths |-> {Core, Tool}, auto |-> FALSE], [paths |-> {"core-state"}, auto |-> FALSE]}
Said(facing, type, text, reason) == [facing |-> facing, type |-> type, text |-> text, reason |-> reason]
Sayings == {Said(TRUE, "feature", "old", FALSE), Said(FALSE, "", "", FALSE)}
Updates == {[facing |-> None, type |-> <<"fix">>, text |-> <<"new">>]}
FirstEntry == [id |-> 1, commits |-> {1}, facing |-> TRUE, type |-> "fix", text |-> "old", packages |-> {Core}, reason |-> FALSE]
SecondEntry == [FirstEntry EXCEPT !.id = 2, !.commits = {2}, !.type = "feature", !.packages = {Core}]
Begun ==
  [commits |-> <<[paths |-> {Core, Tool}, auto |-> FALSE], [paths |-> {Core}, auto |-> FALSE]>>,
   unreleased |-> [rel \in {Core, Tool} |-> IF rel = Core THEN <<SecondEntry>> ELSE <<>>],
   released |-> (<<Core, 1>> :> <<FirstEntry>>) @@ (<<Tool, 1>> :> <<>>),
   archives |-> (<<Core, 1>> :> "recorded") @@ (<<Tool, 1>> :> "never released"),
   releases |-> <<[rel |-> Core, version |-> 1, length |-> 1, upto |-> 1, range |-> {1}]>>]

-----------------------------------------------------------------------------
(* Of Backfill.                                                            *)

TagPrefix == [r \in {Core, Tool} |-> IF r = Core THEN "core-v" ELSE "tool-v"]
Tag(prefix, v, form) == [prefix |-> prefix, version |-> v, form |-> form]
Message(prefix, v) == Tag(prefix, v, "primary")
Landed(message, paths) == [message |-> message, paths |-> paths]
AnyWork == Tag("", <<>>, "work")
V1 == <<0, 1, 0>>
V2 == <<0, 1, 1>>
V3 == <<1, 0, 0>>
NoMap == [f \in {} |-> {}]
Filed(fields, fate, commit) == [fields |-> [f \in fields |-> <<"author">>], fate |-> fate, commit |-> commit, paths |-> {}, shipped |-> None]

Members == [r \in {Core, Tool} |-> {r}]
Lost ==
  [commits |-> <<Landed(AnyWork, {}), Landed(Message("core-v", V1), {}), Landed(AnyWork, {Core}), Landed(Message("", V2), {Core}),
                 Landed(Tag(Tool, V1, "release"), {Core, Tool}), Landed(AnyWork, {Core, Tool})>>,
   paths |-> Members, closed |-> {}, bodies |-> {Tag("core-v", V3, "companion")}, sections |-> {<<Core, V2>>},
   changelogs |-> {<<Core, V1>>, <<Core, V2>>, <<Tool, V1>>, <<Tool, V2>>},
   tags |-> (Tag("core-v", V3, "companion") :> 6) @@ (Tag("core-v", V1, "primary") :> 2) @@ (Tag("tool-v", V3, "primary") :> 6),
   archives |-> (<<Core, V1>> :> Filed({"bump", "include", "description"}, None, None)),
   stash |-> FALSE]
Older ==
  [commits |-> <<Landed(AnyWork, {}), Landed(Message("old", V1), {Core}), Landed(Message("core-v", V2), {Core}), Landed(AnyWork, {Core})>>,
   paths |-> Members, closed |-> {Tag("dead", V1, "primary")}, bodies |-> {}, sections |-> {},
   changelogs |-> {<<Core, V2>>, <<Tool, V2>>},
   tags |-> (Tag("old", V1, "old") :> 2) @@ (Tag("dead", V1, "primary") :> 1) @@ (Tag("core-v", V2, "primary") :> 3)
            @@ (Tag("nightly", <<>>, "marker") :> 4),
   archives |-> (<<Core, V2>> :> Filed({"exclude", "description"}, "recorded", 3)) @@ (<<Tool, V2>> :> Filed({}, None, None)),
   stash |-> TRUE]
Reviewed == {NoMap, V2 :> <<"reviewed">>}

-----------------------------------------------------------------------------
VARIABLES commits, objects, branch, releases, origin, unreleased, released, files, home, rollup,
          tip, notes, command, candidate, resyncs, hooks, stopped, stale, trimmed, used
changelogVars == <<commits, objects, branch, releases, origin, unreleased, released, files, home, rollup,
                   tip, notes, command, candidate, resyncs, hooks, stopped, stale, trimmed, used>>

VARIABLES history, tags, archives, unversioned, stash, backfill, intended, kept, told, kills, changes
backfillVars == <<history, tags, archives, unversioned, stash, backfill, intended, kept, told, kills, changes>>

VARIABLE about   \* what the behaviour is of

all == <<vars, changelogVars, backfillVars, about>>

L == INSTANCE Changelog WITH
       Releasables <- {Core, Tool}, Member <- Homes, State <- StateDirs, Works <- People,
       Kinds <- Sayings, Edits <- Updates, Bumps <- {"patch"}, Start <- Begun,
       NoAutoCommit <- {"remove"}, PerEntry <- 1, PerCommit <- 2, MaxNamed <- 1, MaxCommits <- 1,
       MaxEntries <- 3, MaxReleases <- 2, MaxCommands <- 2, MaxStops <- 1, MaxLines <- 1, MaxDeeds <- 3,
       archives <- files, head <- tip, run <- command
B == INSTANCE Backfill WITH
       Releasables <- <<Core, Tool>>, Prefix <- TagPrefix, Companions <- {Core}, Unreadable <- {},
       Repositories <- {Lost, Older}, Overrides <- Reviewed, MaxStops <- 2, MaxEdits <- 3,
       repo <- history, run <- backfill, head <- kept, said <- told, stops <- kills, edits <- changes

ReleasedDescribes == L!ReleasedDescribes
Told == L!Told
NeverLost == L!NeverLost
RunAgainAgrees == B!RunAgainAgrees

(* What a behaviour is not about stays as one of its initial states.       *)
MCInit ==
  /\ Init /\ L!Init /\ B!Init
  /\ about \in {"migration", "changelog", "backfill"}
  /\ about # "migration" => repo.layout = "standalone"
  /\ about # "backfill" => ~ stash
MCNext ==
  \/ about = "migration" /\ Next /\ UNCHANGED <<changelogVars, backfillVars, about>>
  \/ about = "changelog" /\ L!Next /\ UNCHANGED <<vars, backfillVars, about>>
  \/ about = "backfill" /\ B!Next /\ UNCHANGED <<vars, changelogVars, about>>
MCSpec == MCInit /\ [][MCNext]_all
=============================================================================
