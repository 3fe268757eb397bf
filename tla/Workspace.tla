----------------------------- MODULE Workspace -----------------------------
(***************************************************************************)
(* The commands that change what a repository declares and what its        *)
(* lifecycle-and-license record says: `rlsbl monorepo init`, `add`,        *)
(* `remove` and `cleanup` (internal/monorepo), and the `transition`        *)
(* commands, the retirement of releasables among them                      *)
(* (internal/lifecycleops, internal/declarations).                         *)
(*                                                                         *)
(* A file is what rlsbl put in it and whether a person has a change of     *)
(* their own in it; a file is dirty where the working tree and HEAD        *)
(* differ.  A command makes its refusals, then writes one file at a time,  *)
(* then commits; it may be killed, or a write or the commit may fail,      *)
(* between any two of them.  GitHub's answer, private or not, is a choice: *)
(* where it is not private, what makes a releasable proprietary refuses    *)
(* and changes nothing.  None of the commands but `cleanup`, and           *)
(* `add` while it scaffolds, takes the run lock: the person runs one at a  *)
(* time.                                                                   *)
(***************************************************************************)
EXTENDS Naturals, FiniteSets, Sequences

CONSTANTS Territories,  \* the members a command may add: [path, name], the root's first
          Rels,         \* the releasables there may be
          Spdx,         \* the licenses that are not proprietary
          Statuses,     \* the lifecycle statuses a period records
          Editable,     \* the files a person edits, a bound
          Former,       \* the names an identity may have had
          Requires,     \* the edges of the members' manifests: <<name, name it depends on>>
          Starts,       \* the repositories the commands find: [decl, record, leftovers]
          Depends,      \* the depends_on an add may name
          Scoped,       \* members some options entry is scoped to
          MaxDay, MaxRuns, MaxStops, MaxEdits,   \* bounds on the days, commands, stops and edits
          None

Root == [path |-> <<>>, name |-> "root"]
Names == {t.name : t \in Territories} \cup Rels
Proprietary == "proprietary"
Licenses == Spdx \cup {Proprietary}
Formats == {"bare", "named"}    \* v{version}, {name}@v{version}

VARIABLES wt, head,     \* each file, in the working tree and at HEAD
          today, cmd,   \* the date, and the command that runs
          runs, stops, edits

vars == <<wt, head, today, cmd, runs, stops, edits>>

(***************************************************************************)
(* Declarations (declarations/rules.go, edit.go, write.go): a set of       *)
(* members, each at a path, versioned under a releasable or none, with the *)
(* members its depends_on names, and a set of releasables.                 *)
(***************************************************************************)
MemberNames(d) == {m.name : m \in d.members}
RelNames(d) == {r.name : r \in d.rels}
MembersOf(d, rel) == {m \in d.members : m.rel = rel}
SubjectNames(d) == IF d = None THEN {} ELSE MemberNames(d) \cup RelNames(d)
Pattern(r) == IF r.tag = "bare" THEN <<>> ELSE <<r.name>>

MembersValid(d) ==
  /\ \A m, n \in d.members : m.name = n.name \/ m.path = n.path => m = n
  /\ \E m \in d.members : m.path = <<>>
  /\ \A m \in d.members : (m.path = <<>>) = (m.name = "root")
MemberValid(d, m) ==
  /\ m.rel = None \/ m.rel \in RelNames(d)
  /\ m.deps \subseteq MemberNames(d) \ {m.name}
ReleasablesValid(d) ==
  /\ \A r, s \in d.rels : r.name = s.name \/ Pattern(r) = Pattern(s) => r = s
  /\ \A r \in d.rels : MembersOf(d, r.name) # {}
DeclarationsValid(d) ==
  MembersValid(d) /\ ReleasablesValid(d) /\ \A m \in d.members : MemberValid(d, m)

(* NewGraph: the manifests' edges and depends_on, between declared members *)
Dependents(d, name) ==
  {m.name : m \in {n \in d.members : n.name # name /\ (name \in n.deps \/ <<n.name, name>> \in Requires)}}

RoutedMembers(d) == {m.name : m \in {n \in d.members : \E r \in d.rels : r.name = n.rel /\ r.mode = "ci"}}

(***************************************************************************)
(* The lifecycle-and-license record: periods of lifecycle statuses,        *)
(* licenses and identities, each from a day until another or Open, and     *)
(* the tags that release no version.  Its library is not part of the       *)
(* repository: Valid is the rules the documentation gives and the commands *)
(* rely on.                                                                *)
(***************************************************************************)
Open == MaxDay + 1
Tables == {"life", "lic", "ids"}
EmptyRecord == [life |-> {}, lic |-> {}, ids |-> {}, tags |-> {}]
Period(subject, value, from, until) == [subject |-> subject, value |-> value, from |-> from, until |-> until]

OpenOf(rec, table, subject) == {p \in rec[table] : p.subject = subject /\ p.until = Open}
RetiredNow(rec) == {p.subject : p \in {q \in rec.life : q.value = "retired" /\ q.until = Open}}

Valid(rec, subjects) ==
  \A table \in Tables :
    /\ \A p \in rec[table] : p.from < p.until
    /\ \A p, q \in rec[table] : p.subject = q.subject /\ p # q => p.until <= q.from \/ q.until <= p.from
    /\ \A p \in rec[table] : p.until = Open => p.subject \in subjects \cup RetiredNow(rec)

OpenPeriod(rec, table, subject, value) ==
  [rec EXCEPT ![table] = @ \cup {Period(subject, value, today, Open)}]
Closed(p) == [p EXCEPT !.until = today]
CloseOpenForgets(rec, table, subject) ==
  [rec EXCEPT ![table] = @ \ OpenOf(rec, table, subject)]
CloseOpen(rec, table, subject) ==
  [rec EXCEPT ![table] = (@ \ OpenOf(rec, table, subject)) \cup {Closed(p) : p \in OpenOf(rec, table, subject)}]
Change(rec, table, subject, value) == OpenPeriod(CloseOpen(rec, table, subject), table, subject, value)

Proprietaries(rec) == {p.subject : p \in {q \in rec.lic : q.value = Proprietary /\ q.until = Open}}
Confidential(rec) == Proprietaries(rec) # {}

(***************************************************************************)
(* What the constants are: a repository's declarations and record, and a   *)
(* record its declarations fit.                                            *)
(***************************************************************************)
Declarations ==
  [members : SUBSET [path : {t.path : t \in Territories}, name : {t.name : t \in Territories},
                     rel : Rels \cup {None}, deps : SUBSET Names],
   rels : SUBSET [name : Rels, tag : Formats, mode : {"ci", "none"}]]
Values == Statuses \cup {"retired"} \cup Licenses \cup Names \cup Former
Periods == [subject : Names, value : Values, from : Nat, until : Nat]
Records == [life : SUBSET Periods, lic : SUBSET Periods, ids : SUBSET Periods, tags : SUBSET {"nightly"}]

(***************************************************************************)
(* Files.                                                                  *)
(***************************************************************************)
Shared == {"decl", "record", "state", "bases", "routers", "rollup", "hooks", "caches", "residue"}
MemberFiles == {t.name : t \in Territories}
Paths == Shared \cup MemberFiles

(* RetireTouches and the record's own files *)
RetireTouches == Shared \ {"residue"}

WorkspaceAssumption ==
  /\ MaxDay \in Nat /\ MaxRuns \in Nat /\ MaxStops \in Nat /\ MaxEdits \in Nat
  /\ Root \in Territories /\ Proprietary \notin Spdx
  /\ \A s, t \in Territories : s.path = t.path => s = t
  /\ MemberFiles \cap Shared = {} /\ Depends \subseteq SUBSET Names
  /\ None \notin Declarations \cup {"add", "init", "save", "retire", "cleanup"}
  /\ \A s \in Starts :
       /\ s.decl \in Declarations \cup {None} /\ s.record \in Records
       /\ Valid(s.record, SubjectNames(s.decl))

Changed == {p \in Paths : wt[p] # head[p]}
Put(tree, p, value) == [tree EXCEPT ![p].val = value]
Written == {p \in Changed : cmd.before[p] = head[p]}
Touched == {p \in Paths : cmd.before[p] # head[p] /\ wt[p] # cmd.before[p]}

Declared == wt["decl"].val
Record == wt["record"].val

Idle == cmd.op = None
NoCommand == [op |-> None]

Tree(s) ==
  [p \in Paths |->
    [own |-> FALSE,
     val |-> CASE p = "decl" -> s.decl
               [] p = "record" -> s.record
               [] p \in {"state", "bases"} -> IF s.decl = None THEN {} ELSE MemberNames(s.decl)
               [] p = "routers" -> IF s.decl = None THEN {} ELSE RoutedMembers(s.decl)
               [] p \in {"rollup", "caches"} -> IF s.decl = None THEN {} ELSE RelNames(s.decl)
               [] p = "hooks" -> SubjectNames(s.decl)
               [] p = "residue" -> s.leftovers
               [] OTHER -> s.decl # None /\ p \in MemberNames(s.decl)]]

Init == \E s \in Starts :
  /\ wt = Tree(s) /\ head = Tree(s)
  /\ today = 1 /\ cmd = NoCommand /\ runs = 0 /\ stops = 0 /\ edits = 0

Begin(command) ==
  /\ runs' = runs + 1
  /\ cmd' = command
  /\ UNCHANGED <<wt, head, today, stops, edits>>

Step(next) == cmd' = [cmd EXCEPT !.step = next]
End == cmd' = NoCommand
Write(p, value) == wt' = Put(wt, p, value)
Commit(paths) == head' = [p \in Paths |-> IF p \in paths THEN wt[p] ELSE head[p]]

(***************************************************************************)
(* monorepo add                                                            *)
(***************************************************************************)

(* recordCreatedReleasable *)
OwnIdentity(rec, rel) ==
  IF \E p \in OpenOf(rec, "ids", rel) : p.value = rel THEN rec ELSE Change(rec, "ids", rel, rel)
RecordCreated(rec, rel, license) ==
  IF OpenOf(rec, "lic", rel) # {} THEN OwnIdentity(rec, rel)
  ELSE OwnIdentity(OpenPeriod(rec, "lic", rel, license), rel)
LicenseAgrees(rec, rel, license) == \A p \in OpenOf(rec, "lic", rel) : p.value = license

Created(rel, tag, mode) == [name |-> rel, tag |-> tag, mode |-> mode]
Joined(d, m, rels) == [members |-> d.members \cup {m}, rels |-> d.rels \cup rels]

(* planMember and planAddRecord: what a request declares and records *)
AddPlan(m, rels, license) ==
  [decl |-> Joined(Declared, m, rels),
   record |-> IF rels = {} THEN Record ELSE RecordCreated(Record, m.rel, license)]
AddRefused(m, rels, license, plan) ==
  \/ Declared = None
  \/ m.path = <<>> \/ m.name \in MemberNames(Declared)
  \/ \E n \in Declared.members : n.path = m.path
  \/ ~ m.deps \subseteq MemberNames(Declared)
  \/ (rels = {}) # (m.rel = None \/ m.rel \in RelNames(Declared))
  \/ ~ DeclarationsValid(plan.decl)
  \/ rels # {} /\ ~ LicenseAgrees(Record, m.rel, license)
  \/ rels # {} /\ ~ Valid(plan.record, SubjectNames(plan.decl))

Add == \E t \in Territories, rel \in Rels \cup {None}, dep \in Depends,
          tag \in Formats, license \in Licenses :
  LET m == [path |-> t.path, name |-> t.name, rel |-> rel, deps |-> dep]
      new == rel # None /\ Declared # None /\ rel \notin RelNames(Declared)
      rels == IF new THEN {Created(rel, tag, "ci")} ELSE {}
      plan == AddPlan(m, rels, license)
  IN  /\ ~ AddRefused(m, rels, license, plan)
      /\ ~ new => tag = "named" /\ license \in Spdx   \* they are not given then
      /\ Begin([op |-> "add", step |-> "decl", before |-> wt,
                member |-> t.name, new |-> new, plan |-> plan])

AddDeclarations ==
  /\ cmd.op = "add" /\ cmd.step = "decl"
  /\ Write("decl", cmd.plan.decl)
  /\ Step(IF cmd.new THEN "record" ELSE "files")
  /\ UNCHANGED <<head, today, runs, stops, edits>>

AddRecord ==
  /\ cmd.op = "add" /\ cmd.step = "record"
  /\ Write("record", cmd.plan.record) /\ Step("files")
  /\ UNCHANGED <<head, today, runs, stops, edits>>

(* scaffold.Run without its commits: the member's files and their bases, *)
(* the scaffold state, and the routers                                   *)
AddScaffold ==
  /\ cmd.op = "add"
  /\ \/ /\ cmd.step = "files" /\ Step("state")
        /\ wt' = [wt EXCEPT ![cmd.member].val = TRUE, !["bases"].val = @ \cup {cmd.member}]
     \/ /\ cmd.step = "state" /\ Step("routers")
        /\ Write("state", wt["state"].val \cup {cmd.member})
     \/ /\ cmd.step = "routers" /\ Step("commit")
        /\ wt' = [wt EXCEPT !["routers"] = [own |-> FALSE, val |-> RoutedMembers(Declared)]]
  /\ UNCHANGED <<head, today, runs, stops, edits>>

(* What the commit takes: the paths that were as HEAD holds them before *)
AddCommits == Written
AddCommit ==
  /\ cmd.op = "add" /\ cmd.step = "commit"
  /\ End /\ head' \in {head, [p \in Paths |-> IF p \in AddCommits THEN wt[p] ELSE head[p]]}
  /\ UNCHANGED <<wt, today, runs, stops, edits>>

(* restoreWorkingTree, when any of it failed *)
RestoredAsHead == [p \in Paths |-> IF p \in Written THEN head[p] ELSE wt[p]]
Restored == [p \in Paths |-> IF p \in Written THEN head[p] ELSE IF p \in Touched THEN cmd.before[p] ELSE wt[p]]
AddFails ==
  /\ cmd.op = "add" /\ stops < MaxStops
  /\ stops' = stops + 1 /\ wt' = Restored /\ End
  /\ UNCHANGED <<head, today, runs, edits>>

(***************************************************************************)
(* monorepo init: the root member, a dev node or under a new releasable    *)
(***************************************************************************)
Initialize == \E rel \in Rels \cup {None}, license \in Licenses :
  LET rels == IF rel = None THEN {} ELSE {Created(rel, "bare", "none")}
      plan == [decl |-> [members |-> {[path |-> <<>>, name |-> "root", rel |-> rel, deps |-> {}]}, rels |-> rels],
               record |-> IF rel = None THEN Record ELSE RecordCreated(Record, rel, license)]
  IN  /\ Declared = None
      /\ rel = None => license \in Spdx   \* none is given
      /\ rel # None => LicenseAgrees(Record, rel, license) /\ Valid(plan.record, SubjectNames(plan.decl))
      /\ Begin([op |-> "init", step |-> "decl", before |-> wt, new |-> rel # None, plan |-> plan])

InitWrites ==
  /\ cmd.op = "init"
  /\ \/ cmd.step = "decl" /\ Write("decl", cmd.plan.decl) /\ Step(IF cmd.new THEN "record" ELSE "commit")
     \/ cmd.step = "record" /\ Write("record", cmd.plan.record) /\ Step("commit")
  /\ UNCHANGED <<head, today, runs, stops, edits>>

InitFiles == IF cmd.new THEN {"decl", "record"} ELSE {"decl"}
InitCommit ==
  /\ cmd.op = "init" /\ cmd.step = "commit"
  /\ End /\ (UNCHANGED head \/ Commit(InitFiles))
  /\ UNCHANGED <<wt, today, runs, stops, edits>>

(* A commit that fails takes the created files away and puts the record back *)
InitRestores == [p \in Paths |-> IF p \in InitFiles THEN cmd.before[p] ELSE wt[p]]
InitCommitFails ==
  /\ cmd.op = "init" /\ cmd.step = "commit" /\ stops < MaxStops
  /\ stops' = stops + 1 /\ wt' = InitRestores /\ End
  /\ UNCHANGED <<head, today, runs, edits>>

(***************************************************************************)
(* monorepo remove: the declaration alone, and no commit                   *)
(***************************************************************************)

(* openEntriesOf *)
OpenEntriesNone(rec, subject) == {}
OpenEntries(rec, subject) ==
  IF subject \in RetiredNow(rec) THEN {} ELSE UNION {OpenOf(rec, table, subject) : table \in Tables}

Remove == \E m \in IF Declared = None THEN {} ELSE Declared.members :
  LET without == [Declared EXCEPT !.members = @ \ {m}] IN
  /\ m.path # <<>>
  /\ m.rel # None => MembersOf(Declared, m.rel) # {m}
  /\ \A n \in Declared.members : m.name \notin n.deps
  /\ OpenEntries(Record, m.name) = {}
  /\ DeclarationsValid(without)
  /\ runs' = runs + 1
  /\ Write("decl", without)
  /\ UNCHANGED <<head, today, cmd, stops, edits>>

(***************************************************************************)
(* The transitions: validate the record, write it, and commit it           *)
(***************************************************************************)
Save(rec) ==
  /\ Declared # None /\ Valid(rec, SubjectNames(Declared))
  /\ runs' = runs + 1
  /\ Write("record", rec)
  /\ cmd' = [op |-> "save", step |-> "commit", before |-> wt]
  /\ UNCHANGED <<head, today, stops, edits>>

KnownSubjects == SubjectNames(Declared) \cup {p.subject : p \in Record.life}

Lifecycle == \E subject \in KnownSubjects, status \in Statuses :
  /\ \A p \in OpenOf(Record, "life", subject) : p.value # status
  /\ status = "retired" => subject \notin (IF Declared = None THEN {} ELSE RelNames(Declared))
  /\ Save(Change(Record, "life", subject, status))

ProprietaryOthers(subject) == Proprietaries(Record) \ {subject}
License == \E subject \in IF Declared = None THEN {} ELSE RelNames(Declared), license \in Spdx :
  /\ \A p \in OpenOf(Record, "lic", subject) : p.value # license
  /\ subject \in Proprietaries(Record) => ProprietaryOthers(subject) # {}
  /\ Save(Change(Record, "lic", subject, license))

Classify == \E subject \in IF Declared = None THEN {} ELSE RelNames(Declared) :
  /\ subject \notin Proprietaries(Record)
  /\ Save(Change(Record, "lic", subject, Proprietary))

(* An identity from today, or one that is dead, and a tag of no version *)
Identity == \E subject \in Rels, value \in Former :
  \/ /\ \A p \in OpenOf(Record, "ids", subject) : p.value # value
     /\ Save(Change(Record, "ids", subject, value))
  \/ \E from, until \in 0 .. today :
       Save([Record EXCEPT !.ids = @ \cup {Period(subject, value, from, until)}])
UnversionedTag ==
  Record.tags = {} /\ Save([Record EXCEPT !.tags = {"nightly"}])

(* transition init-minimal-record, where rlsbl manages nothing: the record *)
(* is written and committed as it is, so what it holds does not change     *)
SaveCommit ==
  /\ cmd.op = "save"
  /\ Commit({"record"}) /\ End
  /\ UNCHANGED <<wt, today, runs, stops, edits>>

(***************************************************************************)
(* Retiring releasables: the record, the declarations, and what is         *)
(* regenerated without them, one commit                                    *)
(***************************************************************************)
LeavingMembers(names) == UNION {MembersOf(Declared, rel) : rel \in names}
Leaving(names) == names \cup {m.name : m \in LeavingMembers(names)}
Without(names) ==
  [members |-> Declared.members \ LeavingMembers(names), rels |-> {r \in Declared.rels : r.name \notin names}]

(* PlanRetirement *)
RetireRefused(names) ==
  \/ \E m \in LeavingMembers(names) : m.path = <<>> \/ m.name \in Scoped
  \/ \E m \in LeavingMembers(names) : ~ Dependents(Declared, m.name) \subseteq Leaving(names)
  \/ ~ DeclarationsValid(Without(names))

(* Its members' lifecycle periods and every open identity close with it *)
ClosedFor(rec, table, subjects) ==
  [rec EXCEPT ![table] = {IF p.subject \in subjects /\ p.until = Open THEN Closed(p) ELSE p : p \in @}]
RetiredRecord(names) ==
  LET retiring == ClosedFor(ClosedFor(Record, "life", Leaving(names)), "ids", Leaving(names))
  IN  [retiring EXCEPT !.life = @ \cup {Period(n, "retired", today, Open) : n \in names}]

Retire == \E names \in (SUBSET (IF Declared = None THEN {} ELSE RelNames(Declared))) \ {{}} :
  /\ names \cap RetiredNow(Record) = {}
  /\ ~ RetireRefused(names)
  /\ Changed \cap RetireTouches = {}
  /\ Valid(RetiredRecord(names), SubjectNames(Without(names)))
  /\ Begin([op |-> "retire", step |-> "record", before |-> wt, names |-> names, leaving |-> Leaving(names),
            plan |-> [decl |-> Without(names), record |-> RetiredRecord(names)]])

RetireSteps ==
  <<"record", "decl", "state", "delete", "routers", "rollup", "commit">>
After(step) == RetireSteps[1 + CHOOSE i \in DOMAIN RetireSteps : RetireSteps[i] = step]

Drop(p) == Write(p, wt[p].val \ cmd.leaving)
RetireApplies ==
  /\ cmd.op = "retire" /\ cmd.step # "commit" /\ Step(After(cmd.step))
  /\ \/ cmd.step \in {"record", "decl"} /\ Write(cmd.step, cmd.plan[cmd.step])
     \/ cmd.step = "state" /\ Drop("state")
     \/ /\ cmd.step = "delete"
        /\ wt' = [wt EXCEPT !["hooks"].val = @ \ cmd.leaving, !["caches"].val = @ \ cmd.names,
                            !["bases"].val = @ \ cmd.leaving]
     \/ cmd.step = "routers" /\ Write("routers", RoutedMembers(Declared))
     \/ cmd.step = "rollup" /\ Write("rollup", RelNames(Declared))
  /\ UNCHANGED <<head, today, runs, stops, edits>>

RetireCommits == Changed \cap RetireTouches
RetireCommit ==
  /\ cmd.op = "retire" /\ cmd.step = "commit"
  /\ End /\ Commit(RetireCommits)
  /\ UNCHANGED <<wt, today, runs, stops, edits>>

(***************************************************************************)
(* monorepo cleanup: the residue it removes, and their commit              *)
(***************************************************************************)

(* undeclaredState: the caches of releasables nothing declares *)
StaleCaches == wt["caches"].val \ RelNames(Declared)
(* The old layout's directories and generated state, never the records of *)
(* what a subject released                                                *)
Removable == {r \in wt["residue"].val : ~ r.keep}

Cleanup ==
  /\ Declared # None /\ (Removable # {} \/ StaleCaches # {})
  /\ runs' = runs + 1
  /\ wt' = [wt EXCEPT !["residue"].val = @ \ Removable, !["caches"].val = @ \ StaleCaches]
  /\ cmd' = [op |-> "cleanup", step |-> "commit", before |-> wt]
  /\ UNCHANGED <<head, today, stops, edits>>

CleanupCommit ==
  /\ cmd.op = "cleanup"
  /\ End /\ (UNCHANGED head \/ Commit({"residue", "caches"}))
  /\ UNCHANGED <<wt, today, runs, stops, edits>>

(***************************************************************************)
(* A process that dies, or whose next write or commit fails and leaves     *)
(* what was written; and what people do between commands                   *)
(***************************************************************************)
Stop ==
  /\ ~ Idle /\ stops < MaxStops
  /\ stops' = stops + 1 /\ End
  /\ UNCHANGED <<wt, head, today, runs, edits>>

Edit == \E p \in Editable :
  /\ Idle /\ edits < MaxEdits /\ ~ wt[p].own
  /\ p = "decl" => Declared # None
  /\ edits' = edits + 1 /\ wt' = [wt EXCEPT ![p].own = TRUE]
  /\ UNCHANGED <<head, today, cmd, runs, stops>>

CommitWork ==
  /\ Idle /\ Changed # {} /\ head' = wt
  /\ UNCHANGED <<wt, today, cmd, runs, stops, edits>>

NextDay ==
  /\ Idle /\ today < MaxDay /\ today' = today + 1
  /\ UNCHANGED <<wt, head, cmd, runs, stops, edits>>

(* One command runs at a time *)
Commands ==
  /\ Idle /\ runs < MaxRuns
  /\ \/ Add \/ Initialize \/ Remove
     \/ Lifecycle \/ License \/ Classify \/ Identity \/ UnversionedTag
     \/ Retire \/ Cleanup
Next ==
  \/ Commands
  \/ AddDeclarations \/ AddRecord \/ AddScaffold \/ AddCommit \/ AddFails
  \/ InitWrites \/ InitCommit \/ InitCommitFails
  \/ SaveCommit \/ RetireApplies \/ RetireCommit \/ CleanupCommit
  \/ Stop \/ Edit \/ CommitWork \/ NextDay

Spec == Init /\ [][Next]_vars

(***************************************************************************)
(* Properties                                                              *)
(***************************************************************************)

(* An add that fails, and an init whose commit fails, leave the working    *)
(* tree as they found it, the changes people had not committed included,   *)
(* however far they had come.                                              *)
PutsBack == AddFails \/ InitCommitFails => wt' = cmd.before

(* No command but one that writes the record commits a change that was in  *)
(* the working tree before it began.                                       *)
CommitsItsOwn ==
  cmd.op \in {"add", "retire"} =>
    \A p \in Paths : head'[p] # head[p] => cmd.before[p] = head[p]

(* What people had not committed stays theirs: it is neither lost when a   *)
(* command fails nor committed when one succeeds.                          *)
UncommittedKept == [][PutsBack /\ CommitsItsOwn]_vars

(* What the record holds at HEAD is never lost: a period stays as it is,   *)
(* or is closed, and a tag stays recorded, through every command, rollback *)
(* and stop (lifecycle-record-valid holds releases to it).                 *)
Kept(old, new) ==
  /\ \A table \in Tables : \A p \in old[table] :
       \E q \in new[table] : q = p \/ (p.until = Open /\ q = [p EXCEPT !.until = q.until])
  /\ old.tags \subseteq new.tags

(* Whatever the order of its writes and wherever a command stopped, an     *)
(* open entry of the record names a subject the declarations beside it     *)
(* hold, or a retired one: the next command's validation can pass.         *)
RecordFitsDeclarations == Declared # None => Valid(Record, SubjectNames(Declared))

(* Nor does any of them leave a confidential repository with no            *)
(* proprietary period open: only declassifying makes it public.            *)
RecordKept ==
  [][/\ Kept(head["record"].val, head'["record"].val)
     /\ Confidential(head["record"].val) => Confidential(head'["record"].val)]_vars
=============================================================================
