-------------------------- MODULE WorkspaceProofs --------------------------
(***************************************************************************)
(* The commands on a workspace's declarations and record, proved for any   *)
(* members, releasables, licenses, dates and bounds, and for every          *)
(* repository they may find.  The inductive invariant says how far each    *)
(* command has come: what it found, what it has written of its plan and    *)
(* that the record fits the declarations before and after each write.      *)
(***************************************************************************)
EXTENDS Workspace, TLAPS

\* A record that comes after another has its periods, closed perhaps, and its
\* tags, and is confidential if that was.
Follows(old, new) == Kept(old, new) /\ (Confidential(old) => Confidential(new))

Declares(tree) == tree["decl"].val
Recorded(tree) == tree["record"].val

IsTree(tree) ==
    /\ tree = [p \in Paths |-> tree[p]]
    /\ \A p \in Paths : tree[p] = [own |-> tree[p].own, val |-> tree[p].val]
    /\ Declares(tree) \in Declarations \cup {None} /\ Recorded(tree) \in Records

\* A tree whose record fits its declarations and comes after the one at HEAD.
Sound(tree) ==
    /\ IsTree(tree) /\ Valid(Recorded(tree), SubjectNames(Declares(tree)))
    /\ Follows(Recorded(head), Recorded(tree))

\* What a command is to declare and record fits, and comes after what it found.
Planned ==
    /\ "plan" \in DOMAIN cmd
    /\ cmd.plan.decl \in Declarations /\ cmd.plan.record \in Records
    /\ Follows(Recorded(cmd.before), cmd.plan.record)
    /\ Valid(cmd.plan.record, SubjectNames(cmd.plan.decl))

\* A command that declares more writes the declarations first, and the record it
\* found fits them.
Growing ==
    /\ Planned /\ "new" \in DOMAIN cmd /\ cmd.new \in BOOLEAN
    /\ Valid(Recorded(cmd.before), SubjectNames(cmd.plan.decl))
    /\ cmd.step = "decl" => wt["record"] = cmd.before["record"]
    /\ cmd.step = "record" => cmd.new /\ Declared = cmd.plan.decl
    /\ cmd.op = "add" => "member" \in DOMAIN cmd /\ cmd.member \in MemberFiles

\* An init has written its own files only.
Initializing ==
    /\ \A p \in Paths \ {"decl", "record"} : wt[p] = cmd.before[p]
    /\ ~cmd.new => wt["record"] = cmd.before["record"]

\* A retirement, which declares less, writes the record first, and it fits what
\* was declared; the files it changes were as HEAD has them.
Retiring ==
    /\ Planned
    /\ Valid(cmd.plan.record, SubjectNames(Declares(cmd.before)))
    /\ cmd.step = "record" => wt["decl"] = cmd.before["decl"]
    /\ cmd.step # "record" => Record = cmd.plan.record
    /\ \A p \in RetireTouches : cmd.before[p] = head[p]

Underway ==
    ~Idle =>
        /\ {"op", "step", "before"} \subseteq DOMAIN cmd
        /\ cmd.op \in {"add", "init", "save", "retire", "cleanup"}
        /\ Sound(cmd.before)
        /\ cmd.op \in {"add", "init"} => Growing
        /\ cmd.op = "init" => Initializing
        /\ cmd.op = "retire" => Retiring

Inv == IsTree(head) /\ Sound(wt) /\ today \in Nat /\ Underway

-----------------------------------------------------------------------------
(* Trees and records.                                                      *)

LEMMA FilesAre == /\ {"decl", "record"} \subseteq Paths
                  /\ MemberFiles \subseteq Paths /\ Shared \subseteq Paths
BY DEF Paths, Shared

\* A tree with one file written.
LEMMA PutIs ==
    ASSUME NEW tree, IsTree(tree), NEW p \in Paths, NEW value,
           p = "decl" => value \in Declarations \cup {None},
           p = "record" => value \in Records
    PROVE  /\ IsTree(Put(tree, p, value)) /\ Put(tree, p, value)[p].val = value
           /\ \A q \in Paths \ {p} : Put(tree, p, value)[q] = tree[q]
<1> DEFINE new == Put(tree, p, value)
<1>1. new = [q \in Paths |-> IF q = p THEN [tree[p] EXCEPT !.val = value] ELSE tree[q]]
  BY DEF Put, IsTree
<1>2. [tree[p] EXCEPT !.val = value] = [own |-> tree[p].own, val |-> value]
  BY DEF IsTree
<1>3. \A q \in Paths : new[q] = IF q = p THEN [own |-> tree[p].own, val |-> value] ELSE tree[q]
  BY <1>1, <1>2
<1>4. new = [q \in Paths |-> new[q]]
  BY <1>1
<1>5. \A q \in Paths : new[q] = [own |-> new[q].own, val |-> new[q].val]
  BY <1>3 DEF IsTree
<1> HIDE DEF new
<1>6. Declares(new) \in Declarations \cup {None} /\ Recorded(new) \in Records
  BY <1>3, FilesAre DEF IsTree, Declares, Recorded
<1> QED
  BY <1>3, <1>4, <1>5, <1>6 DEF IsTree, new

\* A tree with the files of one or another, one by one.
LEMMA MixIs ==
    ASSUME NEW a, NEW b, NEW c, IsTree(a), IsTree(b), NEW S,
           c = [p \in Paths |-> IF p \in S THEN a[p] ELSE b[p]]
    PROVE  /\ IsTree(c) /\ \A p \in Paths : c[p] = a[p] \/ c[p] = b[p]
           /\ Recorded(c) = Recorded(a) \/ Recorded(c) = Recorded(b)
<1>1. \A p \in Paths : c[p] = IF p \in S THEN a[p] ELSE b[p]
  OBVIOUS
<1>2. c = [p \in Paths |-> c[p]]
  OBVIOUS
<1>3. \A p \in Paths : c[p] = [own |-> c[p].own, val |-> c[p].val]
  BY <1>1 DEF IsTree
<1> QED
  BY <1>1, <1>2, <1>3, FilesAre DEF IsTree, Declares, Recorded

\* What fits some subjects fits more.
LEMMA ValidMore ==
    ASSUME NEW rec, NEW S, NEW T, S \subseteq T, Valid(rec, S)
    PROVE  Valid(rec, T)
BY DEF Valid

\* A record comes after itself.
LEMMA FollowsItself == ASSUME NEW rec PROVE Follows(rec, rec)
BY DEF Follows, Kept

\* A record follows whatever one it follows does.
LEMMA FollowsOn ==
    ASSUME NEW a \in Records, NEW b \in Records, NEW c \in Records, Follows(a, b), Follows(b, c)
    PROVE  Follows(a, c)
<1>1. ASSUME NEW table \in Tables, NEW p \in a[table]
      PROVE  \E q \in c[table] : q = p \/ (p.until = Open /\ q = [p EXCEPT !.until = q.until])
  <2>1. p \in Periods
    BY DEF Records, Tables
  <2>2. PICK q \in b[table] : q = p \/ (p.until = Open /\ q = [p EXCEPT !.until = q.until])
    BY DEF Follows, Kept
  <2>3. PICK r \in c[table] : r = q \/ (q.until = Open /\ r = [q EXCEPT !.until = r.until])
    BY DEF Follows, Kept
  <2>4. q \in Periods /\ r \in Periods
    BY DEF Records, Tables
  <2> QED
    BY <2>1, <2>2, <2>3, <2>4 DEF Periods
<1> QED
  BY <1>1 DEF Follows, Kept

With(rec, table, T) == [rec EXCEPT ![table] = T]

LEMMA TablePut ==
    ASSUME NEW rec \in Records, NEW table \in Tables, NEW T \in SUBSET Periods
    PROVE  /\ With(rec, table, T) \in Records /\ With(rec, table, T)[table] = T
           /\ \A u \in Tables \ {table} : With(rec, table, T)[u] = rec[u]
           /\ With(rec, table, T).tags = rec.tags
<1>1. CASE table = "life"
  BY <1>1 DEF Records, Tables, With
<1>2. CASE table = "lic"
  BY <1>2 DEF Records, Tables, With
<1>3. CASE table = "ids"
  BY <1>3 DEF Records, Tables, With
<1> QED
  BY <1>1, <1>2, <1>3 DEF Tables

\* Periods added, and open ones closed, where a proprietary one stays open.
LEMMA TableFollows ==
    ASSUME NEW rec \in Records, NEW table \in Tables, NEW T \in SUBSET Periods,
           \A p \in rec[table] : \E q \in T : q = p \/ (p.until = Open /\ q = [p EXCEPT !.until = q.until]),
           table = "lic" /\ Confidential(rec) => \E p \in T : p.value = Proprietary /\ p.until = Open
    PROVE  With(rec, table, T) \in Records /\ Follows(rec, With(rec, table, T))
<1> DEFINE new == With(rec, table, T)
<1>1. /\ new \in Records /\ new[table] = T /\ new.tags = rec.tags
      /\ \A u \in Tables \ {table} : new[u] = rec[u]
  BY TablePut
<1> HIDE DEF new
<1>2. Kept(rec, new)
  BY <1>1 DEF Kept
<1>3. Confidential(rec) => Confidential(new)
  <2>1. CASE table = "lic"
    BY <1>1, <2>1 DEF Confidential, Proprietaries
  <2>2. CASE table # "lic"
    <3>1. new.lic = rec.lic
      BY <1>1, <2>2 DEF Tables
    <3> QED
      BY <3>1 DEF Confidential, Proprietaries
  <2> QED
    BY <2>1, <2>2
<1> QED
  BY <1>1, <1>2, <1>3 DEF Follows, new

LEMMA PeriodIs ==
    ASSUME NEW s \in Names, NEW v \in Values, NEW from \in Nat, NEW until \in Nat
    PROVE  Period(s, v, from, until) \in Periods
BY DEF Period, Periods

LEMMA ClosedIs ==
    ASSUME NEW p \in Periods, today \in Nat
    PROVE  /\ Closed(p) \in Periods /\ Closed(p) = [p EXCEPT !.until = Closed(p).until]
           /\ Closed(p).subject = p.subject /\ Closed(p).value = p.value
BY DEF Closed, Periods

-----------------------------------------------------------------------------
(* What the commands make of a record.                                     *)

LEMMA OpenPeriodFollows ==
    ASSUME NEW rec \in Records, today \in Nat, NEW table \in Tables, NEW s \in Names, NEW v \in Values,
           WorkspaceAssumption
    PROVE  OpenPeriod(rec, table, s, v) \in Records /\ Follows(rec, OpenPeriod(rec, table, s, v))
<1> DEFINE T == rec[table] \cup {Period(s, v, today, Open)}
<1>1. rec[table] \in SUBSET Periods
  BY DEF Records, Tables
<1>2. T \in SUBSET Periods
  BY <1>1, PeriodIs DEF Open, WorkspaceAssumption
<1>3. \A p \in rec[table] : p \in T
  OBVIOUS
<1>4. table = "lic" /\ Confidential(rec) => \E p \in T : p.value = Proprietary /\ p.until = Open
  BY <1>3 DEF Confidential, Proprietaries
<1>5. OpenPeriod(rec, table, s, v) = With(rec, table, T)
  BY DEF OpenPeriod, With
<1> HIDE DEF T
<1> QED
  BY <1>2, <1>3, <1>4, <1>5, TableFollows

LEMMA CloseOpenFollows ==
    ASSUME NEW rec \in Records, today \in Nat, NEW table \in Tables, NEW s \in Names,
           table = "lic" /\ s \in Proprietaries(rec) => Proprietaries(rec) \ {s} # {}
    PROVE  CloseOpen(rec, table, s) \in Records /\ Follows(rec, CloseOpen(rec, table, s))
<1> DEFINE T == (rec[table] \ OpenOf(rec, table, s)) \cup {Closed(p) : p \in OpenOf(rec, table, s)}
<1>1. rec[table] \in SUBSET Periods
  BY DEF Records, Tables
<1>2. OpenOf(rec, table, s) \subseteq rec[table]
  BY DEF OpenOf
<1>3. T \in SUBSET Periods
  BY <1>1, <1>2, ClosedIs
<1>4. ASSUME NEW p \in rec[table]
      PROVE  \E q \in T : q = p \/ (p.until = Open /\ q = [p EXCEPT !.until = q.until])
  <2>1. CASE p \in OpenOf(rec, table, s)
    <3>1. Closed(p) \in T /\ p.until = Open /\ p \in Periods
      BY <1>1, <2>1 DEF OpenOf
    <3>2. Closed(p) = [p EXCEPT !.until = Closed(p).until]
      BY <3>1, ClosedIs
    <3> QED
      BY <3>1, <3>2
  <2>2. CASE p \notin OpenOf(rec, table, s)
    BY <2>2
  <2> QED
    BY <2>1, <2>2
<1>5. ASSUME table = "lic", Confidential(rec) PROVE \E p \in T : p.value = Proprietary /\ p.until = Open
  <2>1. PICK o \in Proprietaries(rec) : o # s
    BY <1>5 DEF Confidential
  <2>2. PICK p \in rec.lic : p.value = Proprietary /\ p.until = Open /\ p.subject = o
    BY <2>1 DEF Proprietaries
  <2>3. p \in rec[table] /\ p \notin OpenOf(rec, table, s)
    BY <1>5, <2>1, <2>2 DEF OpenOf
  <2> QED
    BY <2>2, <2>3
<1>6. CloseOpen(rec, table, s) = With(rec, table, T)
  BY DEF CloseOpen, With
<1> HIDE DEF T
<1> QED
  BY <1>3, <1>4, <1>5, <1>6, TableFollows

LEMMA ChangeFollows ==
    ASSUME NEW rec \in Records, today \in Nat, NEW table \in Tables, NEW s \in Names, NEW v \in Values,
           WorkspaceAssumption,
           table = "lic" /\ s \in Proprietaries(rec) => Proprietaries(rec) \ {s} # {}
    PROVE  Change(rec, table, s, v) \in Records /\ Follows(rec, Change(rec, table, s, v))
<1>1. CloseOpen(rec, table, s) \in Records /\ Follows(rec, CloseOpen(rec, table, s))
  BY CloseOpenFollows
<1>2. /\ Change(rec, table, s, v) \in Records
      /\ Follows(CloseOpen(rec, table, s), Change(rec, table, s, v))
  BY <1>1, OpenPeriodFollows DEF Change
<1> QED
  BY <1>1, <1>2, FollowsOn

LEMMA RecordCreatedFollows ==
    ASSUME NEW rec \in Records, today \in Nat, NEW rel \in Rels, NEW license \in Licenses, WorkspaceAssumption
    PROVE  RecordCreated(rec, rel, license) \in Records /\ Follows(rec, RecordCreated(rec, rel, license))
<1>1. rel \in Names /\ rel \in Values /\ license \in Values /\ "ids" \in Tables /\ "lic" \in Tables
  BY DEF Names, Values, Tables
<1>2. ASSUME NEW r \in Records
      PROVE  OwnIdentity(r, rel) \in Records /\ Follows(r, OwnIdentity(r, rel))
  BY <1>1, <1>2, ChangeFollows, FollowsItself DEF OwnIdentity
<1>3. /\ OpenPeriod(rec, "lic", rel, license) \in Records
      /\ Follows(rec, OpenPeriod(rec, "lic", rel, license))
  BY <1>1, OpenPeriodFollows
<1> QED
  BY <1>2, <1>3, FollowsOn DEF RecordCreated

LEMMA ClosedForFollows ==
    ASSUME NEW rec \in Records, today \in Nat, NEW table \in Tables, table # "lic", NEW S
    PROVE  ClosedFor(rec, table, S) \in Records /\ Follows(rec, ClosedFor(rec, table, S))
<1> DEFINE After1(p) == IF p.subject \in S /\ p.until = Open THEN Closed(p) ELSE p
           T == {After1(p) : p \in rec[table]}
<1>1. rec[table] \in SUBSET Periods
  BY DEF Records, Tables
<1>2. T \in SUBSET Periods
  BY <1>1, ClosedIs
<1>3. ASSUME NEW p \in rec[table]
      PROVE  \E q \in T : q = p \/ (p.until = Open /\ q = [p EXCEPT !.until = q.until])
  <2>1. After1(p) \in T
    OBVIOUS
  <2>2. p \in Periods
    BY <1>1
  <2>3. Closed(p) = [p EXCEPT !.until = Closed(p).until]
    BY <2>2, ClosedIs
  <2> QED
    BY <2>1, <2>3
<1>4. ClosedFor(rec, table, S) = With(rec, table, T)
  BY DEF ClosedFor, With
<1> HIDE DEF T
<1> QED
  BY <1>2, <1>3, <1>4, TableFollows

LEMMA RetiredRecordFollows ==
    ASSUME Record \in Records, today \in Nat, NEW names \in SUBSET Names, WorkspaceAssumption
    PROVE  RetiredRecord(names) \in Records /\ Follows(Record, RetiredRecord(names))
<1> DEFINE r1 == ClosedFor(Record, "life", Leaving(names))
           r2 == ClosedFor(r1, "ids", Leaving(names))
           T == r2["life"] \cup {Period(n, "retired", today, Open) : n \in names}
<1>t. "life" \in Tables /\ "ids" \in Tables
  BY DEF Tables
<1>1. r1 \in Records /\ Follows(Record, r1)
  BY <1>t, ClosedForFollows
<1>2. r2 \in Records /\ Follows(r1, r2)
  BY <1>t, <1>1, ClosedForFollows
<1> HIDE DEF r1
<1>3. RetiredRecord(names) = With(r2, "life", T)
  BY DEF RetiredRecord, With, r1
<1> HIDE DEF r2
<1>4. r2["life"] \in SUBSET Periods
  BY <1>2 DEF Records
<1>5. "retired" \in Values /\ Open \in Nat
  BY DEF Values, Open, WorkspaceAssumption
<1>6. T \in SUBSET Periods
  BY <1>4, <1>5, PeriodIs
<1>7. \A p \in r2["life"] : p \in T
  OBVIOUS
<1> HIDE DEF T
<1>8. RetiredRecord(names) \in Records /\ Follows(r2, RetiredRecord(names))
  BY <1>t, <1>2, <1>3, <1>6, <1>7, TableFollows
<1> QED
  BY <1>1, <1>2, <1>8, FollowsOn

-----------------------------------------------------------------------------
(* How a command begins, goes on and ends.                                 *)

LEMMA SoundMoves ==
    ASSUME NEW t, NEW h, h = head, head' = h, Sound(t)
    PROVE  Sound(t)'
BY DEF Sound

\* A step of a command changes where it is, and nothing else of what it keeps.
LEMMA StepIs ==
    ASSUME NEW next, Step(next), "step" \in DOMAIN cmd
    PROVE  /\ DOMAIN cmd' = DOMAIN cmd /\ cmd'.step = next
           /\ "op" \in DOMAIN cmd => cmd'.op = cmd.op
           /\ "before" \in DOMAIN cmd => cmd'.before = cmd.before
           /\ "plan" \in DOMAIN cmd => cmd'.plan = cmd.plan
           /\ "new" \in DOMAIN cmd => cmd'.new = cmd.new
           /\ "member" \in DOMAIN cmd => cmd'.member = cmd.member
BY DEF Step

\* What HEAD holds, and where a command ends with HEAD as it was, what it leaves
\* in the working tree comes after.
LEMMA Ends ==
    ASSUME Inv, End, UNCHANGED <<head, today>>, Sound(wt)'
    PROVE  Inv'
BY DEF Inv, Underway, End, NoCommand, Idle

\* A commit of some files leaves HEAD a record the working tree's comes after.
LEMMA CommitEnds ==
    ASSUME Inv, End, UNCHANGED <<wt, today>>, NEW S,
           head' = [p \in Paths |-> IF p \in S THEN wt[p] ELSE head[p]]
    PROVE  Inv'
<1>1. IsTree(head') /\ (Recorded(head') = Recorded(wt) \/ Recorded(head') = Recorded(head))
  BY MixIs DEF Inv, Sound
<1>2. Follows(Recorded(head'), Recorded(wt))
  BY <1>1, FollowsItself DEF Inv, Sound
<1>3. Sound(wt)'
  BY <1>2 DEF Inv, Sound
<1> QED
  BY <1>1, <1>3 DEF Inv, Underway, End, NoCommand, Idle

\* A command begins with what it found, which it is to add to or to take from.
LEMMA Begins ==
    ASSUME WorkspaceAssumption, Inv, NEW command, Begin(command), command.before = wt,
           {"op", "step", "before"} \subseteq DOMAIN command,
           command.op \in {"add", "init", "save", "retire", "cleanup"},
           (command.op \in {"add", "init"} => Growing)', (command.op = "init" => Initializing)',
           (command.op = "retire" => Retiring)'
    PROVE  Inv'
<1>1. UNCHANGED <<wt, head, today>> /\ cmd' = command
  BY DEF Begin
<1>2. PICK t, h : t = wt /\ h = head
  OBVIOUS
<1>3. Sound(t)'
  BY <1>1, <1>2, SoundMoves DEF Inv
<1>4. Sound(wt)' /\ Sound(cmd.before)'
  BY <1>1, <1>2, <1>3 DEF Sound
<1> QED
  BY <1>1, <1>4 DEF Inv, Underway

\* Writing what a command planned.
LEMMA WritesDecl ==
    ASSUME WorkspaceAssumption, Inv, NEW d \in Declarations, wt' = Put(wt, "decl", d), UNCHANGED head,
           Valid(Record, SubjectNames(d))
    PROVE  Sound(wt)' /\ Declared' = d /\ \A p \in Paths \ {"decl"} : wt'[p] = wt[p]
<1>1. /\ IsTree(wt') /\ wt'["decl"].val = d /\ \A p \in Paths \ {"decl"} : wt'[p] = wt[p]
  BY PutIs, FilesAre DEF Inv, Sound
<1>2. Recorded(wt') = Recorded(wt)
  BY <1>1, FilesAre DEF Recorded
<1> QED
  BY <1>1, <1>2 DEF Sound, Inv, Declared, Record, Declares, Recorded

\* Writing the record it planned.
LEMMA WritesRecord ==
    ASSUME WorkspaceAssumption, Inv, NEW r \in Records, wt' = Put(wt, "record", r), UNCHANGED head,
           Valid(r, SubjectNames(Declared)), Follows(Recorded(head), r)
    PROVE  Sound(wt)' /\ Record' = r /\ \A p \in Paths \ {"record"} : wt'[p] = wt[p]
<1>1. /\ IsTree(wt') /\ wt'["record"].val = r /\ \A p \in Paths \ {"record"} : wt'[p] = wt[p]
  BY PutIs, FilesAre DEF Inv, Sound
<1>2. Declares(wt') = Declares(wt)
  BY <1>1, FilesAre DEF Declares
<1> QED
  BY <1>1, <1>2 DEF Sound, Inv, Declared, Record, Declares, Recorded

\* Any other file may be written.
LEMMA WritesOther ==
    ASSUME Inv, UNCHANGED head, IsTree(wt'), \A p \in {"decl", "record"} : wt'[p].val = wt[p].val
    PROVE  Sound(wt)'
BY DEF Sound, Inv, Declares, Recorded

-----------------------------------------------------------------------------
(* Each command.                                                           *)

\* An add that fails puts back every file, one it wrote or found changed.
LEMMA RestoresAll ==
    ASSUME Inv, cmd.op = "add", ~Idle
    PROVE  Restored = cmd.before
<1>1. IsTree(wt) /\ IsTree(head) /\ IsTree(cmd.before)
  BY DEF Inv, Underway, Sound
<1>2. \A p \in Paths : Restored[p] = cmd.before[p]
  BY DEF Restored, Written, Touched, Changed
<1>3. Restored = [p \in Paths |-> Restored[p]]
  BY DEF Restored
<1>4. cmd.before = [p \in Paths |-> cmd.before[p]]
  BY <1>1 DEF IsTree
<1> HIDE DEF Restored
<1> QED
  BY <1>2, <1>3, <1>4

\* What an init restores is what it found, and so is what it never wrote.
LEMMA InitRestoresAll ==
    ASSUME Inv, cmd.op = "init", ~Idle
    PROVE  InitRestores = cmd.before
<1>1. IsTree(wt) /\ IsTree(cmd.before) /\ Initializing
  BY DEF Inv, Underway, Sound
<1>2. \A p \in Paths : InitRestores[p] = cmd.before[p]
  BY <1>1 DEF InitRestores, InitFiles, Initializing
<1>3. cmd.before = [p \in Paths |-> cmd.before[p]]
  BY <1>1 DEF IsTree
<1> QED
  BY <1>2, <1>3 DEF InitRestores

\* What is known of a command that runs.
LEMMA Going ==
    ASSUME WorkspaceAssumption, Inv, cmd.op \in {"add", "init", "save", "retire", "cleanup"}
    PROVE  /\ ~Idle /\ "step" \in DOMAIN cmd /\ {"op", "before"} \subseteq DOMAIN cmd /\ Sound(cmd.before)
           /\ cmd.op \in {"add", "init"} => Growing
           /\ cmd.op = "init" => Initializing
           /\ cmd.op = "retire" => Retiring
BY DEF Inv, Underway, Idle, WorkspaceAssumption

\* A command that goes on with a sound tree, and what it keeps of its own.
LEMMA GoesOn ==
    ASSUME WorkspaceAssumption, Inv, cmd.op \in {"add", "init", "retire"}, NEW next, Step(next),
           UNCHANGED <<head, today>>, Sound(wt)',
           (cmd.op \in {"add", "init"} => Growing)', (cmd.op = "init" => Initializing)',
           (cmd.op = "retire" => Retiring)'
    PROVE  Inv'
<1>1. /\ "step" \in DOMAIN cmd /\ {"op", "before"} \subseteq DOMAIN cmd /\ Sound(cmd.before)
  BY Going
<1>2. DOMAIN cmd' = DOMAIN cmd /\ cmd'.op = cmd.op /\ cmd'.before = cmd.before
  BY <1>1, StepIs
<1>3. Sound(cmd.before)'
  BY <1>1, <1>2 DEF Sound
<1> QED
  BY <1>1, <1>2, <1>3 DEF Inv, Underway

\* The two writes of a command that declares more, and its other steps.
LEMMA GrowingKept ==
    ASSUME WorkspaceAssumption, Inv, cmd.op \in {"add", "init"}, NEW next, Step(next),
           UNCHANGED <<head, today>>,
           \/ /\ cmd.step = "decl" /\ wt' = Put(wt, "decl", cmd.plan.decl)
              /\ next = "record" => cmd.new
              /\ next # "decl"
           \/ /\ cmd.step = "record" /\ wt' = Put(wt, "record", cmd.plan.record)
              /\ next \notin {"decl", "record"}
           \/ /\ cmd.op = "add" /\ next \notin {"decl", "record"}
              /\ Sound(wt)'
    PROVE  Inv'
<1>1. /\ "step" \in DOMAIN cmd /\ {"op", "before"} \subseteq DOMAIN cmd /\ Sound(cmd.before)
      /\ Growing /\ (cmd.op = "init" => Initializing) /\ Planned
  BY Going DEF Growing
<1>2. /\ cmd'.op = cmd.op /\ cmd'.before = cmd.before /\ cmd'.step = next /\ DOMAIN cmd' = DOMAIN cmd
      /\ cmd'.plan = cmd.plan /\ cmd'.new = cmd.new
      /\ cmd.op = "add" => cmd'.member = cmd.member
  BY <1>1, StepIs DEF Growing, Planned
<1>3. Planned'
  BY <1>1, <1>2 DEF Planned
<1>4. CASE cmd.step = "decl" /\ wt' = Put(wt, "decl", cmd.plan.decl) /\ (next = "record" => cmd.new) /\ next # "decl"
  <2>1. Record = Recorded(cmd.before)
    BY <1>1, <1>4, FilesAre DEF Growing, Record, Recorded
  <2>2. Valid(Record, SubjectNames(cmd.plan.decl))
    BY <1>1, <2>1 DEF Growing
  <2>3. Sound(wt)' /\ Declared' = cmd.plan.decl /\ \A p \in Paths \ {"decl"} : wt'[p] = wt[p]
    BY <1>1, <1>4, <2>2, WritesDecl DEF Planned
  <2>4. Growing'
    BY <1>1, <1>2, <1>3, <1>4, <2>3 DEF Growing
  <2>5. (cmd.op = "init" => Initializing)'
    BY <1>1, <1>2, <2>3, FilesAre DEF Initializing
  <2> QED
    BY <1>2, <2>3, <2>4, <2>5, GoesOn
<1>5. CASE /\ cmd.step = "record" /\ wt' = Put(wt, "record", cmd.plan.record)
           /\ next \notin {"decl", "record"}
  <2>1. Declared = cmd.plan.decl /\ cmd.new
    BY <1>1, <1>5 DEF Growing
  <2>2. Follows(Recorded(head), cmd.plan.record)
    BY <1>1, FollowsOn DEF Planned, Sound, IsTree, Inv
  <2>3. Sound(wt)' /\ \A p \in Paths \ {"record"} : wt'[p] = wt[p]
    BY <1>1, <1>5, <2>1, <2>2, WritesRecord DEF Planned
  <2>4. Growing'
    BY <1>1, <1>2, <1>3, <1>5 DEF Growing
  <2>5. (cmd.op = "init" => Initializing)'
    BY <1>1, <1>2, <2>1, <2>3, FilesAre DEF Initializing
  <2> QED
    BY <1>2, <2>3, <2>4, <2>5, GoesOn
<1>6. CASE cmd.op = "add" /\ next \notin {"decl", "record"} /\ Sound(wt)'
  <2>1. Growing'
    BY <1>1, <1>2, <1>3, <1>6 DEF Growing
  <2> QED
    BY <1>2, <1>6, <2>1, GoesOn
<1> QED
  BY <1>4, <1>5, <1>6

\* monorepo add, as it goes on, commits or fails.
LEMMA AddKept ==
    ASSUME WorkspaceAssumption, Inv,
           AddDeclarations \/ AddRecord \/ AddScaffold \/ AddCommit \/ AddFails
    PROVE  Inv'
<1>1. CASE AddDeclarations
  BY <1>1, GrowingKept DEF AddDeclarations, Write
<1>2. CASE AddRecord
  BY <1>2, GrowingKept DEF AddRecord, Write
<1>3. CASE AddScaffold
  <2>1. /\ cmd.op = "add" /\ UNCHANGED <<head, today>>
        /\ \E next \in {"state", "routers", "commit"} : Step(next)
    BY <1>3 DEF AddScaffold
  <2>2. cmd.member \in MemberFiles /\ cmd.member \in Paths \ {"decl", "record", "bases"}
    BY <2>1, Going, FilesAre DEF Growing, WorkspaceAssumption, Shared
  <2>3. IsTree(wt)
    BY DEF Inv, Sound
  <2>4. IsTree(wt') /\ \A p \in {"decl", "record"} : wt'[p] = wt[p]
    <3>1. CASE wt' = [wt EXCEPT ![cmd.member].val = TRUE, !["bases"].val = @ \cup {cmd.member}]
      <4>1. PICK m, b : m = cmd.member /\ b = wt["bases"].val \cup {m}
        OBVIOUS
      <4>2. PICK t : t = Put(wt, m, TRUE)
        OBVIOUS
      <4>3. IsTree(t) /\ \A p \in Paths \ {m} : t[p] = wt[p]
        <5>1. m \in Paths /\ m # "decl" /\ m # "record"
          BY <2>2, <4>1
        <5>2. PICK v : v = TRUE
          OBVIOUS
        <5>3. IsTree(Put(wt, m, v)) /\ \A p \in Paths \ {m} : Put(wt, m, v)[p] = wt[p]
          BY <2>3, <5>1, PutIs
        <5> QED
          BY <4>2, <5>2, <5>3, Zenon
      <4>4. IsTree(Put(t, "bases", b)) /\ \A p \in Paths \ {"bases"} : Put(t, "bases", b)[p] = t[p]
        BY <4>3, PutIs, FilesAre DEF Shared
      <4>5. wt' = Put(t, "bases", b)
        BY <2>2, <2>3, <3>1, <4>1, <4>2 DEF Put, IsTree
      <4> QED
        BY <2>2, <4>1, <4>3, <4>4, <4>5, FilesAre
    <3>2. CASE wt' = Put(wt, "state", wt["state"].val \cup {cmd.member})
      BY <2>3, <3>2, PutIs, FilesAre DEF Shared
    <3>3. CASE wt' = [wt EXCEPT !["routers"] = [own |-> FALSE, val |-> RoutedMembers(Declared)]]
      BY <2>3, <3>3, FilesAre DEF Shared, IsTree, Declares, Recorded
    <3> QED
      BY <1>3, <3>1, <3>2, <3>3 DEF AddScaffold, Write
  <2>5. Sound(wt)'
    BY <2>1, <2>4, WritesOther
  <2> QED
    BY <2>1, <2>5, GrowingKept
<1>4. CASE AddCommit
  <2>1. UNCHANGED <<wt, today>> /\ End
    BY <1>4 DEF AddCommit
  <2>2. CASE UNCHANGED head
    BY <2>1, <2>2, Ends DEF Inv, Sound
  <2>3. CASE head' = [p \in Paths |-> IF p \in AddCommits THEN wt[p] ELSE head[p]]
    BY <2>1, <2>3, CommitEnds
  <2> QED
    BY <1>4, <2>2, <2>3 DEF AddCommit
<1>5. CASE AddFails
  <2>1. wt' = cmd.before /\ UNCHANGED <<head, today>> /\ End /\ Sound(cmd.before)
    BY <1>5, RestoresAll, Going DEF AddFails
  <2>2. Sound(wt)'
    BY <2>1 DEF Sound
  <2> QED
    BY <2>1, <2>2, Ends
<1> QED
  BY <1>1, <1>2, <1>3, <1>4, <1>5

\* What is declared more than before leaves the record fitting.
LEMMA JoinedHolds ==
    ASSUME WorkspaceAssumption, NEW d \in Declarations, NEW m, NEW rels, Joined(d, m, rels) \in Declarations
    PROVE  SubjectNames(d) \subseteq SubjectNames(Joined(d, m, rels))
<1>1. d # None /\ Joined(d, m, rels) # None
  BY DEF WorkspaceAssumption
<1> QED
  BY <1>1 DEF SubjectNames, MemberNames, RelNames, Joined

\* An add that begins: its plan declares and records more.
LEMMA AddBegins ==
    ASSUME WorkspaceAssumption, Inv, Idle, Add
    PROVE  Inv'
<1>1. PICK t \in Territories, rel \in Rels \cup {None}, dep \in Depends, tag \in Formats, license \in Licenses :
        LET m == [path |-> t.path, name |-> t.name, rel |-> rel, deps |-> dep]
            new == rel # None /\ Declared # None /\ rel \notin RelNames(Declared)
            rels == IF new THEN {Created(rel, tag, "ci")} ELSE {}
            plan == AddPlan(m, rels, license)
        IN  /\ ~ AddRefused(m, rels, license, plan)
            /\ ~ new => tag = "named" /\ license \in Spdx
            /\ Begin([op |-> "add", step |-> "decl", before |-> wt,
                      member |-> t.name, new |-> new, plan |-> plan])
  BY Zenon DEF Add
<1> DEFINE m == [path |-> t.path, name |-> t.name, rel |-> rel, deps |-> dep]
           new == rel # None /\ Declared # None /\ rel \notin RelNames(Declared)
           rels == IF new THEN {Created(rel, tag, "ci")} ELSE {}
           plan == AddPlan(m, rels, license)
           command == [op |-> "add", step |-> "decl", before |-> wt,
                       member |-> t.name, new |-> new, plan |-> plan]
<1>2. ~ AddRefused(m, rels, license, plan) /\ Begin(command)
  BY <1>1
<1>3. Declared \in Declarations /\ Declared # None /\ Record \in Records /\ Valid(Record, SubjectNames(Declared))
  BY <1>2 DEF AddRefused, Inv, Sound, IsTree, Declares, Recorded, Declared, Record
<1>4. m \in [path : {u.path : u \in Territories}, name : {u.name : u \in Territories},
             rel : Rels \cup {None}, deps : SUBSET Names]
  BY DEF WorkspaceAssumption
<1>5. rels \subseteq [name : Rels, tag : Formats, mode : {"ci", "none"}]
  BY DEF Created
<1>6. rels # {} => m.rel \in Rels
  OBVIOUS
<1>7. new \in BOOLEAN /\ (new <=> rels # {})
  OBVIOUS
<1>8. t.name \in MemberFiles
  BY DEF MemberFiles
<1>9. /\ command.op = "add" /\ command.step = "decl" /\ command.before = wt /\ command.new = new
      /\ command.member = t.name /\ command.plan = plan
      /\ {"op", "step", "before", "plan", "new", "member"} \subseteq DOMAIN command
  OBVIOUS
<1> HIDE DEF m, new, rels, command
<1>10. plan.decl = Joined(Declared, m, rels)
       /\ plan.record = IF rels = {} THEN Record ELSE RecordCreated(Record, m.rel, license)
  BY DEF AddPlan
<1> HIDE DEF plan
<1>11. plan.decl \in Declarations
  BY <1>3, <1>4, <1>5, <1>10 DEF Joined, Declarations
<1>12. SubjectNames(Declared) \subseteq SubjectNames(plan.decl)
  BY <1>3, <1>10, <1>11, JoinedHolds
<1>13. Valid(Record, SubjectNames(plan.decl))
  BY <1>3, <1>12, ValidMore
<1>14. plan.record \in Records /\ Follows(Record, plan.record) /\ Valid(plan.record, SubjectNames(plan.decl))
  <2>1. CASE rels = {}
    BY <1>3, <1>10, <1>13, <2>1, FollowsItself
  <2>2. CASE rels # {}
    <3>1. Valid(plan.record, SubjectNames(plan.decl))
      BY <1>2, <2>2 DEF AddRefused
    <3>2. today \in Nat
      BY DEF Inv
    <3> QED
      BY <1>3, <1>6, <1>10, <2>2, <3>1, <3>2, RecordCreatedFollows
  <2> QED
    BY <2>1, <2>2
<1>15. cmd' = command /\ UNCHANGED <<wt, head, today>>
  BY <1>2 DEF Begin
<1>16. (cmd.op \in {"add", "init"} => Growing)'
  BY <1>7, <1>8, <1>9, <1>11, <1>13, <1>14, <1>15 DEF Growing, Planned, Recorded, Record
<1> QED
  BY <1>2, <1>9, <1>15, <1>16, Begins

\* An init that begins where nothing is declared.
LEMMA InitBegins ==
    ASSUME WorkspaceAssumption, Inv, Idle, Initialize
    PROVE  Inv'
<1>1. PICK rel \in Rels \cup {None}, license \in Licenses :
        LET rels == IF rel = None THEN {} ELSE {Created(rel, "bare", "none")}
            plan == [decl |-> [members |-> {[path |-> <<>>, name |-> "root", rel |-> rel, deps |-> {}]}, rels |-> rels],
                     record |-> IF rel = None THEN Record ELSE RecordCreated(Record, rel, license)]
        IN  /\ Declared = None
            /\ rel # None => LicenseAgrees(Record, rel, license) /\ Valid(plan.record, SubjectNames(plan.decl))
            /\ Begin([op |-> "init", step |-> "decl", before |-> wt, new |-> rel # None, plan |-> plan])
  BY Zenon DEF Initialize
<1> DEFINE rels == IF rel = None THEN {} ELSE {Created(rel, "bare", "none")}
           d == [members |-> {[path |-> <<>>, name |-> "root", rel |-> rel, deps |-> {}]}, rels |-> rels]
           r == IF rel = None THEN Record ELSE RecordCreated(Record, rel, license)
           plan == [decl |-> d, record |-> r]
           command == [op |-> "init", step |-> "decl", before |-> wt, new |-> rel # None, plan |-> plan]
<1>2. /\ Declared = None /\ Begin(command)
      /\ rel # None => Valid(r, SubjectNames(d))
  BY <1>1
<1>3. Record \in Records /\ Valid(Record, {})
  BY <1>2 DEF Inv, Sound, IsTree, Declares, Recorded, Declared, Record, SubjectNames
<1>4. d \in Declarations
  <2>1. <<>> \in {u.path : u \in Territories} /\ "root" \in {u.name : u \in Territories}
    BY DEF WorkspaceAssumption, Root
  <2>2. rels \subseteq [name : Rels, tag : Formats, mode : {"ci", "none"}]
    BY DEF Created, Formats
  <2> QED
    BY <2>1, <2>2 DEF Declarations
<1>5. /\ command.op = "init" /\ command.step = "decl" /\ command.before = wt /\ command.new = (rel # None)
      /\ command.plan.decl = d /\ command.plan.record = r
      /\ {"op", "step", "before", "plan", "new"} \subseteq DOMAIN command
  OBVIOUS
<1>6. (rel # None) \in BOOLEAN
  OBVIOUS
<1> HIDE DEF d, command
<1>7. Valid(Record, SubjectNames(d))
  BY <1>3, ValidMore
<1>8. r \in Records /\ Follows(Record, r) /\ Valid(r, SubjectNames(d))
  <2>1. CASE rel = None
    BY <1>3, <1>7, <2>1, FollowsItself
  <2>2. CASE rel # None
    <3>1. today \in Nat
      BY DEF Inv
    <3> QED
      BY <1>2, <1>3, <2>2, <3>1, RecordCreatedFollows
  <2> QED
    BY <2>1, <2>2
<1> HIDE DEF r
<1>9. cmd' = command /\ UNCHANGED <<wt, head, today>>
  BY <1>2 DEF Begin
<1>10. (cmd.op \in {"add", "init"} => Growing)'
  BY <1>4, <1>5, <1>6, <1>7, <1>8, <1>9 DEF Growing, Planned, Recorded, Record
<1>11. (cmd.op = "init" => Initializing)'
  BY <1>5, <1>9 DEF Initializing
<1> QED
  BY <1>2, <1>5, <1>9, <1>10, <1>11, Begins

\* monorepo init, as it goes on, commits or fails.
LEMMA InitKept ==
    ASSUME WorkspaceAssumption, Inv, InitWrites \/ InitCommit \/ InitCommitFails
    PROVE  Inv'
<1>1. CASE InitWrites
  <2>1. cmd.op = "init" /\ Growing /\ cmd.new \in BOOLEAN
    BY <1>1, Going DEF InitWrites, Growing
  <2> QED
    BY <1>1, <2>1, GrowingKept DEF InitWrites, Write
<1>2. CASE InitCommit
  <2>1. UNCHANGED <<wt, today>> /\ End
    BY <1>2 DEF InitCommit
  <2>2. CASE UNCHANGED head
    BY <2>1, <2>2, Ends DEF Inv, Sound
  <2>3. CASE Commit(InitFiles)
    BY <2>1, <2>3, CommitEnds DEF Commit
  <2> QED
    BY <1>2, <2>2, <2>3 DEF InitCommit
<1>3. CASE InitCommitFails
  <2>1. wt' = cmd.before /\ UNCHANGED <<head, today>> /\ End /\ Sound(cmd.before)
    BY <1>3, InitRestoresAll, Going DEF InitCommitFails
  <2>2. Sound(wt)'
    BY <2>1 DEF Sound
  <2> QED
    BY <2>1, <2>2, Ends
<1> QED
  BY <1>1, <1>2, <1>3

\* A subject a record is kept for has a name.
LEMMA SubjectsAre ==
    ASSUME Inv, WorkspaceAssumption
    PROVE  /\ Declared # None => Declared \in Declarations /\ RelNames(Declared) \subseteq Rels
           /\ SubjectNames(Declared) \subseteq Names /\ Record \in Records
           /\ Valid(Record, SubjectNames(Declared)) /\ Follows(Recorded(head), Record)
<1>1. /\ Declared \in Declarations \cup {None} /\ Record \in Records
      /\ Valid(Record, SubjectNames(Declared)) /\ Follows(Recorded(head), Record)
  BY DEF Inv, Sound, IsTree, Declares, Recorded, Declared, Record
<1>2. ASSUME Declared # None PROVE RelNames(Declared) \subseteq Rels /\ MemberNames(Declared) \subseteq Names
  <2>1. Declared \in Declarations
    BY <1>1, <1>2
  <2> QED
    BY <2>1 DEF Declarations, RelNames, MemberNames, Names
<1> QED
  BY <1>1, <1>2 DEF SubjectNames, Names

\* A transition writes a record that comes after the one it found.
LEMMA SaveKept ==
    ASSUME WorkspaceAssumption, Inv, NEW rec \in Records, Follows(Record, rec), Save(rec)
    PROVE  Inv'
<1>1. /\ Declared # None /\ Valid(rec, SubjectNames(Declared)) /\ wt' = Put(wt, "record", rec)
      /\ cmd' = [op |-> "save", step |-> "commit", before |-> wt] /\ UNCHANGED <<head, today>>
  BY DEF Save, Write
<1>2. Recorded(head) \in Records /\ Record \in Records /\ Follows(Recorded(head), Record)
  BY SubjectsAre DEF Inv, IsTree
<1>3. Sound(wt)'
  BY <1>1, <1>2, FollowsOn, WritesRecord
<1>4. Sound(cmd.before)'
  BY <1>1 DEF Sound, Inv
<1> QED
  BY <1>1, <1>3, <1>4 DEF Inv, Underway

\* Each transition closes periods and opens others, and forgets none.
LEMMA TransitionsKept ==
    ASSUME WorkspaceAssumption, Inv,
           Lifecycle \/ License \/ Classify \/ Identity \/ UnversionedTag
    PROVE  Inv'
<1>t. today \in Nat /\ "life" \in Tables /\ "lic" \in Tables /\ "ids" \in Tables /\ Record \in Records
  BY SubjectsAre DEF Inv, Tables
<1>1. CASE Lifecycle
  <2>1. PICK subject \in KnownSubjects, status \in Statuses :
           Save(Change(Record, "life", subject, status))
    BY <1>1 DEF Lifecycle
  <2>2. subject \in Names
    BY SubjectsAre DEF KnownSubjects, Records, Periods
  <2>3. status \in Values
    BY DEF Values
  <2> QED
    BY <1>t, <2>1, <2>2, <2>3, ChangeFollows, SaveKept
<1>2. CASE License
  <2>1. PICK subject \in RelNames(Declared), license \in Spdx :
           /\ Declared # None
           /\ subject \in Proprietaries(Record) => ProprietaryOthers(subject) # {}
           /\ Save(Change(Record, "lic", subject, license))
    BY <1>2 DEF License
  <2>2. subject \in Names /\ license \in Values
    BY <2>1, SubjectsAre DEF Names, Values, Licenses
  <2> QED
    BY <1>t, <2>1, <2>2, ChangeFollows, SaveKept DEF ProprietaryOthers
<1>3. CASE Classify
  <2>1. PICK subject \in RelNames(Declared) :
           /\ Declared # None /\ subject \notin Proprietaries(Record)
           /\ Save(Change(Record, "lic", subject, Proprietary))
    BY <1>3 DEF Classify
  <2>2. subject \in Names /\ Proprietary \in Values
    BY <2>1, SubjectsAre DEF Names, Values, Licenses
  <2> QED
    BY <1>t, <2>1, <2>2, ChangeFollows, SaveKept
<1>4. CASE Identity
  <2>1. PICK subject \in Rels, value \in Former :
           \/ Save(Change(Record, "ids", subject, value))
           \/ \E from, until \in 0 .. today :
                 Save([Record EXCEPT !.ids = @ \cup {Period(subject, value, from, until)}])
    BY <1>4 DEF Identity
  <2>2. subject \in Names /\ value \in Values
    BY DEF Names, Values
  <2>3. CASE Save(Change(Record, "ids", subject, value))
    BY <1>t, <2>2, <2>3, ChangeFollows, SaveKept
  <2>4. ASSUME NEW from \in 0 .. today, NEW until \in 0 .. today,
               Save([Record EXCEPT !.ids = @ \cup {Period(subject, value, from, until)}])
        PROVE  Inv'
    <3> DEFINE T == Record["ids"] \cup {Period(subject, value, from, until)}
    <3>1. Period(subject, value, from, until) \in Periods
      BY <1>t, <2>2, PeriodIs
    <3>2. T \in SUBSET Periods /\ \A p \in Record["ids"] : p \in T
      BY <1>t, <3>1 DEF Records
    <3>3. [Record EXCEPT !.ids = @ \cup {Period(subject, value, from, until)}] = With(Record, "ids", T)
      BY DEF With
    <3> HIDE DEF T
    <3>4. With(Record, "ids", T) \in Records /\ Follows(Record, With(Record, "ids", T))
      BY <1>t, <3>2, TableFollows
    <3> QED
      BY <2>4, <3>3, <3>4, SaveKept
  <2> QED
    BY <2>1, <2>3, <2>4
<1>5. CASE UnversionedTag
  <2>1. Record.tags = {} /\ Save([Record EXCEPT !.tags = {"nightly"}])
    BY <1>5 DEF UnversionedTag
  <2>2. /\ [Record EXCEPT !.tags = {"nightly"}] \in Records
        /\ \A u \in Tables : [Record EXCEPT !.tags = {"nightly"}][u] = Record[u]
        /\ [Record EXCEPT !.tags = {"nightly"}].lic = Record.lic
        /\ [Record EXCEPT !.tags = {"nightly"}].tags = {"nightly"}
    BY <1>t DEF Records, Tables
  <2>3. PICK r : r = [Record EXCEPT !.tags = {"nightly"}]
    OBVIOUS
  <2>4. Follows(Record, r)
    BY <2>1, <2>2, <2>3 DEF Follows, Kept, Confidential, Proprietaries
  <2> QED
    BY <2>1, <2>2, <2>3, <2>4, SaveKept
<1> QED
  BY <1>1, <1>2, <1>3, <1>4, <1>5

\* A member that leaves has no open period, so none is left without its subject.
LEMMA RemoveKept ==
    ASSUME WorkspaceAssumption, Inv, Idle, Remove
    PROVE  Inv'
<1>1. PICK m \in Declared.members :
           /\ Declared # None /\ OpenEntries(Record, m.name) = {}
           /\ Write("decl", [Declared EXCEPT !.members = @ \ {m}])
           /\ UNCHANGED <<head, today, cmd>>
  BY DEF Remove
<1> DEFINE without == [Declared EXCEPT !.members = @ \ {m}]
<1>2. Declared \in Declarations /\ Record \in Records /\ Valid(Record, SubjectNames(Declared))
  BY <1>1, SubjectsAre
<1>3. without \in Declarations /\ without.members = Declared.members \ {m} /\ without.rels = Declared.rels
  BY <1>2 DEF Declarations
<1>4. without # None
  BY <1>3 DEF WorkspaceAssumption
<1> HIDE DEF without
<1>5. SubjectNames(Declared) \ {m.name} \subseteq SubjectNames(without)
  BY <1>1, <1>3, <1>4 DEF SubjectNames, MemberNames, RelNames
<1>6. Valid(Record, SubjectNames(without))
  <2>1. ASSUME NEW table \in Tables, NEW p \in Record[table], p.until = Open,
               p.subject \notin RetiredNow(Record)
        PROVE  p.subject # m.name
    BY <1>1, <2>1 DEF OpenEntries, OpenOf
  <2> QED
    BY <1>2, <1>5, <2>1 DEF Valid
<1>7. Sound(wt)'
  BY <1>1, <1>3, <1>6, WritesDecl DEF Write, without
<1> QED
  BY <1>1, <1>7 DEF Inv, Underway, Idle

\* A retirement that begins: its record fits what is declared before and after it.
LEMMA RetireBegins ==
    ASSUME WorkspaceAssumption, Inv, Idle, Retire
    PROVE  Inv'
<1>1. PICK names \in (SUBSET (IF Declared = None THEN {} ELSE RelNames(Declared))) \ {{}} :
           /\ names \cap RetiredNow(Record) = {}
           /\ ~ RetireRefused(names)
           /\ Changed \cap RetireTouches = {}
           /\ Valid(RetiredRecord(names), SubjectNames(Without(names)))
           /\ Begin([op |-> "retire", step |-> "record", before |-> wt, names |-> names, leaving |-> Leaving(names),
                     plan |-> [decl |-> Without(names), record |-> RetiredRecord(names)]])
  BY Zenon DEF Retire
<1> DEFINE d == Without(names)
           r == RetiredRecord(names)
           command == [op |-> "retire", step |-> "record", before |-> wt, names |-> names,
                       leaving |-> Leaving(names), plan |-> [decl |-> d, record |-> r]]
<1>2. Declared # None /\ names \subseteq RelNames(Declared)
  <2>1. names \in (SUBSET (IF Declared = None THEN {} ELSE RelNames(Declared))) \ {{}}
    OBVIOUS
  <2> QED
    BY <2>1
<1>3. /\ Declared \in Declarations /\ names \in SUBSET Names /\ Record \in Records /\ today \in Nat
  BY <1>2, SubjectsAre DEF Names, Inv
<1>4. d \in Declarations /\ d.members \subseteq Declared.members /\ d.rels \subseteq Declared.rels
  BY <1>3 DEF Without, Declarations
<1>5. r \in Records /\ Follows(Record, r)
  BY <1>3, RetiredRecordFollows
<1>6. SubjectNames(d) \subseteq SubjectNames(Declared)
  BY <1>2, <1>4 DEF SubjectNames, MemberNames, RelNames
<1>7. Valid(r, SubjectNames(d)) /\ Valid(r, SubjectNames(Declared))
  BY <1>1, <1>6, ValidMore
<1>8. \A p \in RetireTouches : wt[p] = head[p]
  BY <1>1 DEF Changed, RetireTouches, Paths
<1>9. /\ command.op = "retire" /\ command.step = "record" /\ command.before = wt
      /\ command.plan.decl = d /\ command.plan.record = r
      /\ {"op", "step", "before", "plan"} \subseteq DOMAIN command
  OBVIOUS
<1> HIDE DEF d, r
<1>10. Begin(command)
  BY <1>1 DEF d, r
<1> HIDE DEF command
<1>11. cmd' = command /\ UNCHANGED <<wt, head, today>>
  BY <1>10 DEF Begin
<1>12. (cmd.op = "retire" => Retiring)'
  BY <1>4, <1>5, <1>7, <1>8, <1>9, <1>11 DEF Retiring, Planned, Recorded, Record, Declares, Declared
<1> QED
  BY <1>9, <1>10, <1>11, <1>12, Begins

\* The record is the first thing a retirement writes.
LEMMA AfterIs ==
    ASSUME NEW step \in {"record", "decl", "state", "delete", "routers", "rollup"}
    PROVE  After(step) # "record"
<1> DEFINE P(i) == i \in DOMAIN RetireSteps /\ RetireSteps[i] = step
           i == CHOOSE j \in DOMAIN RetireSteps : RetireSteps[j] = step
<1>1. DOMAIN RetireSteps = 1..7
  BY DEF RetireSteps
<1>2. \E j \in 1..7 : RetireSteps[j] = step
  <2>1. /\ RetireSteps[1] = "record" /\ RetireSteps[2] = "decl" /\ RetireSteps[3] = "state"
        /\ RetireSteps[4] = "delete" /\ RetireSteps[5] = "routers" /\ RetireSteps[6] = "rollup"
    BY DEF RetireSteps
  <2>2. 1 \in 1..7 /\ 2 \in 1..7 /\ 3 \in 1..7 /\ 4 \in 1..7 /\ 5 \in 1..7 /\ 6 \in 1..7
    OBVIOUS
  <2> QED
    BY <2>1, <2>2
<1>3. i \in 1..7 /\ RetireSteps[i] = step
  BY <1>1, <1>2
<1> HIDE DEF i
<1>4. i # 7
  BY <1>3 DEF RetireSteps
<1>5. 1 + i \in 2..7
  BY <1>3, <1>4
<1>6. \A j \in 2..7 : RetireSteps[j] # "record"
  BY DEF RetireSteps
<1> QED
  BY <1>5, <1>6 DEF After, i

\* A retirement, as it goes on and commits.
LEMMA RetireKept ==
    ASSUME WorkspaceAssumption, Inv, RetireApplies \/ RetireCommit
    PROVE  Inv'
<1>g. cmd.op = "retire"
  BY DEF RetireApplies, RetireCommit
<1>h. /\ "step" \in DOMAIN cmd /\ {"op", "before"} \subseteq DOMAIN cmd /\ Sound(cmd.before)
      /\ Retiring /\ Planned
  BY <1>g, Going DEF Retiring
<1>1. CASE RetireApplies
  <2>1. /\ cmd.step \in {"record", "decl", "state", "delete", "routers", "rollup"}
        /\ Step(After(cmd.step)) /\ UNCHANGED <<head, today>>
    BY <1>1 DEF RetireApplies
  <2>2. /\ cmd'.op = cmd.op /\ cmd'.before = cmd.before /\ cmd'.step = After(cmd.step)
        /\ DOMAIN cmd' = DOMAIN cmd /\ cmd'.plan = cmd.plan
    BY <1>h, <2>1, StepIs DEF Planned
  <2>3. cmd'.step # "record"
    BY <2>1, <2>2, AfterIs
  <2>4. Planned' /\ Valid(cmd.plan.record, SubjectNames(Declares(cmd.before)))'
        /\ \A p \in RetireTouches : cmd'.before[p] = head'[p]
    BY <1>h, <2>1, <2>2 DEF Planned, Retiring
  <2>5. Sound(wt)' /\ Record' = cmd.plan.record
    <3>1. CASE cmd.step = "record" /\ Write("record", cmd.plan.record)
      <4>1. Declared = Declares(cmd.before)
        BY <1>h, <3>1 DEF Retiring, Declared, Declares
      <4>2. Follows(Recorded(head), cmd.plan.record)
        BY <1>h, FollowsOn DEF Planned, Sound, IsTree, Inv
      <4> QED
        BY <1>h, <2>1, <3>1, <4>1, <4>2, WritesRecord DEF Write, Planned, Retiring
    <3>2. CASE cmd.step = "decl" /\ Write("decl", cmd.plan.decl)
      <4>1. Record = cmd.plan.record /\ Valid(Record, SubjectNames(cmd.plan.decl))
        BY <1>h, <3>2 DEF Retiring, Planned
      <4>2. Sound(wt)' /\ wt'["record"] = wt["record"]
        BY <1>h, <2>1, <3>2, <4>1, WritesDecl, FilesAre DEF Write, Planned
      <4> QED
        BY <4>1, <4>2 DEF Record
    <3>3. CASE cmd.step \in {"state", "delete", "routers", "rollup"}
      <4>1. Record = cmd.plan.record
        BY <1>h, <3>3 DEF Retiring
      <4>2. IsTree(wt)
        BY DEF Inv, Sound
      <4>3. IsTree(wt') /\ \A p \in {"decl", "record"} : wt'[p] = wt[p]
        <5>1. ASSUME NEW p \in {"state", "routers", "rollup"}, NEW v, wt' = Put(wt, p, v)
              PROVE  IsTree(wt') /\ \A q \in {"decl", "record"} : wt'[q] = wt[q]
          BY <4>2, <5>1, PutIs, FilesAre DEF Shared
        <5>2. CASE wt' = [wt EXCEPT !["hooks"].val = @ \ cmd.leaving, !["caches"].val = @ \ cmd.names,
                                    !["bases"].val = @ \ cmd.leaving]
          <6>1. PICK a, b, c : /\ a = wt["hooks"].val \ cmd.leaving /\ b = wt["caches"].val \ cmd.names
                               /\ c = wt["bases"].val \ cmd.leaving
            OBVIOUS
          <6>2. PICK t, u : t = Put(wt, "hooks", a) /\ u = Put(t, "caches", b)
            OBVIOUS
          <6>3. IsTree(t) /\ \A q \in Paths \ {"hooks"} : t[q] = wt[q]
            BY <4>2, <6>2, PutIs, FilesAre DEF Shared
          <6>4. IsTree(u) /\ \A q \in Paths \ {"caches"} : u[q] = t[q]
            BY <6>2, <6>3, PutIs, FilesAre DEF Shared
          <6>5. IsTree(Put(u, "bases", c)) /\ \A q \in Paths \ {"bases"} : Put(u, "bases", c)[q] = u[q]
            BY <6>4, PutIs, FilesAre DEF Shared
          <6>6. wt' = Put(u, "bases", c)
            BY <4>2, <5>2, <6>1, <6>2 DEF Put, IsTree
          <6> QED
            BY <6>3, <6>4, <6>5, <6>6, FilesAre
        <5> QED
          BY <1>1, <3>3, <5>1, <5>2 DEF RetireApplies, Write, Drop
      <4> QED
        BY <2>1, <4>1, <4>3, WritesOther DEF Record
    <3> QED
      BY <1>1, <3>1, <3>2, <3>3 DEF RetireApplies
  <2>6. Retiring'
    BY <2>2, <2>3, <2>4, <2>5 DEF Retiring
  <2> QED
    BY <1>g, <2>1, <2>2, <2>5, <2>6, GoesOn
<1>2. CASE RetireCommit
  BY <1>2, CommitEnds DEF RetireCommit, Commit
<1> QED
  BY <1>1, <1>2

\* monorepo cleanup.
LEMMA CleanupKept ==
    ASSUME WorkspaceAssumption, Inv, (Idle /\ Cleanup) \/ CleanupCommit
    PROVE  Inv'
<1>1. CASE Cleanup
  <2>1. PICK a, b : a = wt["residue"].val \ Removable /\ b = wt["caches"].val \ StaleCaches
    OBVIOUS
  <2>2. PICK t : t = Put(wt, "residue", a)
    OBVIOUS
  <2>3. IsTree(wt)
    BY DEF Inv, Sound
  <2>4. IsTree(t) /\ \A q \in Paths \ {"residue"} : t[q] = wt[q]
    BY <2>2, <2>3, PutIs, FilesAre DEF Shared
  <2>5. IsTree(Put(t, "caches", b)) /\ \A q \in Paths \ {"caches"} : Put(t, "caches", b)[q] = t[q]
    BY <2>4, PutIs, FilesAre DEF Shared
  <2>6. wt' = Put(t, "caches", b)
    BY <1>1, <2>1, <2>2, <2>3 DEF Put, IsTree, Cleanup
  <2>7. /\ cmd' = [op |-> "cleanup", step |-> "commit", before |-> wt] /\ UNCHANGED <<head, today>>
    BY <1>1 DEF Cleanup
  <2>8. Sound(wt)'
    BY <2>4, <2>5, <2>6, <2>7, WritesOther, FilesAre
  <2>9. Sound(cmd.before)'
    BY <2>7 DEF Sound, Inv
  <2> QED
    BY <2>7, <2>8, <2>9 DEF Inv, Underway
<1>2. CASE CleanupCommit
  <2>1. UNCHANGED <<wt, today>> /\ End
    BY <1>2 DEF CleanupCommit
  <2>2. CASE UNCHANGED head
    BY <2>1, <2>2, Ends DEF Inv, Sound
  <2>3. CASE Commit({"residue", "caches"})
    BY <2>1, <2>3, CommitEnds DEF Commit
  <2> QED
    BY <1>2, <2>2, <2>3 DEF CleanupCommit
<1> QED
  BY <1>1, <1>2

\* What people do between commands, and a command that dies.
LEMMA PeopleKept ==
    ASSUME WorkspaceAssumption, Inv, SaveCommit \/ Stop \/ Edit \/ CommitWork \/ NextDay
    PROVE  Inv'
<1>1. CASE SaveCommit
  BY <1>1, CommitEnds DEF SaveCommit, Commit
<1>2. CASE Stop
  BY <1>2, Ends DEF Stop, Inv, Sound
<1>3. CASE Edit
  <2>1. PICK p \in Editable : wt' = [wt EXCEPT ![p].own = TRUE]
    BY <1>3 DEF Edit
  <2>2. UNCHANGED <<head, today, cmd>> /\ Idle
    BY <1>3 DEF Edit
  <2>3. IsTree(wt)
    BY DEF Inv, Sound
  <2>4. IsTree(wt') /\ \A q \in {"decl", "record"} : wt'[q].val = wt[q].val
    <3>1. PICK v : v = TRUE
      OBVIOUS
    <3>2. wt' = [wt EXCEPT ![p].own = v]
      BY <2>1, <3>1, Zenon
    <3>3. wt' = [wt EXCEPT ![p] = [wt[p] EXCEPT !.own = v]]
      BY <3>2
    <3>4. CASE p \in Paths
      <4>1. [wt[p] EXCEPT !.own = v] = [own |-> v, val |-> wt[p].val]
        BY <2>3, <3>4 DEF IsTree
      <4>2. wt' = [q \in Paths |-> IF q = p THEN [own |-> v, val |-> wt[p].val] ELSE wt[q]]
        BY <2>3, <3>3, <4>1 DEF IsTree
      <4>3. \A q \in Paths : wt'[q] = IF q = p THEN [own |-> v, val |-> wt[p].val] ELSE wt[q]
        BY <4>2
      <4>4. wt' = [q \in Paths |-> wt'[q]]
        BY <4>2
      <4>5. \A q \in Paths : wt'[q] = [own |-> wt'[q].own, val |-> wt'[q].val]
        BY <2>3, <4>3 DEF IsTree
      <4>6. \A q \in Paths : wt'[q].val = wt[q].val
        BY <4>3
      <4> QED
        BY <2>3, <4>4, <4>5, <4>6, FilesAre DEF IsTree, Declares, Recorded
    <3>5. CASE p \notin Paths
      <4>1. DOMAIN wt = Paths
        BY <2>3 DEF IsTree
      <4>2. wt' = wt
        BY <3>3, <3>5, <4>1, <2>3 DEF IsTree
      <4> QED
        BY <2>3, <4>2
    <3> QED
      BY <3>4, <3>5
  <2>5. Sound(wt)'
    BY <2>2, <2>4, WritesOther
  <2> QED
    BY <2>2, <2>5 DEF Inv, Underway, Idle
<1>4. CASE CommitWork
  <2>1. head' = wt /\ UNCHANGED <<wt, today, cmd>> /\ Idle
    BY <1>4 DEF CommitWork
  <2>2. Follows(Recorded(wt), Recorded(wt))
    BY FollowsItself
  <2> QED
    BY <2>1, <2>2 DEF Inv, Sound, Underway, Idle
<1>5. CASE NextDay
  BY <1>5 DEF NextDay, Inv, Sound, Underway, Idle
<1> QED
  BY <1>1, <1>2, <1>3, <1>4, <1>5

-----------------------------------------------------------------------------
(* The specification.                                                      *)

\* A tree no one has edited.
LEMMA NewTree ==
    ASSUME NEW tree, NEW own, NEW v, tree = [p \in Paths |-> [own |-> own, val |-> v[p]]],
           v["decl"] \in Declarations \cup {None}, v["record"] \in Records
    PROVE  IsTree(tree) /\ Recorded(tree) = v["record"] /\ Declares(tree) = v["decl"]
<1>1. \A p \in Paths : tree[p] = [own |-> own, val |-> v[p]]
  OBVIOUS
<1>2. tree = [p \in Paths |-> tree[p]]
  OBVIOUS
<1>3. \A p \in Paths : tree[p] = [own |-> tree[p].own, val |-> tree[p].val]
  BY <1>1
<1>4. Recorded(tree) = v["record"] /\ Declares(tree) = v["decl"]
  BY <1>1, FilesAre DEF Recorded, Declares
<1> QED
  BY <1>2, <1>3, <1>4 DEF IsTree

\* The repositories the commands find.
LEMMA InitInv == ASSUME WorkspaceAssumption, Init PROVE Inv
<1>1. PICK s \in Starts : wt = Tree(s) /\ head = Tree(s)
  BY DEF Init
<1>2. today = 1 /\ cmd = NoCommand
  BY DEF Init
<1>3. /\ s.decl \in Declarations \cup {None} /\ s.record \in Records
      /\ Valid(s.record, SubjectNames(s.decl)) /\ MemberFiles \cap Shared = {}
  BY DEF WorkspaceAssumption
<1>4. PICK v, own : /\ Tree(s) = [p \in Paths |-> [own |-> own, val |-> v[p]]]
                    /\ v["decl"] = s.decl /\ v["record"] = s.record
  <2> DEFINE w == [p \in Paths |->
               CASE p = "decl" -> s.decl
                 [] p = "record" -> s.record
                 [] p \in {"state", "bases"} -> IF s.decl = None THEN {} ELSE MemberNames(s.decl)
                 [] p = "routers" -> IF s.decl = None THEN {} ELSE RoutedMembers(s.decl)
                 [] p \in {"rollup", "caches"} -> IF s.decl = None THEN {} ELSE RelNames(s.decl)
                 [] p = "hooks" -> SubjectNames(s.decl)
                 [] p = "residue" -> s.leftovers
                 [] OTHER -> s.decl # None /\ p \in MemberNames(s.decl)]
  <2>1. Tree(s) = [p \in Paths |-> [own |-> FALSE, val |-> w[p]]]
    BY Zenon DEF Tree
  <2>2. w["decl"] = s.decl /\ w["record"] = s.record
    BY FilesAre
  <2> QED
    BY <2>1, <2>2, Zenon
<1>7. IsTree(wt) /\ Recorded(wt) = s.record /\ Declares(wt) = s.decl
  BY <1>1, <1>3, <1>4, NewTree
<1>8. Sound(wt) /\ IsTree(head)
  BY <1>1, <1>3, <1>7, FollowsItself DEF Sound
<1>9. Idle
  BY <1>2 DEF Idle, NoCommand
<1> QED
  BY <1>2, <1>8, <1>9 DEF Inv, Underway

\* Every step keeps the invariant.
LEMMA NextKept == ASSUME WorkspaceAssumption, Inv, [Next]_vars PROVE Inv'
<1>1. CASE UNCHANGED vars
  BY <1>1 DEF vars, Inv, Sound, Underway, Idle, Growing, Initializing, Retiring, Planned, Declared, Record
<1>2. CASE Commands
  BY <1>2, AddBegins, InitBegins, RemoveKept, TransitionsKept, RetireBegins, CleanupKept DEF Commands
<1>3. CASE \/ AddDeclarations \/ AddRecord \/ AddScaffold \/ AddCommit \/ AddFails
           \/ InitWrites \/ InitCommit \/ InitCommitFails
  BY <1>3, AddKept, InitKept
<1>4. CASE \/ SaveCommit \/ RetireApplies \/ RetireCommit \/ CleanupCommit
           \/ Stop \/ Edit \/ CommitWork \/ NextDay
  BY <1>4, PeopleKept, RetireKept, CleanupKept
<1> QED
  BY <1>1, <1>2, <1>3, <1>4 DEF Next

\* No command moves HEAD as it begins.
LEMMA CommandsKeepHead == ASSUME Commands PROVE UNCHANGED head
<1>1. ASSUME NEW command, Begin(command) PROVE UNCHANGED head
  BY <1>1 DEF Begin
<1>2. ASSUME NEW rec, Save(rec) PROVE UNCHANGED head
  BY <1>2 DEF Save
<1>3. Add => UNCHANGED head
  <2> SUFFICES ASSUME Add PROVE UNCHANGED head
    OBVIOUS
  <2>1. PICK t \in Territories, rel \in Rels \cup {None}, dep \in Depends, tag \in Formats, license \in Licenses :
          LET m == [path |-> t.path, name |-> t.name, rel |-> rel, deps |-> dep]
              new == rel # None /\ Declared # None /\ rel \notin RelNames(Declared)
              rels == IF new THEN {Created(rel, tag, "ci")} ELSE {}
              plan == AddPlan(m, rels, license)
          IN  /\ ~ AddRefused(m, rels, license, plan)
              /\ ~ new => tag = "named" /\ license \in Spdx
              /\ Begin([op |-> "add", step |-> "decl", before |-> wt,
                        member |-> t.name, new |-> new, plan |-> plan])
    BY Zenon DEF Add
  <2> QED
    BY <1>1, <2>1
<1>4. Initialize => UNCHANGED head
  BY <1>1, Zenon DEF Initialize
<1>5. Retire => UNCHANGED head
  BY <1>1, Zenon DEF Retire
<1>6. Remove \/ Cleanup => UNCHANGED head
  BY DEF Remove, Cleanup
<1>7. Lifecycle \/ License \/ Classify \/ Identity \/ UnversionedTag => UNCHANGED head
  BY <1>2, Zenon DEF Lifecycle, License, Classify, Identity, UnversionedTag
<1> QED
  BY <1>1, <1>3, <1>4, <1>5, <1>6, <1>7 DEF Commands

\* HEAD stays, or takes some of the working tree's files, or all of them.
LEMMA HeadMoves ==
    ASSUME [Next]_vars
    PROVE  \/ UNCHANGED head \/ head' = wt
           \/ \E S : head' = [p \in Paths |-> IF p \in S THEN wt[p] ELSE head[p]]
<1>1. CASE UNCHANGED vars
  BY <1>1 DEF vars
<1>2. CASE Commands
  BY <1>2, CommandsKeepHead
<1>3. CASE AddCommit
  BY <1>3, Zenon DEF AddCommit
<1>4. CASE SaveCommit \/ RetireCommit \/ InitCommit \/ CleanupCommit
  BY <1>4, Zenon DEF SaveCommit, RetireCommit, InitCommit, CleanupCommit, Commit
<1>5. CASE CommitWork
  BY <1>5 DEF CommitWork
<1>6. CASE \/ AddDeclarations \/ AddRecord \/ AddScaffold \/ AddFails
           \/ InitWrites \/ InitCommitFails \/ RetireApplies \/ Stop \/ Edit \/ NextDay
  BY <1>6 DEF AddDeclarations, AddRecord, AddScaffold, AddFails, InitWrites, InitCommitFails,
              RetireApplies, Stop, Edit, NextDay
<1> QED
  BY <1>1, <1>2, <1>3, <1>4, <1>5, <1>6 DEF Next

\* While an add or a retirement runs, its commit alone moves HEAD.
LEMMA OthersKeepHead ==
    ASSUME [Next]_vars, ~Idle, cmd.op \in {"add", "retire"}, NEW p, head'[p] # head[p]
    PROVE  AddCommit \/ RetireCommit
<1>1. ~ UNCHANGED head
  OBVIOUS
<1>2. /\ ~ Commands /\ ~ SaveCommit /\ ~ InitCommit /\ ~ CleanupCommit /\ ~ CommitWork
      /\ ~ UNCHANGED vars
  BY <1>1 DEF Commands, SaveCommit, InitCommit, CleanupCommit, CommitWork, vars
<1>3. ~ (\/ AddDeclarations \/ AddRecord \/ AddScaffold \/ AddFails
         \/ InitWrites \/ InitCommitFails \/ RetireApplies \/ Stop \/ Edit \/ NextDay)
  BY <1>1 DEF AddDeclarations, AddRecord, AddScaffold, AddFails, InitWrites, InitCommitFails,
              RetireApplies, Stop, Edit, NextDay
<1> QED
  BY <1>2, <1>3 DEF Next

\* Whichever commands ran, in whatever order, and wherever each stopped, was
\* killed or failed, an open entry of the record names a subject the
\* declarations beside it hold or a retired one, so the next command's
\* validation can pass (declarations.ValidateAgainst before each write).
THEOREM RecordFits ==
    ASSUME WorkspaceAssumption
    PROVE  Spec => []RecordFitsDeclarations
<1>1. Init => Inv
  BY InitInv
<1>2. Inv /\ [Next]_vars => Inv'
  BY NextKept
<1>3. Inv => RecordFitsDeclarations
  BY DEF Inv, Sound, RecordFitsDeclarations, Declared, Record, Declares, Recorded
<1> QED
  BY <1>1, <1>2, <1>3, PTL DEF Spec

\* Every step leaves at HEAD each period and tag the record held there, a
\* period as it was or closed, and a confidential repository confidential: what
\* is committed always comes after what was, since no command forgets a period
\* of what it found.
THEOREM RecordIsKept ==
    ASSUME WorkspaceAssumption
    PROVE  Spec => RecordKept
<1>1. Init => Inv
  BY InitInv
<1>2. Inv /\ [Next]_vars => Inv'
  BY NextKept
<1>3. ASSUME Inv, [Next]_vars PROVE Follows(Recorded(head), Recorded(head'))
  <2>1. IsTree(head) /\ IsTree(wt) /\ Follows(Recorded(head), Recorded(wt))
    BY <1>3 DEF Inv, Sound
  <2>2. ASSUME NEW S, head' = [p \in Paths |-> IF p \in S THEN wt[p] ELSE head[p]]
        PROVE  Follows(Recorded(head), Recorded(head'))
    BY <2>1, <2>2, MixIs, FollowsItself
  <2>3. CASE UNCHANGED head
    BY <2>3, FollowsItself
  <2>4. CASE head' = wt
    BY <2>1, <2>4
  <2>5. \/ UNCHANGED head \/ head' = wt
        \/ \E S : head' = [p \in Paths |-> IF p \in S THEN wt[p] ELSE head[p]]
    BY <1>3, HeadMoves
  <2> QED
    BY <2>2, <2>3, <2>4, <2>5
<1>4. Inv /\ [Next]_vars =>
        [/\ Kept(head["record"].val, head'["record"].val)
         /\ Confidential(head["record"].val) => Confidential(head'["record"].val)]_vars
  BY <1>3 DEF Follows, Recorded
<1> QED
  BY <1>1, <1>2, <1>4, PTL DEF Spec, RecordKept

\* An add that fails at any step, and an init whose commit fails, leave every
\* file as they found it (restoreWorkingTree), and neither an add nor a
\* retirement commits a file that was dirty when it began.
THEOREM UncommittedIsKept ==
    ASSUME WorkspaceAssumption
    PROVE  Spec => UncommittedKept
<1>1. Init => Inv
  BY InitInv
<1>2. Inv /\ [Next]_vars => Inv'
  BY NextKept
<1>3. ASSUME Inv, [Next]_vars PROVE PutsBack
  <2>1. CASE AddFails
    BY <1>3, <2>1, RestoresAll, Going DEF AddFails, PutsBack
  <2>2. CASE InitCommitFails
    BY <1>3, <2>2, InitRestoresAll, Going DEF InitCommitFails, PutsBack
  <2> QED
    BY <2>1, <2>2 DEF PutsBack
<1>4. ASSUME Inv, [Next]_vars PROVE CommitsItsOwn
  <2> SUFFICES ASSUME cmd.op \in {"add", "retire"}, NEW p \in Paths, head'[p] # head[p]
               PROVE  cmd.before[p] = head[p]
    BY DEF CommitsItsOwn
  <2>1. ~Idle
    BY <1>4, Going
  <2>2. AddCommit \/ RetireCommit
    BY <1>4, <2>1, OthersKeepHead
  <2>3. CASE AddCommit
    BY <2>3 DEF AddCommit, AddCommits, Written
  <2>4. CASE RetireCommit
    <3>1. p \in RetireTouches
      BY <2>4 DEF RetireCommit, Commit, RetireCommits
    <3>2. Retiring
      BY <1>4, <2>4, Going DEF RetireCommit
    <3> QED
      BY <3>1, <3>2 DEF Retiring
  <2> QED
    BY <2>2, <2>3, <2>4
<1>5. Inv /\ [Next]_vars => [PutsBack /\ CommitsItsOwn]_vars
  BY <1>3, <1>4
<1> QED
  BY <1>1, <1>2, <1>5, PTL DEF Spec, UncommittedKept
=============================================================================
