---------------------------- MODULE Dependencies ----------------------------
(***************************************************************************)
(* What a Python member is built against: the requirements its manifest    *)
(* states, the lock that resolves them, the environment its tests run in,  *)
(* and the checkouts of sibling projects a developer lays over it.         *)
(*                                                                         *)
(* Three parts of rlsbl meet here.  `dev sync` and the built-in test       *)
(* checks decide what an environment holds, from two files git ignores.    *)
(* `rewrite uv-path-sources` turns a dependency taken from a checkout into *)
(* a floor on the registry.  A release asks all of it before it starts,    *)
(* and re-locks every lock its new version makes stale.  uv, PyPI and the  *)
(* developer are the environment: uv is modelled from the arguments rlsbl  *)
(* passes it and from what the code says they do.                          *)
(***************************************************************************)
EXTENDS Naturals, FiniteSets, FiniteSetsExt, Functions

CONSTANTS
    Members,        \* the workspace's members
    Claimed,        \* those the uv workspace at the repository's root claims
    UvRoot,         \* where that workspace's lock and environment are
    Releasables,
    Owner,          \* Owner[m]: the releasable m is versioned under, or Free
    Free,           \* the owner of a member versioned under none
    Siblings,       \* Siblings[m]: the members m takes from their directories
    Packages,       \* packages of other repositories
    Checkouts,      \* directories on this machine
    Builds,         \* Builds[k]: the package the project in k builds
    Inside,         \* the checkouts that lie inside this repository
    MaxVersion,     \* bound: versions of a package
    MaxEdits        \* bound: what the developer and the registry do

Homes == {UvRoot} \cup (Members \ Claimed)
Overlays == {<<Builds[k], k>> : k \in Checkouts}

NoRequirement == <<"none">>
PathSource == <<"path">>
Floor(v) == <<"floor", v>>
Requirements ==
    {NoRequirement, PathSource} \cup {Floor(v) : v \in 0 .. MaxVersion}

NotInstalled == <<"none">>
Locked(v) == <<"locked", v>>
EditableFrom(k) == <<"editable", k>>

ASSUME DependenciesAssumption ==
    /\ Claimed \subseteq Members
    /\ UvRoot \notin Members
    /\ Free \notin Releasables
    /\ Owner \in [Members -> Releasables \cup {Free}]
    /\ Siblings \in [Members -> SUBSET Members]
    /\ Builds \in [Checkouts -> Packages]
    /\ Inside \subseteq Checkouts
    /\ MaxVersion \in Nat \ {0}
    /\ MaxEdits \in Nat

VARIABLES
    published,  \* published[p]: the latest version PyPI lists
    head,       \* head[p]: the version the checkouts of p declare
    present,    \* the checkouts that exist
    requires,   \* requires[m][p]: the manifest's requirement
    version,    \* version[m]: the version the manifest declares
    lock,       \* lock[h]: the versions and requirements uv.lock records
    declared,   \* declared[m]: dev-sources.toml.local-only
    synced,     \* synced[m]: dev-overlays-state.toml.local-only
    env,        \* env[h][p]: how the environment holds p
    floors,     \* floors[m]: internal_dep_floors
    policing,   \* the members rlsbl:dep-floors is on for
    pending,    \* the releasables whose release stopped before its bump
    run,        \* the command in progress
    served,     \* the overlays the last step had to keep, with their members
    edits       \* how much the developer and the registry did

tracked == <<requires, version, lock, floors, policing>>
local == <<declared, synced, env>>
world == <<published, head, present>>
vars == <<published, head, present, requires, version, lock, declared, synced,
          env, floors, policing, pending, run, served, edits>>

Idle == [cmd |-> "none"]

-----------------------------------------------------------------------------
(* Locks.                                                                  *)

\* The lock that resolves a member's manifest and the environment uv keeps
\* for it: the uv workspace root's when a root claims the member, which then
\* has neither of its own.
Home(m) == IF m \in Claimed THEN UvRoot ELSE m

MembersAt(h) == {m \in Members : Home(m) = h}

\* The packages a set of members requires.
Required(ms) ==
    {p \in Packages : \E m \in ms : requires[m][p] # NoRequirement}

\* The floors the manifests resolved by the lock at h put on p.
FloorsOn(h, p) == {v \in 0 .. MaxVersion :
                     \E m \in MembersAt(h) : requires[m][p] = Floor(v)}

\* No floor is above what the registry publishes: a re-lock fails otherwise,
\* naming the version that was never published.
Resolvable(h) ==
    \A p \in Packages : \A v \in FloorsOn(h, p) : v <= published[p]

\* The version a re-lock picks: the checkout's for a path source, the version
\* already locked while every floor allows it and the registry has it, the
\* latest otherwise.
Pin(h, p) ==
    LET locked == lock[h].pins[p] IN
    IF p \notin Required(MembersAt(h)) THEN 0
    ELSE IF \E m \in MembersAt(h) : requires[m][p] = PathSource THEN head[p]
    ELSE IF locked \in 1 .. published[p] /\ \A v \in FloorsOn(h, p) : v <= locked
         THEN locked
    ELSE published[p]

\* The members whose versions a lock records: those it resolves, and the
\* ones they take from their directories.
RecordedAt(h) == MembersAt(h) \cup UNION {Siblings[m] : m \in MembersAt(h)}

\* What uv.lock holds after a re-lock, the members at these versions.
Relocked(h, versions) ==
    [versions |-> Restrict(versions, RecordedAt(h)),
     requires |-> Restrict(requires, MembersAt(h)),
     pins |-> [p \in Packages |-> Pin(h, p)]]

\* The dep-locks check: the lock's entry for the member records another
\* version or other requirements than its manifest.
StaleLock(m) ==
    \/ lock[Home(m)].versions[m] # version[m]
    \/ lock[Home(m)].requires[m] # requires[m]

\* The dep-floors check, asked while the option is on: a policed dependency
\* whose floor is behind the version the lock resolves.  A path source states
\* no floor.
FloorLags(m) ==
    /\ m \in policing
    /\ \E p \in floors[m] : \E v \in 0 .. MaxVersion :
          requires[m][p] = Floor(v) /\ v < lock[Home(m)].pins[p]

-----------------------------------------------------------------------------
(* Environments and overlays.                                              *)

\* What a `uv sync` for the members ms leaves at h: their packages as
\* locked, and, unless it is told --inexact, nothing else; a package left out
\* of the installation stays as it is.
Synced(h, ms, kept, exact) ==
    [p \in Packages |->
       IF p \in kept THEN env[h][p]
       ELSE IF p \in Required(ms) /\ lock[h].pins[p] # 0 THEN Locked(lock[h].pins[p])
       ELSE IF exact THEN NotInstalled
       ELSE env[h][p]]

PackagesOf(overlays) == {o[1] : o \in overlays}

\* Each package is overlaid from one checkout.
OnePerPackage(overlays) ==
    \A o, q \in overlays : o[1] = q[1] => o = q

\* The overlay file as a sync reads it: not empty, every checkout there and
\* outside this repository.
Loadable(overlays) ==
    /\ overlays # {}
    /\ \A o \in overlays : o[2] \in present \ Inside

\* The two files agree, so the mode is known: no overlay, or these.
ModeKnown(m) ==
    /\ declared[m] = synced[m]
    /\ \A o \in declared[m] : o[2] \in present

\* The overlays of members sharing one environment can be merged.
Mergeable(ms) ==
    /\ \A m \in ms : ModeKnown(m)
    /\ OnePerPackage(UNION {declared[m] : m \in ms})

\* What `dev status` and the dev-overlay-drift check call healthy.
Healthy(m, o) == env[Home(m)][o[1]] = EditableFrom(o[2])

\* Every test run syncs exactly.
TestedExactly(h, ms) ==
    LET overlaid == PackagesOf(UNION {declared[m] : m \in ms})
        whole == IF h = UvRoot THEN MembersAt(h) ELSE ms
    IN  Synced(h, whole, {}, overlaid = {})

\* What the environment holds once the built-in tests of ms, which share the
\* environment at h, have run.  With overlays, one sync leaves them out and
\* every `uv run` is told not to sync; without, uv runs as it does alone.  A
\* uv workspace is synced whole.
Tested(h, ms) ==
    LET overlaid == PackagesOf(UNION {declared[m] : m \in ms})
        whole == IF h = UvRoot THEN MembersAt(h) ELSE ms
    IN  Synced(h, whole, overlaid, overlaid = {})

-----------------------------------------------------------------------------
(* Releases.                                                               *)

MembersOf(r) == {m \in Members : Owner[m] = r}

\* The packages of the overlays in force for a releasable that one of its
\* manifests declares.
OverlaidHere(r) ==
    Required(MembersOf(r))
        \cap PackagesOf(UNION {declared[m] : m \in MembersOf(r)})

\* The version-skew guard: the overlay files agree, and no overlaid package
\* the releasable declares is ahead of PyPI.
SkewRefuses(r) ==
    \/ ~Mergeable(MembersOf(r))
    \/ \E p \in OverlaidHere(r) : head[p] > published[p]

\* The preflight checks on what the release is built against.  They run in
\* the release checkout, which holds no local-only file: dev-overlay-drift
\* finds nothing to ask about there.
PreflightPasses(r) ==
    \A m \in MembersOf(r) :
        /\ ~StaleLock(m)
        /\ ~FloorLags(m)
        /\ \A p \in Packages : requires[m][p] # PathSource

\* A release owes the locks of its own members.
OwedByMembers(r) == {UvRoot} \cup {Home(m) : m \in MembersOf(r)}

\* The locks a release owes: those beside the members it writes, the root's,
\* and the lock of every member versioned under no releasable that takes one
\* of those members from its directory.
OwedLocks(r) ==
    {UvRoot} \cup {Home(m) : m \in MembersOf(r)}
           \cup {Home(m) : m \in {f \in Members :
                   /\ Owner[f] = Free
                   /\ Siblings[f] \cap MembersOf(r) # {}}}

-----------------------------------------------------------------------------
NoLock(h) == [versions |-> [m \in RecordedAt(h) |-> 1],
              requires |-> [m \in MembersAt(h) |->
                              [p \in Packages |-> NoRequirement]],
              pins |-> [p \in Packages |-> 0]]

Init ==
    /\ published = [p \in Packages |-> 1]
    /\ head = [p \in Packages |-> 1]
    /\ present = Checkouts
    /\ requires = [m \in Members |-> [p \in Packages |-> NoRequirement]]
    /\ version = [m \in Members |-> 1]
    /\ lock = [h \in Homes |-> NoLock(h)]
    /\ declared = [m \in Members |-> {}]
    /\ synced = [m \in Members |-> {}]
    /\ env = [h \in Homes |-> [p \in Packages |-> NotInstalled]]
    /\ floors = [m \in Members |-> {}]
    /\ policing = {}
    /\ pending = {}
    /\ run = Idle
    /\ served = {}
    /\ edits = 0

\* A step of the developer or the world, which has no overlay to keep.
Edit == edits < MaxEdits /\ edits' = edits + 1 /\ served' = {}

\* A step of a command.
Serve(ms) == served' = ms /\ UNCHANGED edits

-----------------------------------------------------------------------------
(* The developer, uv run by hand, and the registry.                        *)

EditOverlays(m) ==
    /\ Edit
    /\ \E overlays \in SUBSET Overlays :
          /\ overlays # declared[m] /\ OnePerPackage(overlays)
          /\ declared' = [declared EXCEPT ![m] = overlays]
    /\ UNCHANGED <<world, tracked, synced, env, pending, run>>

\* The way back to registry mode every refusal names: delete both files.
DeleteLocalFiles(m) ==
    /\ Edit
    /\ declared[m] \cup synced[m] # {}
    /\ declared' = [declared EXCEPT ![m] = {}]
    /\ synced' = [synced EXCEPT ![m] = {}]
    /\ UNCHANGED <<world, tracked, env, pending, run>>

\* A bare `uv sync` in a member's directory.
BareSync(m) ==
    /\ Edit
    /\ env' = [env EXCEPT ![Home(m)] = Synced(Home(m), {m}, {}, TRUE)]
    /\ UNCHANGED <<world, tracked, declared, synced, pending, run>>

MoveCheckout(k) ==
    /\ Edit
    /\ k \in present
    /\ present' = present \ {k}
    /\ UNCHANGED <<published, head, tracked, local, pending, run>>

EditRequirement(m, p) ==
    /\ Edit
    /\ \E req \in Requirements \ {requires[m][p]} :
          requires' = [requires EXCEPT ![m][p] = req]
    /\ UNCHANGED <<world, version, lock, floors, policing, local, pending, run>>

\* A developer lists the packages a member's floors are policed for, or
\* none, and switches the option with them.
DeclareFloors(m) ==
    /\ Edit
    /\ \E names \in SUBSET Packages :
          /\ names # floors[m]
          /\ floors' = [floors EXCEPT ![m] = names]
          /\ policing' = IF names = {} THEN policing \ {m} ELSE policing \cup {m}
    /\ UNCHANGED <<world, requires, version, lock, local, pending, run>>

\* `uv lock` by hand.
LockByHand(h) ==
    /\ Edit
    /\ Resolvable(h)
    /\ lock' = [lock EXCEPT ![h] = Relocked(h, version)]
    /\ UNCHANGED <<world, requires, version, floors, policing, local, pending, run>>

\* The checkouts of p move on to a version nobody can install yet.
Advance(p) ==
    /\ Edit
    /\ head[p] < MaxVersion
    /\ head' = [head EXCEPT ![p] = @ + 1]
    /\ UNCHANGED <<published, present, tracked, local, pending, run>>

Publish(p) ==
    /\ Edit
    /\ published[p] < head[p]
    /\ published' = [published EXCEPT ![p] = head[p]]
    /\ UNCHANGED <<head, present, tracked, local, pending, run>>

\* `dev install` into the members' environments: uv's own exact sync, which
\* keeps no overlay.
DevInstall(m) ==
    /\ Edit
    /\ env' = [env EXCEPT ![Home(m)] =
                 Synced(Home(m), MembersAt(Home(m)), {}, TRUE)]
    /\ UNCHANGED <<world, tracked, declared, synced, pending, run>>

-----------------------------------------------------------------------------
(* dev sync.                                                               *)

\* The first uv command, once the overlay file was read: everything but the
\* overlaid packages.
StartSync(m) ==
    /\ run = Idle
    /\ Loadable(declared[m])
    /\ run' = [cmd |-> "sync", member |-> m, overlays |-> declared[m],
               left |-> declared[m], since |-> edits]
    /\ env' = [env EXCEPT ![Home(m)] =
                 Synced(Home(m), {m}, PackagesOf(declared[m]), FALSE)]
    /\ Serve({m} \X declared[m])
    /\ UNCHANGED <<world, tracked, declared, synced, pending>>

\* The editable install of one checkout.
InstallOverlay ==
    /\ run.cmd = "sync"
    /\ \E o \in run.left :
          /\ o[2] \in present
          /\ env' = [env EXCEPT ![Home(run.member)][o[1]] = EditableFrom(o[2])]
          /\ run' = [run EXCEPT !.left = @ \ {o}]
    /\ Serve({run.member} \X run.overlays)
    /\ UNCHANGED <<world, tracked, declared, synced, pending>>

\* The sentinel is renamed into place when every checkout is installed.
WriteSentinel ==
    /\ run.cmd = "sync" /\ run.left = {}
    /\ synced' = [synced EXCEPT ![run.member] = run.overlays]
    /\ run' = Idle
    /\ Serve({run.member} \X run.overlays)
    /\ UNCHANGED <<world, tracked, declared, env, pending>>

-----------------------------------------------------------------------------
(* The built-in test checks, in the developer's working tree.              *)

\* test-suite: one member, whose own two files decide.
TestMember(m) ==
    /\ run = Idle
    /\ ModeKnown(m)
    /\ env' = [env EXCEPT ![Home(m)] = Tested(Home(m), {m})]
    /\ Serve({m} \X declared[m])
    /\ UNCHANGED <<world, tracked, declared, synced, pending, run>>

\* test-suite-workspace: the members a push touches.  Those sharing the uv
\* workspace's environment are tested together, or the check fails before
\* anything runs; a member of its own whose files disagree is left out.
TestPush(affected) ==
    /\ run = Idle
    /\ affected # {}
    /\ Mergeable(affected \cap Claimed)
    /\ LET tested == {m \in affected : ModeKnown(m)} IN
          /\ env' = [h \in Homes |->
                       IF tested \cap MembersAt(h) = {} THEN env[h]
                       ELSE Tested(h, tested \cap MembersAt(h))]
          /\ Serve(UNION {{m} \X declared[m] : m \in tested})
    /\ UNCHANGED <<world, tracked, declared, synced, pending, run>>

-----------------------------------------------------------------------------
(* rewrite uv-path-sources.                                                *)

\* The version PyPI's document lists: every one published so far.
ProbePublished(p, v) == v \in 1 .. published[p]

\* The observation: every dependency taken from a path, at the version the
\* lock resolves, which PyPI must list.
StartConversion(m) ==
    /\ run = Idle
    /\ LET names == {p \in Packages : requires[m][p] = PathSource}
           pins == lock[Home(m)].pins
       IN  /\ names # {}
           /\ \A p \in names : ProbePublished(p, pins[p])
           /\ run' = [cmd |-> "convert", member |-> m, names |-> names,
                      left |-> names, pins |-> pins, floors |-> floors[m],
                      off |-> m \notin policing]
    /\ Serve({})
    /\ UNCHANGED <<world, tracked, local, pending>>

\* One dependency is floored and its source deleted; an entry that changed
\* since it was counted stops the command.
ConvertDependency ==
    /\ run.cmd = "convert"
    /\ \E p \in run.left :
          IF requires[run.member][p] = PathSource
          THEN /\ requires' = [requires EXCEPT ![run.member][p] =
                                 Floor(run.pins[p])]
               /\ run' = [run EXCEPT !.left = @ \ {p}]
          ELSE run' = Idle /\ UNCHANGED requires
    /\ Serve({})
    /\ UNCHANGED <<world, version, lock, floors, policing, local, pending>>

\* Then the names join the member's internal_dep_floors, as the observation
\* read it, and the option is switched on where the observation found it off.
DeclareConverted ==
    /\ run.cmd = "convert" /\ run.left = {}
    /\ floors' = IF run.names \subseteq run.floors THEN floors
                 ELSE [floors EXCEPT ![run.member] = run.floors \cup run.names]
    /\ run' = [cmd |-> "switch", member |-> run.member, off |-> run.off]
    /\ Serve({})
    /\ UNCHANGED <<world, requires, version, lock, policing, local, pending>>

SwitchOnDepFloors ==
    /\ run.cmd = "switch"
    /\ policing' = IF run.off THEN policing \cup {run.member} ELSE policing
    /\ run' = Idle
    /\ Serve({})
    /\ UNCHANGED <<world, requires, version, lock, floors, local, pending>>

\* A command fails or is killed; what it wrote stays.
StopRun ==
    /\ run # Idle
    /\ run' = Idle
    /\ Serve({})
    /\ UNCHANGED <<world, tracked, local, pending>>

-----------------------------------------------------------------------------
(* Releases.                                                               *)

\* The release is validated and its preflight passes.
ReleaseStart(r) ==
    /\ run = Idle /\ r \notin pending
    /\ ~SkewRefuses(r)
    /\ PreflightPasses(r)
    /\ \A m \in MembersOf(r) : version[m] < MaxVersion
    /\ pending' = pending \cup {r}
    /\ Serve({})
    /\ UNCHANGED <<world, tracked, local, run>>

\* The bump, in the same run or in a resume, which asks none of that again
\* and adopts what was committed meanwhile: the versions are written and
\* every lock they make stale is re-locked.  A re-lock that fails stops the
\* release before its commit.
ReleaseBump(r) ==
    /\ run = Idle /\ r \in pending
    /\ \A h \in OwedLocks(r) : Resolvable(h)
    /\ version' = [m \in Members |-> IF Owner[m] = r THEN version[m] + 1
                                     ELSE version[m]]
    /\ lock' = [h \in Homes |-> IF h \in OwedLocks(r) THEN Relocked(h, version')
                                ELSE lock[h]]
    /\ pending' = pending \ {r}
    /\ Serve({})
    /\ UNCHANGED <<world, requires, floors, policing, local, run>>

ReleaseAbandon(r) ==
    /\ run = Idle /\ r \in pending
    /\ pending' = pending \ {r}
    /\ Serve({})
    /\ UNCHANGED <<world, tracked, local, run>>

Next ==
    \/ \E m \in Members : EditOverlays(m) \/ DeleteLocalFiles(m) \/ BareSync(m)
                            \/ DeclareFloors(m) \/ DevInstall(m)
    \/ \E m \in Members, p \in Packages : EditRequirement(m, p)
    \/ \E k \in Checkouts : MoveCheckout(k)
    \/ \E p \in Packages : Advance(p) \/ Publish(p)
    \/ \E h \in Homes : LockByHand(h)
    \/ \E m \in Members : StartSync(m) \/ TestMember(m) \/ StartConversion(m)
    \/ \E affected \in SUBSET Members : TestPush(affected)
    \/ InstallOverlay \/ WriteSentinel
    \/ ConvertDependency \/ DeclareConverted \/ SwitchOnDepFloors
    \/ StopRun
    \/ \E r \in Releasables : ReleaseStart(r) \/ ReleaseBump(r) \/ ReleaseAbandon(r)

Spec == Init /\ [][Next]_vars

-----------------------------------------------------------------------------
(* Properties.                                                             *)

\* A sync or a test run keeps the overlays of the members it runs for:
\* whatever environment they share, and whichever of them it tests together,
\* an editable install one of them declares is still that install afterwards.
ServedKept == \A s \in served' : Healthy(s[1], s[2]) => Healthy(s[1], s[2])'

\* The sentinel tells the truth when it is written: unless the developer did
\* something meanwhile, the environment holds every overlay it records.
SentinelTells ==
    \A m \in Members :
        (synced'[m] # synced[m] /\ run.cmd = "sync" /\ run' = Idle
           /\ run.since = edits')
        => \A o \in synced'[m] : Healthy(m, o)

\* Whatever shares its environment, a developer's overlay stays installed and
\* is recorded as installed only when it is.
OverlaysKept == [][ServedKept /\ SentinelTells]_vars

\* A release leaves no lock behind that its new versions make stale and no
\* later release refreshes: the locks of its own members resolve their
\* manifests as they ship, whatever was committed between its preflight and
\* its bump, and every lock of a member versioned under no releasable records
\* the versions written.
LocksShipFresh ==
    \A m \in Members : version'[m] # version[m] =>
        /\ ~StaleLock(m)'
        /\ \A f \in Members : (Owner[f] = Free /\ m \in Siblings[f])
              => lock'[Home(f)].versions[m] = version'[m]

\* A conversion never leaves a manifest no lock can resolve: the floor it
\* puts in place of a checkout is a version the registry publishes, though
\* the lock it was read from may have resolved the checkout.
FloorsPublished ==
    \A m \in Members, p \in Packages :
        (run.cmd = "convert" /\ requires[m][p] = PathSource
           /\ requires'[m][p] # PathSource /\ edits' = edits)
        => \E v \in 1 .. published[p] : requires'[m][p] = Floor(v)

\* What a release or a conversion commits, CI can install: locks that resolve
\* the manifests beside them, and floors that are published.
CommitsInstall == [][LocksShipFresh /\ FloorsPublished]_vars
=============================================================================
