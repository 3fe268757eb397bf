-------------------------- MODULE DependenciesProofs --------------------------
(***************************************************************************)
(* Overlays and what a release ships, proved for any members, environments *)
(* and checkouts.  The inductive invariant adds to the types what a        *)
(* command in progress may rely on while others act beside it: a sync      *)
(* undisturbed since it began has installed all it does not still owe, and *)
(* the versions a conversion read stay published.                          *)
(***************************************************************************)
EXTENDS Dependencies, TLAPS

Held == {NotInstalled} \cup {Locked(v) : v \in Nat} \cup {EditableFrom(k) : k \in Checkouts}
Consistent == {overlays \in SUBSET Overlays : OnePerPackage(overlays)}
Locks(h) == [versions : [RecordedAt(h) -> Nat],
             requires : [MembersAt(h) -> [Packages -> Requirements]],
             pins : [Packages -> Nat]]

SyncRuns == [cmd : {"sync"}, member : Members, overlays : Consistent,
             left : SUBSET Overlays, since : Nat]
ConvertRuns == [cmd : {"convert"}, member : Members, names : SUBSET Packages,
                left : SUBSET Packages, pins : [Packages -> Nat],
                floors : SUBSET Packages, off : BOOLEAN]
SwitchRuns == [cmd : {"switch"}, member : Members, off : BOOLEAN]

TypeOK ==
    /\ published \in [Packages -> 1 .. MaxVersion]
    /\ head \in [Packages -> 1 .. MaxVersion]
    /\ requires \in [Members -> [Packages -> Requirements]]
    /\ version \in [Members -> Nat]
    /\ \A h \in Homes : lock[h] \in Locks(h)
    /\ lock = [h \in Homes |-> lock[h]]
    /\ declared \in [Members -> Consistent]
    /\ synced \in [Members -> Consistent]
    /\ env \in [Homes -> [Packages -> Held]]
    /\ floors \in [Members -> SUBSET Packages]
    /\ run \in {Idle} \cup SyncRuns \cup ConvertRuns \cup SwitchRuns
    /\ edits \in Nat

\* What a sync installed so far is there, unless somebody did something.
Installed ==
    run.cmd = "sync" =>
        /\ run.left \subseteq run.overlays /\ run.since <= edits
        /\ run.since = edits =>
              \A o \in run.overlays \ run.left : Healthy(run.member, o)

\* What a conversion is about to floor is published, at the version it read.
Probed ==
    run.cmd = "convert" =>
        run.left \subseteq run.names
        /\ \A p \in run.names : run.pins[p] \in 1 .. published[p]

IInv == TypeOK /\ Installed /\ Probed

-----------------------------------------------------------------------------
(* The data of the model.                                                  *)

LEMMA OverlayParts ==
    ASSUME NEW o \in Overlays
    PROVE  o[1] \in Packages /\ o[2] \in Checkouts
BY DependenciesAssumption DEF Overlays

LEMMA HomeOf ==
    ASSUME NEW m \in Members
    PROVE  Home(m) \in Homes /\ m \in MembersAt(Home(m))
BY DependenciesAssumption DEF Home, Homes, MembersAt

LEMMA RecordedMembers ==
    ASSUME NEW h
    PROVE  MembersAt(h) \subseteq RecordedAt(h) /\ RecordedAt(h) \subseteq Members
BY DependenciesAssumption DEF RecordedAt, MembersAt

\* A re-lock picks a version.
LEMMA PinIsVersion ==
    ASSUME TypeOK, NEW h \in Homes, NEW p \in Packages
    PROVE  Pin(h, p) \in Nat
BY DEF TypeOK, Pin, Locks

\* A re-lock at any versions is a lock.
LEMMA RelockedIsLock ==
    ASSUME TypeOK, NEW h \in Homes,
           NEW versions \in [Members -> Nat]
    PROVE  Relocked(h, versions) \in Locks(h)
<1>1. MembersAt(h) \subseteq Members /\ RecordedAt(h) \subseteq Members
  BY RecordedMembers DEF MembersAt
<1>2. Restrict(versions, RecordedAt(h)) \in [RecordedAt(h) -> Nat]
  BY <1>1 DEF Restrict
<1>3. Restrict(requires, MembersAt(h)) \in [MembersAt(h) -> [Packages -> Requirements]]
  BY <1>1 DEF Restrict, TypeOK
<1>4. [p \in Packages |-> Pin(h, p)] \in [Packages -> Nat]
  BY PinIsVersion
<1> QED
  BY <1>2, <1>3, <1>4 DEF Relocked, Locks

\* A uv sync, exact or not, leaves an environment.
LEMMA SyncedIsEnvironment ==
    ASSUME TypeOK, NEW h \in Homes, NEW ms, NEW kept, NEW exact
    PROVE  Synced(h, ms, kept, exact) \in [Packages -> Held]
<1> SUFFICES ASSUME NEW p \in Packages
             PROVE  Synced(h, ms, kept, exact)[p] \in Held
  BY DEF Synced
<1>1. env[h][p] \in Held /\ Locked(lock[h].pins[p]) \in Held /\ NotInstalled \in Held
  BY DEF TypeOK, Locks, Held
<1> QED
  BY <1>1 DEF Synced

\* It leaves alone the packages it was told to keep.
LEMMA SyncedKeeps ==
    ASSUME NEW h, NEW ms, NEW kept, NEW exact, NEW p \in Packages, p \in kept
    PROVE  Synced(h, ms, kept, exact)[p] = env[h][p]
BY DEF Synced

-----------------------------------------------------------------------------
LEMMA InitHolds == ASSUME Init PROVE IInv
<1>1. \A h \in Homes : NoLock(h) \in Locks(h)
  <2> SUFFICES ASSUME NEW h \in Homes PROVE NoLock(h) \in Locks(h)
    OBVIOUS
  <2> QED
    BY DEF NoLock, Locks, Requirements
<1>2. {} \in Consistent
  BY DEF Consistent, OnePerPackage
<1>3. run.cmd = "none"
  BY DEF Init, Idle
<1>4. TypeOK
  BY <1>1, <1>2, DependenciesAssumption DEF Init, TypeOK, Held, Requirements
<1> QED
  BY <1>3, <1>4 DEF IInv, Installed, Probed

-----------------------------------------------------------------------------
(* Every step keeps the types.                                             *)

LEMMA DeveloperKeepsTypes ==
    ASSUME TypeOK, NEW m \in Members,
           EditOverlays(m) \/ DeleteLocalFiles(m) \/ BareSync(m) \/ DeclareFloors(m)
             \/ DevInstall(m) \/ \E p \in Packages : EditRequirement(m, p)
    PROVE  TypeOK' /\ edits' = edits + 1 /\ run' = run /\ published' = published
<1> USE DEF TypeOK, world, tracked, local, Edit
<1>1. CASE EditOverlays(m)
  BY <1>1 DEF EditOverlays, Consistent
<1>2. CASE DeleteLocalFiles(m)
  <2>1. {} \in Consistent
    BY DEF Consistent, OnePerPackage
  <2> QED
    BY <1>2, <2>1 DEF DeleteLocalFiles
<1>3. CASE BareSync(m)
  <2>1. Synced(Home(m), {m}, {}, TRUE) \in [Packages -> Held]
    BY HomeOf, SyncedIsEnvironment
  <2>2. env' \in [Homes -> [Packages -> Held]]
    BY <1>3, <2>1 DEF BareSync
  <2>3. UNCHANGED <<world, tracked, declared, synced, pending, run>> /\ Edit
    BY <1>3 DEF BareSync
  <2> QED
    BY <2>2, <2>3
<1>4. CASE DeclareFloors(m)
  BY <1>4 DEF DeclareFloors
<1>5. CASE DevInstall(m)
  <2>1. Synced(Home(m), MembersAt(Home(m)), {}, TRUE) \in [Packages -> Held]
    BY HomeOf, SyncedIsEnvironment
  <2>2. env' \in [Homes -> [Packages -> Held]]
    BY <1>5, <2>1 DEF DevInstall
  <2>3. UNCHANGED <<world, tracked, declared, synced, pending, run>> /\ Edit
    BY <1>5 DEF DevInstall
  <2> QED
    BY <2>2, <2>3
<1>6. CASE \E p \in Packages : EditRequirement(m, p)
  BY <1>6 DEF EditRequirement
<1> QED
  BY <1>1, <1>2, <1>3, <1>4, <1>5, <1>6

LEMMA WorldKeepsTypes ==
    ASSUME TypeOK,
           \/ \E k \in Checkouts : MoveCheckout(k)
           \/ \E p \in Packages : Advance(p) \/ Publish(p)
           \/ \E h \in Homes : LockByHand(h)
    PROVE  /\ TypeOK' /\ edits' = edits + 1 /\ run' = run
           /\ \A p \in Packages : published[p] <= published'[p]
<1> USE DEF TypeOK, world, tracked, local, Edit
<1>1. CASE \E k \in Checkouts : MoveCheckout(k)
  BY <1>1 DEF MoveCheckout
<1>2. CASE \E p \in Packages : Advance(p)
  BY <1>2, DependenciesAssumption DEF Advance
<1>3. CASE \E p \in Packages : Publish(p)
  BY <1>3 DEF Publish
<1>4. ASSUME NEW h \in Homes, LockByHand(h) PROVE TypeOK' /\ UNCHANGED <<published, run>>
  <2>1. Relocked(h, version) \in Locks(h)
    BY RelockedIsLock
  <2> QED
    BY <1>4, <2>1 DEF LockByHand
<1> QED
  BY <1>1, <1>2, <1>3, <1>4 DEF LockByHand

-----------------------------------------------------------------------------
(* The commands.                                                           *)

\* A sync of overlays keeps the types, and what it installed is there.
LEMMA SyncKeepsInvariant ==
    ASSUME IInv,
           (\E m \in Members : StartSync(m)) \/ InstallOverlay \/ WriteSentinel
    PROVE  IInv'
<1> USE DEF IInv, TypeOK, Serve, world, tracked, local
<1>1. ASSUME NEW m \in Members, StartSync(m) PROVE IInv'
  <2>1. Synced(Home(m), {m}, PackagesOf(declared[m]), FALSE) \in [Packages -> Held]
    BY SyncedIsEnvironment, HomeOf
  <2>2. env' \in [Homes -> [Packages -> Held]]
    BY <1>1, <2>1 DEF StartSync
  <2>3. declared[m] \in Consistent /\ declared[m] \in SUBSET Overlays
    BY DEF Consistent
  <2>4. /\ run' \in SyncRuns /\ run'.cmd = "sync"
        /\ run'.left = run'.overlays /\ run'.since = edits
    BY <1>1, <2>3 DEF StartSync, SyncRuns
  <2>5. UNCHANGED <<world, tracked, declared, synced, edits>>
    BY <1>1 DEF StartSync
  <2>6. Installed' /\ Probed'
    BY <2>4, <2>5 DEF Installed, Probed
  <2>7. TypeOK'
    BY <2>2, <2>4, <2>5
  <2> QED
    BY <2>6, <2>7
<1>2. ASSUME InstallOverlay PROVE IInv'
  <2>1. run \in SyncRuns
    BY <1>2 DEF InstallOverlay, Idle, ConvertRuns, SwitchRuns
  <2>2. PICK o \in run.left :
          /\ env' = [env EXCEPT ![Home(run.member)][o[1]] = EditableFrom(o[2])]
          /\ run' = [run EXCEPT !.left = @ \ {o}]
    BY <1>2 DEF InstallOverlay
  <2>3. o \in Overlays /\ run.member \in Members
    BY <2>1 DEF SyncRuns
  <2>4. o[1] \in Packages /\ Home(run.member) \in Homes /\ EditableFrom(o[2]) \in Held
    BY <2>3, OverlayParts, HomeOf DEF Held
  <2>5. env' \in [Homes -> [Packages -> Held]]
    BY <2>2, <2>4
  <2>6. run' \in SyncRuns /\ run'.cmd = "sync" /\ run'.left = run.left \ {o}
        /\ UNCHANGED <<run.member, run.overlays, run.since>>
    BY <2>1, <2>2 DEF SyncRuns
  <2>7. Installed'
    <3> SUFFICES ASSUME run.since = edits, NEW q \in run.overlays \ (run.left \ {o})
                 PROVE  env'[Home(run.member)][q[1]] = EditableFrom(q[2])
      BY <1>2, <2>6 DEF Installed, Healthy, InstallOverlay
    <3>1. CASE q = o
      BY <3>1, <2>2, <2>4
    <3>2. CASE q # o
      <4>1. q \in run.overlays \ run.left /\ run.cmd = "sync"
        BY <3>2, <2>1 DEF SyncRuns
      <4>2. env[Home(run.member)][q[1]] = EditableFrom(q[2])
        BY <4>1 DEF Installed, Healthy
      <4>3. q[1] = o[1] \/ env'[Home(run.member)][q[1]] = env[Home(run.member)][q[1]]
        BY <2>2, <2>4
      <4>4. o \in run.overlays /\ run.overlays \in Consistent
        BY <4>1, <2>1, <2>2 DEF SyncRuns, Installed
      <4>5. q[1] # o[1]
        BY <3>2, <4>1, <4>4 DEF Consistent, OnePerPackage
      <4> QED
        BY <4>2, <4>3, <4>5
    <3> QED
      BY <3>1, <3>2
  <2>8. ~(run'.cmd = "convert")
    BY <2>6
  <2> QED
    BY <1>2, <2>5, <2>6, <2>7, <2>8 DEF InstallOverlay, Probed
<1>3. ASSUME WriteSentinel PROVE IInv'
  <2>1. run \in SyncRuns
    BY <1>3 DEF WriteSentinel, Idle, ConvertRuns, SwitchRuns
  <2>2. synced' \in [Members -> Consistent] /\ run' = Idle
    BY <1>3, <2>1 DEF WriteSentinel, SyncRuns
  <2> QED
    BY <1>3, <2>2 DEF WriteSentinel, Installed, Probed, Idle
<1> QED
  BY <1>1, <1>2, <1>3

\* A run of the built-in tests moves environments only, while no command runs.
LEMMA TestKeepsInvariant ==
    ASSUME IInv,
           (\E m \in Members : TestMember(m)) \/ (\E affected \in SUBSET Members : TestPush(affected))
    PROVE  IInv'
<1> USE DEF IInv, TypeOK, Serve, world, tracked
<1>1. env' \in [Homes -> [Packages -> Held]]
  <2>1. ASSUME NEW m \in Members, TestMember(m) PROVE env' \in [Homes -> [Packages -> Held]]
    <3>1. Tested(Home(m), {m}) \in [Packages -> Held]
      BY SyncedIsEnvironment, HomeOf DEF Tested
    <3> QED
      BY <2>1, <3>1 DEF TestMember
  <2>2. ASSUME NEW affected \in SUBSET Members, TestPush(affected)
        PROVE  env' \in [Homes -> [Packages -> Held]]
    <3>1. \A h \in Homes : \A ms \in SUBSET Members : Tested(h, ms) \in [Packages -> Held]
      BY SyncedIsEnvironment DEF Tested
    <3> QED
      BY <2>2, <3>1 DEF TestPush
  <2> QED
    BY <2>1, <2>2
<1>2. run' = run /\ run = Idle
  BY DEF TestMember, TestPush
<1> QED
  BY <1>1, <1>2 DEF TestMember, TestPush, Installed, Probed, Idle

\* A conversion floors what it read, which stays published.
LEMMA ConversionKeepsInvariant ==
    ASSUME IInv,
           (\E m \in Members : StartConversion(m)) \/ ConvertDependency
             \/ DeclareConverted \/ SwitchOnDepFloors \/ StopRun
    PROVE  IInv'
<1> USE DEF IInv, TypeOK, Serve, world, tracked, local
<1>1. ASSUME NEW m \in Members, StartConversion(m) PROVE IInv'
  <2> DEFINE names == {p \in Packages : requires[m][p] = PathSource}
             pins == lock[Home(m)].pins
  <2>1. pins \in [Packages -> Nat]
    BY HomeOf DEF Locks
  <2>2. run' = [cmd |-> "convert", member |-> m, names |-> names, left |-> names,
                pins |-> pins, floors |-> floors[m], off |-> m \notin policing]
    BY <1>1 DEF StartConversion
  <2>3. run' \in ConvertRuns
    BY <2>1, <2>2 DEF ConvertRuns
  <2>4. \A p \in names : pins[p] \in 1 .. published[p]
    BY <1>1 DEF StartConversion, ProbePublished
  <2>5. /\ run'.cmd = "convert" /\ run'.left = names /\ run'.names = names /\ run'.pins = pins
        /\ published' = published
    BY <1>1, <2>2 DEF StartConversion
  <2>6. Installed' /\ Probed'
    BY <2>4, <2>5 DEF Installed, Probed
  <2> QED
    BY <1>1, <2>3, <2>6 DEF StartConversion
<1>2. ASSUME ConvertDependency PROVE IInv'
  <2>1. run \in ConvertRuns
    BY <1>2 DEF ConvertDependency, Idle, SyncRuns, SwitchRuns
  <2>2. PICK p \in run.left :
          IF requires[run.member][p] = PathSource
          THEN /\ requires' = [requires EXCEPT ![run.member][p] = Floor(run.pins[p])]
               /\ run' = [run EXCEPT !.left = @ \ {p}]
          ELSE run' = Idle /\ UNCHANGED requires
    BY <1>2 DEF ConvertDependency
  <2>3. UNCHANGED <<world, version, lock, floors, policing, local, pending, edits>>
    BY <1>2 DEF ConvertDependency
  <2>4. CASE requires[run.member][p] = PathSource
    <3>1. run.cmd = "convert" /\ run.left \subseteq run.names
          /\ \A q \in run.names : run.pins[q] \in 1 .. published[q]
      BY <1>2 DEF Probed, ConvertDependency
    <3>2. /\ requires' = [requires EXCEPT ![run.member][p] = Floor(run.pins[p])]
          /\ run' = [run EXCEPT !.left = @ \ {p}]
      BY <2>2, <2>4
    <3>3. p \in Packages /\ run.pins[p] \in 1 .. published[p] /\ run.member \in Members
      BY <2>1, <2>2, <3>1 DEF ConvertRuns
    <3>4. run.pins[p] \in 0 .. MaxVersion
      BY <3>3, DependenciesAssumption
    <3>5. Floor(run.pins[p]) \in Requirements
      BY <3>4 DEF Requirements
    <3>6. requires' \in [Members -> [Packages -> Requirements]]
      BY <3>2, <3>3, <3>5
    <3>7. /\ run' \in ConvertRuns /\ run'.cmd = "convert" /\ run'.left = run.left \ {p}
          /\ UNCHANGED <<run.names, run.pins>>
      BY <2>1, <3>2 DEF ConvertRuns
    <3>8. Installed' /\ Probed'
      BY <1>2, <2>3, <3>7 DEF Installed, Probed, ConvertDependency
    <3> QED
      BY <2>3, <3>6, <3>7, <3>8
  <2>5. CASE requires[run.member][p] # PathSource
    BY <2>2, <2>3, <2>5 DEF Installed, Probed, Idle
  <2> QED
    BY <2>4, <2>5
<1>3. ASSUME DeclareConverted PROVE IInv'
  <2>1. run \in ConvertRuns
    BY <1>3 DEF DeclareConverted, Idle, SyncRuns, SwitchRuns
  <2>2. floors' \in [Members -> SUBSET Packages]
    BY <1>3, <2>1 DEF DeclareConverted, ConvertRuns
  <2>3. run' \in SwitchRuns /\ run'.cmd = "switch"
    BY <1>3, <2>1 DEF DeclareConverted, ConvertRuns, SwitchRuns
  <2> QED
    BY <1>3, <2>2, <2>3 DEF DeclareConverted, Installed, Probed
<1>4. ASSUME SwitchOnDepFloors \/ StopRun PROVE IInv'
  <2>1. run' = Idle /\ UNCHANGED <<world, requires, version, lock, floors, local, edits>>
    BY <1>4 DEF SwitchOnDepFloors, StopRun
  <2> QED
    BY <2>1 DEF Installed, Probed, Idle
<1> QED
  BY <1>1, <1>2, <1>3, <1>4

\* A release re-locks between commands.
LEMMA ReleaseKeepsInvariant ==
    ASSUME IInv, NEW r \in Releasables,
           ReleaseStart(r) \/ ReleaseBump(r) \/ ReleaseAbandon(r)
    PROVE  IInv'
<1> USE DEF IInv, TypeOK, Serve, world, tracked, local
<1>1. run' = run /\ run = Idle /\ UNCHANGED <<world, requires, floors, policing, local, edits>>
  BY DEF ReleaseStart, ReleaseBump, ReleaseAbandon
<1>2. CASE ReleaseBump(r)
  <2>1. version' \in [Members -> Nat]
    BY <1>2 DEF ReleaseBump
  <2>2. \A h \in Homes : Relocked(h, version') \in Locks(h)
    BY <2>1, RelockedIsLock
  <2>3. lock' = [h \in Homes |-> lock'[h]] /\ \A h \in Homes : lock'[h] \in Locks(h)
    BY <1>2, <2>2 DEF ReleaseBump
  <2> QED
    BY <1>1, <2>1, <2>3 DEF Installed, Probed, Idle
<1>3. CASE ReleaseStart(r) \/ ReleaseAbandon(r)
  BY <1>1, <1>3 DEF ReleaseStart, ReleaseAbandon, Installed, Probed, Idle
<1> QED
  BY <1>2, <1>3

\* Whatever else happens counts as an edit, after which a sync promises
\* nothing, and unpublishes nothing.
LEMMA EditKeepsInvariant ==
    ASSUME IInv,
           \/ \E m \in Members :
                EditOverlays(m) \/ DeleteLocalFiles(m) \/ BareSync(m) \/ DeclareFloors(m)
                  \/ DevInstall(m) \/ \E p \in Packages : EditRequirement(m, p)
           \/ \E k \in Checkouts : MoveCheckout(k)
           \/ \E p \in Packages : Advance(p) \/ Publish(p)
           \/ \E h \in Homes : LockByHand(h)
    PROVE  IInv' /\ edits' = edits + 1
<1>1. /\ TypeOK' /\ edits' = edits + 1 /\ run' = run
      /\ \A p \in Packages : published[p] <= published'[p]
  BY DeveloperKeepsTypes, WorldKeepsTypes DEF IInv, TypeOK
<1>2. \A p \in Packages : published[p] \in Nat /\ published'[p] \in Nat
  BY <1>1, DependenciesAssumption DEF IInv, TypeOK
<1>3. Installed'
  <2> SUFFICES ASSUME run.cmd = "sync" PROVE Installed'
    BY <1>1 DEF Installed
  <2>1. run \in SyncRuns /\ edits \in Nat
    BY DEF IInv, TypeOK, Idle, ConvertRuns, SwitchRuns
  <2>2. run.left \subseteq run.overlays /\ run.since <= edits /\ run.since \in Nat
    BY <2>1 DEF IInv, Installed, SyncRuns
  <2> QED
    BY <1>1, <2>1, <2>2 DEF Installed
<1>4. Probed'
  <2> SUFFICES ASSUME run.cmd = "convert" PROVE Probed'
    BY <1>1 DEF Probed
  <2>1. run \in ConvertRuns
    BY DEF IInv, TypeOK, Idle, SyncRuns, SwitchRuns
  <2>2. run.names \subseteq Packages /\ \A p \in Packages : run.pins[p] \in Nat
    BY <2>1 DEF ConvertRuns
  <2> QED
    BY <1>1, <1>2, <2>2 DEF IInv, Probed
<1> QED
  BY <1>1, <1>3, <1>4 DEF IInv

LEMMA Invariance == Spec => []IInv
<1>1. Init => IInv
  BY InitHolds
<1>2. IInv /\ [Next]_vars => IInv'
  <2> SUFFICES ASSUME IInv, [Next]_vars PROVE IInv'
    OBVIOUS
  <2>1. CASE UNCHANGED vars
    BY <2>1 DEF IInv, TypeOK, Installed, Probed, Healthy, vars
  <2>2. CASE Next
    BY <2>2, SyncKeepsInvariant, TestKeepsInvariant, ConversionKeepsInvariant,
       ReleaseKeepsInvariant, EditKeepsInvariant DEF Next
  <2> QED
    BY <2>1, <2>2
<1> QED
  BY <1>1, <1>2, PTL DEF Spec

-----------------------------------------------------------------------------
(* Whatever shares its environment, an overlay in force stays installed    *)
(* through every sync and test run for its member, and the sentinel is     *)
(* written over an environment that holds what it records.                 *)
THEOREM OverlaysStay == Spec => OverlaysKept
<1>1. IInv /\ [Next]_vars => [ServedKept /\ SentinelTells]_vars
  <2> SUFFICES ASSUME IInv, Next PROVE ServedKept /\ SentinelTells
    BY DEF vars
  <2> USE DEF Serve
  <2>1. ASSUME NEW m \in Members, StartSync(m) PROVE ServedKept /\ SentinelTells
    <3>1. env' = [env EXCEPT ![Home(m)] = Synced(Home(m), {m}, PackagesOf(declared[m]), FALSE)]
          /\ served' = {m} \X declared[m] /\ synced' = synced
      BY <2>1 DEF StartSync
    <3>2. ASSUME NEW o \in declared[m] PROVE env'[Home(m)][o[1]] = env[Home(m)][o[1]]
      <4>1. o \in Overlays /\ o[1] \in PackagesOf(declared[m])
        BY DEF IInv, TypeOK, Consistent, PackagesOf
      <4>2. o[1] \in Packages
        BY <4>1, OverlayParts
      <4>3. Synced(Home(m), {m}, PackagesOf(declared[m]), FALSE)[o[1]] = env[Home(m)][o[1]]
        BY <4>1, <4>2 DEF Synced
      <4> QED
        BY <3>1, <4>3, HomeOf DEF IInv, TypeOK
    <3> QED
      BY <3>1, <3>2 DEF ServedKept, SentinelTells, Healthy
  <2>2. ASSUME InstallOverlay PROVE ServedKept /\ SentinelTells
    <3>1. run \in SyncRuns
      BY <2>2 DEF IInv, TypeOK, InstallOverlay, Idle, ConvertRuns, SwitchRuns
    <3>2. PICK o \in run.left :
            env' = [env EXCEPT ![Home(run.member)][o[1]] = EditableFrom(o[2])]
      BY <2>2 DEF InstallOverlay
    <3>3. o \in run.overlays /\ run.overlays \in Consistent /\ run.member \in Members
      BY <2>2, <3>1, <3>2 DEF IInv, Installed, SyncRuns, InstallOverlay
    <3>4. o \in Overlays /\ OnePerPackage(run.overlays)
      BY <3>3 DEF Consistent
    <3>5. o[1] \in Packages /\ Home(run.member) \in Homes
      BY <3>3, <3>4, OverlayParts, HomeOf
    <3>6. ASSUME NEW q \in run.overlays, env[Home(run.member)][q[1]] = EditableFrom(q[2])
          PROVE  env'[Home(run.member)][q[1]] = EditableFrom(q[2])
      <4>1. CASE q[1] = o[1]
        <5>1. q = o
          BY <3>3, <3>4, <4>1 DEF OnePerPackage
        <5> QED
          BY <3>2, <3>5, <5>1 DEF IInv, TypeOK
      <4>2. CASE q[1] # o[1]
        BY <3>2, <3>5, <3>6, <4>2 DEF IInv, TypeOK
      <4> QED
        BY <4>1, <4>2
    <3> QED
      BY <2>2, <3>6 DEF InstallOverlay, ServedKept, SentinelTells, Healthy, local
  <2>3. ASSUME WriteSentinel PROVE ServedKept /\ SentinelTells
    <3>1. run \in SyncRuns
      BY <2>3 DEF IInv, TypeOK, WriteSentinel, Idle, ConvertRuns, SwitchRuns
    <3>2. UNCHANGED env /\ synced' = [synced EXCEPT ![run.member] = run.overlays]
          /\ run.left = {} /\ edits' = edits
      BY <2>3 DEF WriteSentinel
    <3>3. run.since = edits => \A o \in run.overlays : Healthy(run.member, o)
      BY <2>3, <3>2 DEF IInv, Installed, WriteSentinel
    <3>4. \A m \in Members : synced'[m] # synced[m] => m = run.member /\ synced'[m] = run.overlays
      BY <3>1, <3>2 DEF IInv, TypeOK, SyncRuns
    <3> QED
      BY <3>2, <3>3, <3>4 DEF ServedKept, SentinelTells, Healthy
  <2>4. ASSUME NEW m \in Members, TestMember(m) PROVE ServedKept /\ SentinelTells
    <3>1. env' = [env EXCEPT ![Home(m)] = Tested(Home(m), {m})]
          /\ served' = {m} \X declared[m] /\ synced' = synced
      BY <2>4 DEF TestMember
    <3>2. ASSUME NEW o \in declared[m] PROVE env'[Home(m)][o[1]] = env[Home(m)][o[1]]
      <4>1. o \in Overlays /\ o[1] \in PackagesOf(UNION {declared[n] : n \in {m}})
        BY DEF IInv, TypeOK, Consistent, PackagesOf
      <4>2. Tested(Home(m), {m})[o[1]] = env[Home(m)][o[1]]
        BY <4>1, OverlayParts, SyncedKeeps DEF Tested
      <4> QED
        BY <3>1, <4>2, HomeOf DEF IInv, TypeOK
    <3> QED
      BY <3>1, <3>2 DEF ServedKept, SentinelTells, Healthy
  <2>5. ASSUME NEW affected \in SUBSET Members, TestPush(affected)
        PROVE  ServedKept /\ SentinelTells
    <3> DEFINE tested == {m \in affected : ModeKnown(m)}
               At(h) == tested \cap MembersAt(h)
    <3>1. /\ env' = [h \in Homes |-> IF At(h) = {} THEN env[h] ELSE Tested(h, At(h))]
          /\ served' = UNION {{m} \X declared[m] : m \in tested}
          /\ synced' = synced
      BY <2>5 DEF TestPush
    <3>2. ASSUME NEW m \in tested, NEW o \in declared[m]
          PROVE  env'[Home(m)][o[1]] = env[Home(m)][o[1]]
      <4>1. m \in Members /\ Home(m) \in Homes /\ m \in At(Home(m))
        BY HomeOf
      <4>2. o \in Overlays /\ o[1] \in PackagesOf(UNION {declared[n] : n \in At(Home(m))})
        BY <4>1 DEF IInv, TypeOK, Consistent, PackagesOf
      <4>3. Tested(Home(m), At(Home(m)))[o[1]] = env[Home(m)][o[1]]
        BY <4>2, OverlayParts, SyncedKeeps DEF Tested
      <4> QED
        BY <3>1, <4>1, <4>3
    <3>3. \A s \in served' : \E m \in tested : \E o \in declared[m] : s = <<m, o>>
      BY <3>1
    <3>4. ServedKept
      BY <3>2, <3>3 DEF ServedKept, Healthy
    <3> QED
      BY <3>1, <3>4 DEF SentinelTells
  <2>6. ASSUME served' = {}, synced' = synced \/ run' = run PROVE ServedKept /\ SentinelTells
    <3>1. \A m \in Members : ~(run.cmd = "sync" /\ run' = Idle /\ run' = run)
      BY DEF Idle
    <3> QED
      BY <2>6, <3>1 DEF ServedKept, SentinelTells
  <2> QED
    BY <2>1, <2>2, <2>3, <2>4, <2>5, <2>6
       DEF Next, Edit, EditOverlays, DeleteLocalFiles, BareSync, DeclareFloors, DevInstall,
           EditRequirement, MoveCheckout, Advance, Publish, LockByHand, StartConversion,
           ConvertDependency, DeclareConverted, SwitchOnDepFloors, StopRun, ReleaseStart,
           ReleaseBump, ReleaseAbandon, local, world, tracked
<1> QED
  BY Invariance, <1>1, PTL DEF Spec, OverlaysKept

(* A release commits no lock its own versions make stale, and a conversion *)
(* no floor nobody can install.                                            *)
THEOREM CommitsInstallable == Spec => CommitsInstall
<1>1. IInv /\ [Next]_vars => [LocksShipFresh /\ FloorsPublished]_vars
  <2> SUFFICES ASSUME IInv, Next PROVE LocksShipFresh /\ FloorsPublished
    BY DEF vars
  <2>1. LocksShipFresh
    <3> SUFFICES ASSUME NEW m \in Members, version'[m] # version[m]
                 PROVE  /\ ~StaleLock(m)'
                        /\ \A f \in Members : (Owner[f] = Free /\ m \in Siblings[f])
                              => lock'[Home(f)].versions[m] = version'[m]
      BY DEF LocksShipFresh
    <3>1. PICK r \in Releasables : ReleaseBump(r)
      BY DEF Next, Edit, EditOverlays, DeleteLocalFiles, BareSync, DeclareFloors, DevInstall,
             EditRequirement, MoveCheckout, Advance, Publish, LockByHand, StartSync,
             InstallOverlay, WriteSentinel, TestMember, TestPush, StartConversion,
             ConvertDependency, DeclareConverted, SwitchOnDepFloors, StopRun, ReleaseStart,
             ReleaseAbandon, local, world, tracked
    <3>2. Owner[m] = r /\ requires' = requires
      BY <3>1 DEF ReleaseBump, IInv, TypeOK
    <3>3. ASSUME NEW h \in OwedLocks(r) \cap Homes, NEW n \in RecordedAt(h)
          PROVE  lock'[h].versions[n] = version'[n]
      BY <3>1 DEF ReleaseBump, Relocked, Restrict
    <3>4. ASSUME NEW h \in OwedLocks(r) \cap Homes, NEW n \in MembersAt(h)
          PROVE  lock'[h].requires[n] = requires'[n]
      BY <3>1, <3>2 DEF ReleaseBump, Relocked, Restrict
    <3>5. ~StaleLock(m)'
      <4>1. Home(m) \in OwedLocks(r) \cap Homes /\ m \in MembersAt(Home(m))
        BY <3>2, HomeOf DEF OwedLocks, MembersOf
      <4>2. m \in RecordedAt(Home(m))
        BY <4>1, RecordedMembers
      <4> QED
        BY <3>3, <3>4, <4>1, <4>2 DEF StaleLock
    <3>6. ASSUME NEW f \in Members, Owner[f] = Free, m \in Siblings[f]
          PROVE  lock'[Home(f)].versions[m] = version'[m]
      <4>1. Home(f) \in OwedLocks(r) \cap Homes
        BY <3>2, <3>6, HomeOf DEF OwedLocks, MembersOf
      <4>2. m \in RecordedAt(Home(f))
        BY <3>6, HomeOf DEF RecordedAt
      <4> QED
        BY <3>3, <4>1, <4>2
    <3> QED
      BY <3>5, <3>6
  <2>2. FloorsPublished
    <3> SUFFICES ASSUME NEW m \in Members, NEW p \in Packages, run.cmd = "convert",
                        requires[m][p] = PathSource, requires'[m][p] # PathSource,
                        edits' = edits
                 PROVE  \E v \in 1 .. published[p] : requires'[m][p] = Floor(v)
      BY DEF FloorsPublished
    <3>1. requires' # requires /\ edits' # edits + 1
      BY DEF IInv, TypeOK
    <3>2. ConvertDependency \/ \E n \in Members, q \in Packages : EditRequirement(n, q)
      BY <3>1 DEF Next, EditOverlays, DeleteLocalFiles, BareSync, DeclareFloors,
             DevInstall, MoveCheckout, Advance, Publish, LockByHand, StartSync,
             InstallOverlay, WriteSentinel, TestMember, TestPush, StartConversion,
             DeclareConverted, SwitchOnDepFloors, StopRun, ReleaseStart, ReleaseBump,
             ReleaseAbandon, local, world, tracked
    <3>3. ConvertDependency
      BY <3>1, <3>2 DEF EditRequirement, Edit
    <3>4. PICK q \in run.left :
            requires' = [requires EXCEPT ![run.member][q] = Floor(run.pins[q])]
      BY <3>1, <3>3 DEF ConvertDependency
    <3>5. requires'[m][p] = requires[m][p]
            \/ (p = q /\ requires'[m][p] = Floor(run.pins[p]))
      BY <3>4 DEF IInv, TypeOK
    <3>6. p = q /\ requires'[m][p] = Floor(run.pins[p])
      BY <3>5
    <3>7. run.pins[p] \in 1 .. published[p]
      BY <3>4, <3>6 DEF IInv, Probed
    <3> QED
      BY <3>6, <3>7
  <2> QED
    BY <2>1, <2>2
<1> QED
  BY Invariance, <1>1, PTL DEF Spec, CommitsInstall
==============================================================================
