--------------------------- MODULE MCDependencies ---------------------------
(***************************************************************************)
(* Dependencies with three members: m1 and m2 share the uv workspace's     *)
(* environment, m1 versioned under the one releasable and m2 under none;   *)
(* m3 has a lock and an environment of its own and takes m1 from its       *)
(* directory.  Two checkouts build the package x.                          *)
(***************************************************************************)
EXTENDS Dependencies

CONSTANTS m1, m2, m3, x, k1, k2, r, root, free

MCOwner == [m \in {m1, m2, m3} |-> IF m = m1 THEN r ELSE free]
MCSiblings == [m \in {m1, m2, m3} |-> IF m = m3 THEN {m1} ELSE {}]
MCBuilds == [k \in {k1, k2} |-> x]
=============================================================================
