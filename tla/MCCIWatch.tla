---------------------------- MODULE MCCIWatch ----------------------------
(* Small instances of CIWatch: two runs of one workflow, or of two. *)
EXTENDS CIWatch

OneWorkflow == [r \in Runs |-> "ci"]
Test == <<"test", 0>>
Entry == <<"test", 1>>
Lint == <<"lint", 0>>
Three == {Test, Entry, Lint}
Shapes == {{Test}, {Entry}, {Lint}}
OneProject == {"p"}
TestJob == [p \in Projects |-> "test"]
=============================================================================
