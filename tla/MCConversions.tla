--------------------------- MODULE MCConversions ---------------------------
(* Two ways a releasable moves, checked in one run.  A behaviour is either *)
(* of Rename, with two past releases, one of them the current version, one *)
(* release more and three interruptions; or of Conversions, with one       *)
(* releasable born in either repository, which nobody commits to while a   *)
(* command runs.                                                           *)
EXTENDS Rename

VARIABLES there, works, repoHead, repoTree, repoTags, merged, step, plan, run,
          count, failures, last,
          moves    \* what the behaviour is about: "name" or "code"

C == INSTANCE Conversions WITH
       MaxWork <- 5, MaxVersion <- 2, MaxStops <- 2, MaxConversions <- 2, Meanwhile <- FALSE,
       head <- repoHead, tree <- repoTree, tags <- repoTags, pc <- step, stops <- failures

codeVars == <<there, works, repoHead, repoTree, repoTags, merged, step, plan, run,
              count, failures, last>>
all == <<vars, codeVars, moves>>

ASSUME MCAssumption == C!ConversionsAssumption

RecordsResolve == C!RecordsResolve
CarriesAll == C!CarriesAll

(* A move that stopped is completed by the same command: a rename that took *)
(* its declarations, and an absorb that merged (rename.go, absorb.go).      *)
MovesEnd == RenameEnds /\ C!AbsorbEnds

MCInit ==
  /\ Init /\ C!Init
  /\ \/ moves = "name" /\ ~there
     \/ moves = "code" /\ \A p \in DOMAIN tags : tags[p] = None /\ origin[p] = None
MCNext ==
  \/ moves = "name" /\ Next /\ UNCHANGED <<codeVars, moves>>
  \/ moves = "code" /\ C!Next /\ UNCHANGED <<vars, moves>>
MCSpec ==
  /\ MCInit /\ [][MCNext]_all
  /\ WF_all(moves = "name" /\ Advance /\ UNCHANGED <<codeVars, moves>>)
  /\ WF_all(moves = "code" /\ (C!Extract \/ C!Absorb) /\ UNCHANGED <<vars, moves>>)
  /\ SF_all(moves = "code" /\ C!ObserveAbsorb /\ UNCHANGED <<vars, moves>>)
  /\ WF_all(moves = "code" /\ C!CleanUp /\ UNCHANGED <<vars, moves>>)
=============================================================================
