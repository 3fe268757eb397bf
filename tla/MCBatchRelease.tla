--------------------------- MODULE MCBatchRelease ---------------------------
(* Releases past their run, checked in one run.  A behaviour is either of  *)
(* BatchRelease, with two releasables; or of PastReleases, with a          *)
(* releasable that publishes one npm package or one go module.             *)
EXTENDS BatchRelease

Two == <<"a", "b">>
OneStep == {1}

VARIABLES packages, commits, pushed, head, disk, tag, originTag, ghr, runs, pub,
          release, retry, step, p, failures, tidied, tagged, revived,
          about    \* what the behaviour is about: "batch" or "past"

P == INSTANCE PastReleases WITH
       MaxVersion <- 2, PackageSets <- {{"npm"}, {"go"}}, Workflows <- {"publish.yml", "docs.yml"},
       MaxCommits <- 6, MaxStops <- 1, MaxTidying <- 1,
       hist <- commits, ltag <- tag, otag <- originTag, st <- release, pc <- step, stops <- failures

pastVars == <<packages, commits, pushed, head, disk, tag, originTag, ghr, runs, pub,
              release, retry, step, p, failures, tidied, tagged, revived>>
all == <<vars, pastVars, about>>
Goes == about = "batch" /\ (Batch \/ \E r \in Releasables : Member(r)) /\ UNCHANGED <<pastVars, about>>
Resumes(r) == about = "batch" /\ ResumeAlone(r) /\ UNCHANGED <<pastVars, about>>

ASSUME MCAssumption == P!PastReleasesAssumption

TagsAreRecorded == P!TagsAreRecorded

MCInit ==
    /\ Init /\ P!Init
    /\ \/ about = "past"
       \/ about = "batch" /\ packages = {"npm"}
MCNext ==
    \/ about = "batch" /\ Next /\ UNCHANGED <<pastVars, about>>
    \/ about = "past" /\ P!Next /\ UNCHANGED <<vars, about>>
MCSpec ==
    /\ MCInit /\ [][MCNext]_all
    /\ WF_all(Goes)
    /\ \A r \in Releasables : WF_all(Resumes(r))
=============================================================================
