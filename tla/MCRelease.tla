----------------------------- MODULE MCRelease -----------------------------
(* Model values and fault sets for checking Release. *)
EXTENDS Release
CONSTANTS t1, t2

OneTag == {t1}
TwoTags == {t1, t2}

AllForeign == {"work", "aside"}
NoForeign == {}

\* Pushes that fail and processes that die; and those with everything else
\* that fails, except a crash between the two halves of a discard.
PushFaults == {"push-fail", "push-timeout", "ci-refusal", "edited", "origin"}
CrashFaults == PushFaults \cup {"crash"}
MostFaults == CrashFaults \cup {"step-error", "hook", "lost-report", "stray-tag"}
Crashes == {"crash"}
=============================================================================
