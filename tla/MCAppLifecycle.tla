----------------------------- MODULE MCAppLifecycle -----------------------------
(***************************************************************************)
(* One request to the service and one that may come from the command line, *)
(* two versions of the source, one crash.                                  *)
(***************************************************************************)
EXTENDS AppLifecycle, TLC

CONSTANTS t1, t2, v1, v2

MCTasks == {t1, t2}
OneCli == {t2}
NoCli == {}
MCVersions == {v1, v2}
VersionSymmetry == Permutations(MCVersions)

\* States of which a property says something, or may do so later: somebody has been
\* alone, or somebody may still begin.
InScope ==
    \/ sole # None
    \/ \E t \in Tasks : pc[t] = "idle"
    \/ crashes < MaxCrashes \/ ~up
================================================================================
