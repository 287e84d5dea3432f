------------------------------ MODULE MCProgress ------------------------------
(***************************************************************************)
(* Two deployments, a line of output beside those of the stages, and       *)
(* limits of two lines, which these exceed.                                *)
(***************************************************************************)
EXTENDS Progress

\* The two pages do not meet: neither changes what the other reads, except for the
\* checklist. The page of a deployment starts anew with each. So it is enough that
\* one of them reads, and the page of a deployment in the first one.
OneReader == page = NoPage \/ (jobs = 1 /\ feed.seq = 0)
================================================================================
