-------------------------- MODULE MCUpdateTransaction --------------------------
(***************************************************************************)
(* Instances of UpdateTransaction. One update of an app with two services  *)
(* shows what a call that stops half-way leaves; two updates of an app     *)
(* with one service show what a failed one does to the next.               *)
(***************************************************************************)
EXTENDS UpdateTransaction

CONSTANTS r1, r2

OneRelease == {r1}
TwoReleases == {r1, r2}
================================================================================
