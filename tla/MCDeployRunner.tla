----------------------------- MODULE MCDeployRunner -----------------------------
(***************************************************************************)
(* Instances of DeployRunner: more jobs than workers and queue places, so  *)
(* that a submit has to wait.                                              *)
(***************************************************************************)
EXTENDS DeployRunner

CONSTANTS j1, j2, j3, w1, w2

MCJobs == {j1, j2, j3}
MCWorkers == {w1, w2}
================================================================================
