----------------------------- MODULE MCSelfUpdate -----------------------------
(***************************************************************************)
(* Three releases, the second of which does not come up; the third is a    *)
(* fix of an older line. Two commands.                                     *)
(***************************************************************************)
EXTENDS SelfUpdate, TLC

CONSTANTS u1, u2

MCVersion == <<<<1, 9, 1>>, <<1, 10, 0>>, <<1, 9, 2>>>>
MCGood == {0, 1, 3}
MCUpdaters == {u1, u2}
UpdaterSymmetry == Permutations(MCUpdaters)
================================================================================
