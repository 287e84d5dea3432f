----------------------------- MODULE MCAppStorage -----------------------------
(***************************************************************************)
(* Three updates after the first release, two writes, and three troubles.  *)
(***************************************************************************)
EXTENDS AppStorage

\* What the properties are about. An app that is out of luck stays so, and so do
\* releases that differ (LuckStep and FormStep of AppStorageProofs): no state that
\* the properties say something of is behind one that they do not.
InScope == lucky /\ Steady
================================================================================
