----------------------------- MODULE MCAppRegistry -----------------------------
(***************************************************************************)
(* Two apps, two names, two domains; two requests at a time.               *)
(***************************************************************************)
EXTENDS AppRegistry, TLC

CONSTANTS a1, a2, n1, n2, d1, d2, w1, w2

MCApps == {a1, a2}
MCNames == {n1, n2}
MCDomains == {d1, d2}
OneDomain == {d1}
MCWorkers == {w1, w2}
OneWorker == {w1}
RegistrySymmetry ==
    Permutations(MCApps) \cup Permutations(MCNames) \cup Permutations(MCDomains)
        \cup Permutations(MCWorkers)
================================================================================
