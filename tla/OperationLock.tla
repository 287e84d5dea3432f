----------------------------- MODULE OperationLock -----------------------------
(***************************************************************************)
(* What app_operations promises the rest of the program, with nothing said *)
(* of how: each app is a lock. An operation acquires the lock of one app,  *)
(* holds it, gives it up once, and is spent afterwards. Several locks may  *)
(* be given up in a single step, which is what a service start does.       *)
(***************************************************************************)
CONSTANTS
    Apps,       \* the installed apps
    Ops,        \* operation ids, each used at most once
    None        \* no operation, and not one of Ops

VARIABLES
    holder,     \* holder[a]: the operation that holds app a, or None
    spent       \* the operations that have given their app up

lockVars == <<holder, spent>>

LockInit ==
    /\ holder = [a \in Apps |-> None]
    /\ spent = {}

Held == {a \in Apps : holder[a] # None}

Acquire(a, o) ==
    /\ holder[a] = None
    /\ o \notin spent
    /\ \A b \in Apps : holder[b] # o
    /\ holder' = [holder EXCEPT ![a] = o]
    /\ UNCHANGED spent

Release(S) ==
    /\ S # {}
    /\ S \subseteq Held
    /\ holder' = [a \in Apps |-> IF a \in S THEN None ELSE holder[a]]
    /\ spent' = spent \cup {holder[a] : a \in S}

LockNext ==
    \/ \E a \in Apps, o \in Ops : Acquire(a, o)
    \/ \E S \in SUBSET Apps : Release(S)

LockSpec == LockInit /\ [][LockNext]_lockVars
================================================================================
