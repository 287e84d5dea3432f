---------------------------- MODULE OperationStatus ----------------------------
(***************************************************************************)
(* The status vocabulary of a row of app_operations, shared by every       *)
(* module that reads or writes one.                                        *)
(***************************************************************************)

\* The statuses under which an operation owns its app: the list repeated in
\* the partial unique index idx_app_operations_one_active and in the WHERE
\* clause of every statement that may only touch a live operation.
ActiveStatuses ==
    {"preflighting", "building", "backing_up", "cutting_over", "verifying",
     "rolling_back"}

\* The statuses a finished operation is left in.
TerminalStatuses ==
    {"completed", "failed", "rolled_back", "rollback_failed", "cancelled",
     "interrupted"}

\* The status the update transaction announces after each one. Nothing ever
\* announces "rolling_back".
NextStatus ==
    [ preflighting |-> "building",
      building     |-> "backing_up",
      backing_up   |-> "cutting_over",
      cutting_over |-> "verifying" ]

\* The outcomes a worker itself may report; "interrupted" is written only by
\* the service when it starts, "cancelled" by nobody.
WorkerOutcomes == {"completed", "failed", "rolled_back", "rollback_failed"}
================================================================================
