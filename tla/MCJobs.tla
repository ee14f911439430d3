------------------------------- MODULE MCJobs -------------------------------
(* The job service with one job of one target. *)
EXTENDS Jobs

CONSTANTS j1, t1

OneJob == {j1}
OneTarget == {t1}
=============================================================================
