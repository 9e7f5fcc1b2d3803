------------------------------- MODULE MCJobs -------------------------------
(***************************************************************************)
(* Finite values for the constants of Jobs.                                *)
(***************************************************************************)
EXTENDS Jobs

CONSTANTS r1, r2
=============================================================================
