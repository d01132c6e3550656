------------------------ MODULE MCSubmissionService ------------------------
(***************************************************************************)
(* A small instance of SubmissionService for TLC: ids that clash or not,   *)
(* and suites of two tests and of none.                                    *)
(***************************************************************************)
EXTENDS SubmissionService

PoolSizes  == <<2>>
SuiteSizes == <<2, 0>>
============================================================================
