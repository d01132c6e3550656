----------------------- MODULE MCExecutionScheduler -----------------------
(***************************************************************************)
(* A small instance of ExecutionScheduler for TLC: pools of two workers    *)
(* and of one, and ids of two bits with clock and process id shifted by 1, *)
(* so that the fields overlap and ids clash: the counter's values 1 and 5  *)
(* agree in both bits, and the fields of 2 cancel out, which gives the id  *)
(* 1, as 3 does.                                                           *)
(***************************************************************************)
EXTENDS ExecutionScheduler

OneReading == {2}
PoolSizes == <<2, 1>>
OneResult == {Outcome("Created", "RunnerFailure", "none", FALSE)}
============================================================================
