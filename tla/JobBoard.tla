----------------------------- MODULE JobBoard -----------------------------
(***************************************************************************)
(* What a job queue with workers promises, whatever threads call it: jobs  *)
(* are numbered in the order they are admitted, and each one is started at *)
(* most once, in that order, or cancelled before it starts, never both,    *)
(* and its end is handed out exactly once.                                 *)
(***************************************************************************)
EXTENDS Naturals

CONSTANT MaxJobs      \* bound: jobs ever admitted
VARIABLE status       \* where each job is

Jobs == 1 .. MaxJobs

Init == status = [j \in Jobs |-> "new"]

Admit(j) ==
    /\ status[j] = "new" /\ \A k \in Jobs : k < j => status[k] # "new"
    /\ status' = [status EXCEPT ![j] = "pending"]

Start(j) ==
    /\ status[j] = "pending" /\ \A k \in Jobs : k < j => status[k] # "pending"
    /\ status' = [status EXCEPT ![j] = "running"]

Finish(j) == status[j] = "running" /\ status' = [status EXCEPT ![j] = "done"]

Withdraw(j) == status[j] = "pending" /\ status' = [status EXCEPT ![j] = "cancelled"]

\* Everything that has ended so far is handed out.
Ended == {"done", "cancelled"}
Collect == status' = [j \in Jobs |-> IF status[j] \in Ended THEN "collected" ELSE status[j]]

Next == (\E j \in Jobs : Admit(j) \/ Start(j) \/ Finish(j) \/ Withdraw(j)) \/ Collect

Spec == Init /\ [][Next]_status

============================================================================
