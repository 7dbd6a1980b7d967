------------------------------ MODULE JobQueue ------------------------------
(***************************************************************************)
(* What the job runner promises about each row, without dispatcher,        *)
(* channel, workers, leases or clocks: work is taken once, its outcome is  *)
(* final or a charged retry, and only work whose holder is gone may be     *)
(* given up or handed out again.  JobPool implements it.                   *)
(***************************************************************************)
EXTENDS Naturals

CONSTANTS Jobs, MaxAttempts

VARIABLES job,    \* job[j]: where the work is
          tries   \* tries[j]: retries charged to it

vars == <<job, tries>>

Init ==
    /\ job = [j \in Jobs |-> "none"]
    /\ tries = [j \in Jobs |-> 0]

Move(j, from, to) == job[j] = from /\ job' = [job EXCEPT ![j] = to]

Submit(j) == Move(j, "none", "pending") /\ UNCHANGED tries

Take(j) == Move(j, "pending", "held") /\ UNCHANGED tries

Finish(j) ==
    /\ Move(j, "held", "done") \/ Move(j, "held", "failed")
    /\ UNCHANGED tries

Retry(j) ==
    /\ Move(j, "held", "pending")
    /\ tries[j] + 1 < MaxAttempts
    /\ tries' = [tries EXCEPT ![j] = @ + 1]

(* The holder is gone and the outcome was not written.                     *)
Strand(j) == Move(j, "held", "stranded") /\ UNCHANGED tries

(* The process is gone with everything it held.                            *)
Crash ==
    /\ job' = [j \in Jobs |-> IF job[j] = "held" THEN "stranded" ELSE job[j]]
    /\ UNCHANGED tries

(* The next process gives stranded work up, hands it out or leaves it.     *)
Recover ==
    /\ \E S, T \in SUBSET {j \in Jobs : job[j] = "stranded"} :
          job' = [j \in Jobs |-> IF j \in S THEN "failed"
                                 ELSE IF j \in T THEN "pending" ELSE job[j]]
    /\ UNCHANGED tries

Next ==
    \/ \E j \in Jobs : Submit(j) \/ Take(j) \/ Finish(j) \/ Retry(j) \/ Strand(j)
    \/ Crash \/ Recover

Spec == Init /\ [][Next]_vars
=============================================================================
