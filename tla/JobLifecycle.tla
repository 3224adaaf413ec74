---------------------------- MODULE JobLifecycle ----------------------------
(***************************************************************************)
(* What the job queue promises of each job, whoever works on it: the       *)
(* lifecycle of the crate documentation (pending, running, completed or    *)
(* failed, or back to pending), with the executions charged to it.         *)
(***************************************************************************)
EXTENDS Naturals

CONSTANTS Job

VARIABLES state, charged

Init == /\ state = [j \in Job |-> "unknown"]
        /\ charged = [j \in Job |-> 0]

\* A job appears once, when its transaction commits.
Submit(j) == /\ state[j] = "unknown"
             /\ state' = [state EXCEPT ![j] = "pending"]
             /\ UNCHANGED charged

\* One worker takes the jobs S, all pending, in one step.
Start(S) == /\ \A j \in S : state[j] = "pending"
            /\ state' = [j \in Job |-> IF j \in S THEN "running" ELSE state[j]]
            /\ UNCHANGED charged

\* A run ends well: not charged, and final.
Complete(j) == /\ state[j] = "running"
               /\ state' = [state EXCEPT ![j] = "completed"]
               /\ UNCHANGED charged

\* The runs of the jobs S end otherwise: each is charged one execution, and
\* the jobs are all given back or all given up.
GiveUp(S, outcome) ==
    /\ \A j \in S : state[j] = "running"
    /\ state' = [j \in Job |-> IF j \in S THEN outcome ELSE state[j]]
    /\ charged' = [j \in Job |-> IF j \in S THEN charged[j] + 1 ELSE charged[j]]

Next == \/ \E j \in Job : Submit(j) \/ Complete(j)
        \/ \E S \in SUBSET Job : \/ Start(S)
                                 \/ GiveUp(S, "pending")
                                 \/ GiveUp(S, "failed")

Spec == Init /\ [][Next]_<<state, charged>>
=============================================================================
