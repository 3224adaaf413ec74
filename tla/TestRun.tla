------------------------------- MODULE TestRun -------------------------------
(***************************************************************************)
(* `rapina test` runs cargo with both outputs in pipes and reads the whole *)
(* of stdout, counting results, before it reads stderr and waits for the   *)
(* cargo. A pipe holds so many lines and no more: the child waits when one *)
(* is full, also for a reader that is at the other.                        *)
(***************************************************************************)
EXTENDS Naturals, SequencesExt

CONSTANTS
    Script,        \* what a run of cargo may print: sequences of Line
    PipeCapacity   \* lines a pipe holds

\* process_test_line tells results from the rest. A line that is not UTF-8 is
\* an error of lines(), which ends the reading of that pipe.
Line == [to : {"out", "err"}, text : {"ok", "FAILED", "ignored", "other", "garbled"}]

ASSUME RunAssumption ==
    /\ Script \subseteq Seq(Line)
    /\ PipeCapacity \in Nat \ {0}

VARIABLES
    script,    \* what the child prints in this run
    printed,   \* lines of it so far
    pipe,      \* what each pipe holds
    reader,    \* run_tests: "idle", reads "out", then "err", then "wait", "done"
    cargo,     \* "running", "success" or "failure"
    summary    \* TestSummary

runVars == <<script, printed, pipe, reader, cargo, summary>>

Result == {"ok", "FAILED", "ignored"}

\* The reading end of a pipe is dropped with the loop over its lines.
Open(to) == IF to = "out" THEN reader = "out" ELSE reader \in {"out", "err"}

\* The child prints a line if the pipe has room, and breaks if nobody reads it.
Prints ==
    /\ cargo = "running" /\ printed < Len(script)
    /\ LET line == script[printed + 1]
       IN  IF Open(line.to)
           THEN /\ Len(pipe[line.to]) < PipeCapacity
                /\ pipe' = [pipe EXCEPT ![line.to] = Append(@, line.text)]
                /\ printed' = printed + 1
                /\ UNCHANGED cargo
           ELSE /\ cargo' = "failure"
                /\ UNCHANGED <<pipe, printed>>
    /\ UNCHANGED <<script, reader, summary>>

FailedTests == \E i \in DOMAIN script : script[i].text = "FAILED"

\* run_tests spawns cargo.
Start ==
    /\ reader = "idle"
    /\ script' \in Script
    /\ reader' = "out"
    /\ cargo' = "running"
    /\ UNCHANGED <<printed, pipe, summary>>

Exit ==
    /\ cargo = "running" /\ printed = Len(script)
    /\ cargo' = IF FailedTests THEN "failure" ELSE "success"
    /\ UNCHANGED <<script, printed, pipe, reader, summary>>

\* process_test_line
Count(text) ==
    summary' = IF text \in Result THEN [summary EXCEPT ![text] = @ + 1] ELSE summary

\* One line of stdout; its end comes when the child has exited.
ReadOut ==
    /\ reader = "out"
    /\ \/ /\ pipe["out"] # <<>>
          /\ pipe' = [pipe EXCEPT !["out"] = Tail(@)]
          /\ Count(Head(pipe["out"]))
          /\ reader' = IF Head(pipe["out"]) = "garbled" THEN "err" ELSE "out"
       \/ /\ pipe["out"] = <<>> /\ cargo # "running"
          /\ reader' = "err"
          /\ UNCHANGED <<pipe, summary>>
    /\ UNCHANGED <<script, printed, cargo>>

ReadErr ==
    /\ reader = "err"
    /\ \/ /\ pipe["err"] # <<>>
          /\ pipe' = [pipe EXCEPT !["err"] = Tail(@)]
          /\ reader' = IF Head(pipe["err"]) = "garbled" THEN "wait" ELSE "err"
       \/ /\ pipe["err"] = <<>> /\ cargo # "running"
          /\ reader' = "wait"
          /\ UNCHANGED pipe
    /\ UNCHANGED <<script, printed, cargo, summary>>

\* Mutant: the run is over once its output is, whether the child has exited or not.
WaitDropped ==
    /\ reader = "wait"
    /\ reader' = "done"
    /\ UNCHANGED <<script, printed, pipe, cargo, summary>>

\* cargo.wait()
Wait ==
    /\ reader = "wait" /\ cargo # "running"
    /\ reader' = "done"
    /\ UNCHANGED <<script, printed, pipe, cargo, summary>>

RunInit ==
    /\ script = <<>>
    /\ printed = 0
    /\ pipe = [to \in {"out", "err"} |-> <<>>]
    /\ reader = "idle"
    /\ cargo = "success"
    /\ summary = [result \in Result |-> 0]

RunNext == Start \/ Prints \/ Exit \/ ReadOut \/ ReadErr \/ Wait

RunFairness ==
    /\ WF_runVars(Prints) /\ WF_runVars(Exit)
    /\ WF_runVars(ReadOut) /\ WF_runVars(ReadErr) /\ WF_runVars(Wait)

RunSpec == RunInit /\ [][RunNext]_runVars

-----------------------------------------------------------------------------

\* More on stderr than its pipe holds, before a line that ends the reading of
\* stdout: the reader waits for the child and the child for the reader.
Hangs ==
    \E i \in DOMAIN script :
        /\ Len(SelectSeq(SubSeq(script, 1, i), LAMBDA l : l.to = "err")) > PipeCapacity
        /\ \A k \in 1 .. i : script[k] # [to |-> "out", text |-> "garbled"]

\* Every line is UTF-8.
Readable == \A i \in DOMAIN script : script[i].text # "garbled"

\* A run of the tests comes to its end, unless cargo prints more on stderr
\* than a pipe holds, and then it never does. If all of it is readable the
\* counts are those of the results cargo printed, and the verdict is cargo's.
TestsEnd ==
    /\ <>[](reader \in {"idle", "done"} \/ Hangs)
    /\ [](Hangs => reader = "out")
    /\ [](reader = "done" => cargo # "running")
    /\ [](reader = "done" /\ Readable =>
             /\ \A r \in Result :
                   summary[r] = Len(SelectSeq(script, LAMBDA l : l.text = r /\ l.to = "out"))
             /\ cargo = IF FailedTests THEN "failure" ELSE "success")

=============================================================================
