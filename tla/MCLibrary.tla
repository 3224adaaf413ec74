------------------------------ MODULE MCLibrary ------------------------------
(* Instance of the parts of the library that share no state, for TLC: the   *)
(* retries and the configuration of the job workers, the rate limit, the    *)
(* router, the pages and the middleware stack. A behaviour looks at one of  *)
(* them, and the others stay as they were at the start.                     *)
EXTENDS RetrySchedule, JobConfig, RateLimit, Router, Pagination, Pipeline

VARIABLE part

Rows == 1 .. 4

\* Two rows have one value of the cursor column.
Columns == <<1, 2, 2, 3>>

\* Patterns that share fronts, split nodes in a segment and beside a
\* parameter, and backtrack; one names a parameter twice, one ends in "/".
Patterns ==
    {<<"/">>, <<"/", "a">>, <<"/", ":x">>, <<"/", ":x", "/">>,
     <<"/", "a", "/", ":x">>, <<"/", "a", "b", "/", ":x">>, <<"/", ":x", "/", "a">>,
     <<"/", ":x", "/", ":y", "/", "b">>, <<"/", "a", "/", ":x", "/", "b">>,
     <<"/", ":y", "/", ":y">>}

Groups == {<<"/">>, <<"/", "a", "/">>}

Paths == {<<"/">> \o s : s \in UNION {[1 .. n -> {"a", "b", "/"}] : n \in 0 .. 4}}

\* A preflight, a traced request that is compressed, one that is refused.
RequestKinds ==
    {[options |-> TRUE, traced |-> FALSE, gzip |-> TRUE, over_limit |-> FALSE, allowed |-> TRUE],
     [options |-> FALSE, traced |-> TRUE, gzip |-> TRUE, over_limit |-> FALSE, allowed |-> TRUE],
     [options |-> FALSE, traced |-> FALSE, gzip |-> FALSE, over_limit |-> TRUE, allowed |-> FALSE]}

jobVars == <<scheduleVars, configVars>>
requestVars == <<rateVars, routerVars, pageVars, pipelineVars>>

LibraryInit ==
    /\ part \in {"schedule", "config", "rate", "router", "pages", "pipeline"}
    /\ ScheduleInit /\ ConfigInit /\ RateInit /\ RouterInit /\ PageInit
    /\ PipelineInit
    /\ part # "pages" => table = {}

LibraryNext ==
    /\ \/ part = "schedule" /\ ScheduleNext /\ UNCHANGED <<configVars, requestVars>>
       \/ part = "config" /\ ConfigNext /\ UNCHANGED <<scheduleVars, requestVars>>
       \/ part = "rate" /\ RateNext /\ UNCHANGED <<routerVars, pageVars, pipelineVars, jobVars>>
       \/ part = "router" /\ RouterNext /\ UNCHANGED <<rateVars, pageVars, pipelineVars, jobVars>>
       \/ part = "pages" /\ PageNext /\ UNCHANGED <<rateVars, routerVars, pipelineVars, jobVars>>
       \/ part = "pipeline" /\ PipelineNext /\ UNCHANGED <<rateVars, routerVars, pageVars, jobVars>>
    /\ UNCHANGED part

LibrarySpec == LibraryInit /\ [][LibraryNext]_<<jobVars, requestVars, part>>

=============================================================================
