------------------------------- MODULE DevLoop -------------------------------
(***************************************************************************)
(* `rapina dev` and `rapina test --watch`: a first build, a file watcher   *)
(* that starts after it, a debouncer that sends one message for a batch of *)
(* changes, and a loop that takes one message at a time, stops the server  *)
(* and builds and runs it again. Sources change at any time, also while a  *)
(* build reads them; the server may crash; Ctrl+C ends it all.             *)
(***************************************************************************)
EXTENDS Naturals

CONSTANT MaxEdits   \* bound on the changes a developer makes

ASSUME DevAssumption == MaxEdits \in Nat

VARIABLES
    mode,       \* "dev", "static" for dev without reload, "test" for test --watch
    version,    \* of the sources, counted in edits
    good,       \* versions that compile
    noticed,    \* the watcher saw a change the debouncer has not sent yet
    messages,   \* in the channel from the debouncer to the loop
    activity,   \* of the command: "idle" before it is started
    reads,      \* the version at the start of the build
    server,     \* the version of the last server (or test run), and its state
    server_crashed,
    running,    \* FALSE after Ctrl+C
    untold      \* history: a change no message or build has taken up since

devVars == <<mode, version, good, noticed, messages, activity, reads, server,
             server_crashed, running, untold>>

watching == activity \in {"loop", "rebuild", "check"}

\* The command starts, on sources that compile or do not.
Execute(m) ==
    /\ activity = "idle"
    /\ activity' = "first_build"
    /\ mode' = m
    /\ good' \in {{}, {0}}
    /\ UNCHANGED <<version, noticed, messages, reads, server, server_crashed, running, untold>>

\* A file is saved. The watcher sees .rs files under src, and under tests in
\* test mode, once it runs; of anything else, Cargo.toml say, it hears nothing.
Edit(seen) ==
    /\ activity # "idle"
    /\ version < MaxEdits
    /\ version' = version + 1
    /\ good' \in {good, good \cup {version + 1}}
    /\ noticed' = (noticed \/ (seen /\ watching))
    /\ untold' = ~(seen /\ watching)
    /\ UNCHANGED <<mode, messages, activity, reads, server, server_crashed, running>>

\* The debouncer's callback: one message however many files are in the batch.
Debounced ==
    /\ noticed
    /\ noticed' = FALSE
    /\ messages' = messages + 1
    /\ UNCHANGED <<mode, version, good, activity, reads, server, server_crashed, running, untold>>

\* The build started from the sources as they are, changes nobody saw included.
StartBuild ==
    /\ reads' = version
    /\ untold' = FALSE

\* kill and wait; a server that has ended keeps its status.
Killed ==
    IF mode = "test" \/ server.state # "running" THEN server
    ELSE [server EXCEPT !.state = "failed"]

\* A turn of the loop: recv_timeout brings one message, the server is killed
\* and the build begins; or it brings none.
Turn ==
    /\ activity = "loop" /\ running
    /\ \/ /\ messages > 0
          /\ messages' = messages - 1
          /\ server' = Killed
          /\ activity' = "rebuild"
          /\ StartBuild
       \/ /\ messages = 0
          /\ activity' = "check"
          /\ UNCHANGED <<messages, server, reads, untold>>
    /\ UNCHANGED <<mode, version, good, noticed, server_crashed, running>>

Building == activity \in {"first_build", "rebuild"}

\* What cargo reads may be as old as the start of the build or as new as now.
Compiled(v) == v \in reads .. version

\* Where the command goes after a build: `?` ends it if the first one failed.
AfterBuild(ok) ==
    activity' = CASE activity = "rebuild" -> "check"
              [] activity = "first_build" /\ mode = "test" -> "watch"
              [] activity = "first_build" /\ ok /\ mode = "dev" -> "watch"
              [] activity = "first_build" /\ ok /\ mode = "static" -> "wait"
              [] activity = "first_build" /\ ~ok /\ mode # "test" -> "exit"

\* Mutant: after the build the loop throws away the messages of changes it
\* takes for built.
BuiltDrained(v) ==
    /\ Building
    /\ Compiled(v)
    /\ v \in good \/ mode = "test"
    /\ server' = [version |-> v, state |-> "running"]
    /\ server_crashed' = FALSE
    /\ messages' = 0
    /\ AfterBuild(TRUE)
    /\ UNCHANGED <<mode, version, good, noticed, reads, running, untold>>

\* build_and_run starts the new server; run_tests ends, with whatever result.
Built(v) ==
    /\ Building
    /\ Compiled(v)
    /\ v \in good \/ mode = "test"
    /\ server' = [version |-> v, state |-> "running"]
    /\ server_crashed' = FALSE
    /\ AfterBuild(TRUE)
    /\ UNCHANGED <<mode, version, good, noticed, messages, reads, running, untold>>

\* The sources do not compile; or cargo or the server cannot be started, or
\* the Ctrl+C reaches cargo too, and nothing will tell the loop to try again.
BuildFails(v) ==
    /\ Building
    /\ Compiled(v)
    /\ untold' = (untold \/ v \in good \/ mode = "test")
    /\ AfterBuild(FALSE)
    /\ UNCHANGED <<mode, version, good, noticed, messages, reads, server,
                   server_crashed, running>>

\* new_debouncer and watch(), after the first build.
Watch ==
    /\ activity = "watch"
    /\ activity' = "loop"
    /\ UNCHANGED <<mode, version, good, noticed, messages, reads, server,
                   server_crashed, running, untold>>

\* try_wait at the end of a turn: a server that ended badly is reported once,
\* the one that was killed before a failed build included, and not restarted.
Check ==
    /\ activity = "check"
    /\ server_crashed' = (server_crashed \/ server.state = "failed")
    /\ activity' = "loop"
    /\ UNCHANGED <<mode, version, good, noticed, messages, reads, server, running, untold>>

\* The server ends by itself, badly or well.
ServerEnds(state) ==
    /\ mode # "test"
    /\ server.state = "running"
    /\ server' = [server EXCEPT !.state = state]
    /\ UNCHANGED <<mode, version, good, noticed, messages, activity, reads,
                   server_crashed, running, untold>>

CtrlC ==
    /\ running /\ activity # "idle"
    /\ running' = FALSE
    /\ UNCHANGED <<mode, version, good, noticed, messages, activity, reads, server,
                   server_crashed, untold>>

\* The command ends: after Ctrl+C, and without reload together with the server.
Leave ==
    /\ \/ activity = "loop" /\ ~running
       \/ activity = "wait" /\ (~running \/ server.state # "running")
    /\ activity' = "exit"
    /\ server' = Killed
    /\ UNCHANGED <<mode, version, good, noticed, messages, reads, server_crashed,
                   running, untold>>

DevInit ==
    /\ mode = "dev"
    /\ version = 0
    /\ good = {}
    /\ noticed = FALSE
    /\ messages = 0
    /\ activity = "idle"
    /\ reads = 0
    /\ server = [version |-> 0, state |-> "none"]
    /\ server_crashed = FALSE
    /\ running = TRUE
    /\ untold = FALSE

DevNext ==
    \/ \E m \in {"dev", "static", "test"} : Execute(m)
    \/ \E seen \in BOOLEAN : Edit(seen)
    \/ Debounced \/ Turn \/ Watch \/ Check \/ CtrlC \/ Leave
    \/ \E v \in 0 .. MaxEdits : Built(v) \/ BuildFails(v)
    \/ \E state \in {"failed", "ended"} : ServerEnds(state)

\* Builds end, the debouncer's timer fires and the loop turns.
DevFairness ==
    /\ WF_devVars(Debounced) /\ WF_devVars(Turn) /\ WF_devVars(Watch)
    /\ WF_devVars(Check) /\ WF_devVars(Leave)
    /\ WF_devVars(\E v \in 0 .. MaxEdits : Built(v) \/ BuildFails(v))

DevSpec == DevInit /\ [][DevNext]_devVars

-----------------------------------------------------------------------------

\* The developer ends up with a server of the last version, if that compiles
\* (or with a test run of it): no save is lost between the channel, the
\* debouncer and a build under way. The exceptions are what nobody is told: a
\* save before the watcher starts, a file it does not watch, a build that
\* failed although the sources compile.
CatchesUp ==
    <>[](activity \notin {"idle", "exit"} /\ mode # "static" /\ ~untold /\ (version \in good \/ mode = "test"))
        => <>[](server.state # "none" /\ server.version = version)

=============================================================================
