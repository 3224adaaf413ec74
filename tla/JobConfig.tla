------------------------------ MODULE JobConfig ------------------------------
(***************************************************************************)
(* The builder of the workers' configuration, jobs/worker.rs: a sequence   *)
(* of calls on a JobConfig, then resolved_queues(), which gives each       *)
(* worker its settings.  The settings that a queue may override are all    *)
(* treated alike, so one of them (setting) stands for poll_interval,       *)
(* batch_size and job_timeout.                                             *)
(***************************************************************************)
EXTENDS Integers, Sequences, SequencesExt

CONSTANTS
    QueueName, \* non-empty queue names
    Value,     \* values of the setting
    Default,   \* the value JobConfig::default() starts with
    None,      \* an override that is not set
    MaxNames,  \* bound: names in one call
    MaxCalls   \* bound: builder calls

ASSUME ConfigAssumption ==
    /\ "default" \in QueueName
    /\ None \notin Value /\ Default \in Value
    /\ MaxNames \in Nat /\ MaxCalls \in Nat

VARIABLES
    queues,        \* the names subscribed to, in order
    queue_configs, \* the registered overrides, in order
    setting,       \* the global value
    calls,         \* calls made so far
    subscribed,    \* history: the names a reader of the calls expects workers for
    override       \* history: the last override given for each name

configVars == <<queues, queue_configs, setting, calls, subscribed, override>>

QueueConfig == [queue_name : QueueName, setting : Value \cup {None}]

\* Mutant: duplicates stay.
UniqueAll(names) == names

\* JobConfig::queues keeps the first of equal names.
Unique(names) ==
    LET unique[n \in 0 .. Len(names)] ==
            IF n = 0 THEN <<>>
            ELSE IF Contains(unique[n - 1], names[n]) THEN unique[n - 1]
            ELSE Append(unique[n - 1], names[n])
    IN  unique[Len(names)]

\* JobConfig::queues; an empty list panics, so the program never gets further.
Queues(names) ==
    /\ names # <<>>
    /\ queues' = Unique(names)
    /\ subscribed' = Range(names)
    /\ UNCHANGED <<queue_configs, setting, override>>

\* A second config for a name replaces the first one in its place.
Registered(configs, config) ==
    IF \E i \in DOMAIN configs : configs[i].queue_name = config.queue_name
    THEN [i \in DOMAIN configs |->
            IF configs[i].queue_name = config.queue_name THEN config ELSE configs[i]]
    ELSE Append(configs, config)

\* JobConfig::queue_configs for one config; a call with several is several calls.
QueueConfigs(config) ==
    /\ queues' = IF Contains(queues, config.queue_name) THEN queues
                 ELSE Append(queues, config.queue_name)
    /\ queue_configs' = Registered(queue_configs, config)
    /\ subscribed' = subscribed \cup {config.queue_name}
    /\ override' = [override EXCEPT ![config.queue_name] = config.setting]
    /\ UNCHANGED setting

\* JobConfig::poll_interval, batch_size and job_timeout.
SetGlobal(v) ==
    /\ setting' = v
    /\ UNCHANGED <<queues, queue_configs, subscribed, override>>

\* JobConfig::resolved_queues: one worker per entry of `queues`.
resolved_queues ==
    [i \in DOMAIN queues |->
        LET over == SelectInSeq(queue_configs, LAMBDA c : c.queue_name = queues[i])
        IN  [queue |-> queues[i],
             setting |-> IF over = 0 \/ queue_configs[over].setting = None THEN setting
                         ELSE queue_configs[over].setting]]

ConfigInit ==
    /\ queues = <<"default">>
    /\ queue_configs = <<>>
    /\ setting = Default
    /\ calls = 0
    /\ subscribed = {"default"}
    /\ override = [n \in QueueName |-> None]

ConfigNext ==
    /\ calls < MaxCalls
    /\ calls' = calls + 1
    /\ \/ \E names \in BoundedSeq(QueueName, MaxNames) : Queues(names)
       \/ \E config \in QueueConfig : QueueConfigs(config)
       \/ \E v \in Value : SetGlobal(v)

ConfigSpec == ConfigInit /\ [][ConfigNext]_configVars

\* Every subscribed queue has exactly one worker: two would run the jobs of a
\* queue meant for one at a time in parallel, none would leave them pending.
\* That worker has the last override given for its queue, whatever came
\* between, and the global value, set before or after, where there is none.
QueuesResolved ==
    /\ {resolved_queues[i].queue : i \in DOMAIN resolved_queues} = subscribed
    /\ \A i, k \in DOMAIN resolved_queues :
          resolved_queues[i].queue = resolved_queues[k].queue => i = k
    /\ \A i \in DOMAIN resolved_queues :
          LET w == resolved_queues[i]
          IN  w.setting = IF override[w.queue] = None THEN setting ELSE override[w.queue]

=============================================================================
