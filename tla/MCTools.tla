------------------------------- MODULE MCTools -------------------------------
(* Instance of the processes for TLC: the server or the workers up to their *)
(* exit, the key cache of the JWKS client, the response cache in memory, a  *)
(* stream of events, rapina dev and rapina test. They share no state; a     *)
(* behaviour looks at one of them, and the others stay as they were.        *)
EXTENDS MCCache, Shutdown, Jwks, EventStream, DevLoop, TestRun

VARIABLE part

\* Outputs of up to four lines.
TestLines ==
    [to : {"out"}, text : {"ok", "FAILED", "garbled"}]
        \cup [to : {"err"}, text : {"other", "garbled"}]

Scripts == UNION {[1 .. n -> TestLines] : n \in 0 .. 4}

\* Events with line ends of all kinds, without data, and with empty data.
Plain == [data |-> <<"x">>, event |-> NoField, comment |-> NoField]

Long == [data |-> <<"x", "LF", "LF", "y", "CR", "LF">>, event |-> "n",
         comment |-> <<"x", "LF", "CR", "y">>]

Cut == [data |-> <<"x", "CR", "y">>, event |-> "n", comment |-> NoField]

Remark == [data |-> NoField, event |-> "n", comment |-> <<"x", "LF">>]

Blank == [data |-> <<>>, event |-> NoField, comment |-> NoField]

Outputs == {<<>>, <<Plain, Long>>, <<Cut, Remark, Blank>>, <<Long, Blank, Cut>>,
            <<Blank, Plain, Plain, Remark>>, <<Plain, Error>>, <<Error>>}

ToolsInit ==
    /\ part \in {"server", "jwks", "cache", "stream", "dev", "test"}
    /\ Init /\ JwksInit /\ CacheInit /\ StreamInit /\ DevInit /\ RunInit
    /\ part # "server" => phase = "none"

ToolsNext ==
    /\ \/ part = "server" /\ Next
          /\ UNCHANGED <<jwksVars, cacheVars, streamVars, devVars, runVars>>
       \/ part = "jwks" /\ JwksNext
          /\ UNCHANGED <<vars, cacheVars, streamVars, devVars, runVars>>
       \/ part = "cache" /\ CacheNext
          /\ UNCHANGED <<vars, jwksVars, streamVars, devVars, runVars>>
       \/ part = "stream" /\ StreamNext
          /\ UNCHANGED <<vars, jwksVars, cacheVars, devVars, runVars>>
       \/ part = "dev" /\ DevNext
          /\ UNCHANGED <<vars, jwksVars, cacheVars, streamVars, runVars>>
       \/ part = "test" /\ RunNext
          /\ UNCHANGED <<vars, jwksVars, cacheVars, streamVars, devVars>>
    /\ UNCHANGED part

\* The fairness of the modules. A server at rest may not be waited for.
ToolsFairness ==
    /\ \A w \in Worker : WF_vars(part = "server" /\ WorkerStep(w))
    /\ WF_vars(part = "server" /\ ServerStep)
    /\ CacheFairness /\ JwksFairness /\ StreamFairness /\ DevFairness /\ RunFairness

ToolsSpec ==
    /\ ToolsInit
    /\ [][ToolsNext]_<<vars, jwksVars, cacheVars, streamVars, devVars, runVars, part>>
    /\ ToolsFairness

=============================================================================
