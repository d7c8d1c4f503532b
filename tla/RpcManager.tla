----------------------------- MODULE RpcManager -----------------------------
(***************************************************************************)
(* The engine's RPC endpoints (rpc/mod.rs): check_all_endpoints probes     *)
(* them one after the other every thirty seconds, and get_client chooses   *)
(* one for every request to the chain.                                     *)
(***************************************************************************)
EXTENDS Naturals, FiniteSets, FiniteSetsExt

CONSTANTS
    Endpoints,   \* the configured endpoints, numbered from 1
    Priority,    \* [1 .. Endpoints -> Nat]: 1 is served before 2
    Latencies,   \* latency_ms as a probe may measure it
    Callers,     \* tasks that need a client
    MaxTurns     \* bound: nodes that go down or come up

Endpoint == 1 .. Endpoints

ASSUME EndpointAssumption ==
    /\ Endpoints \in Nat \ {0}
    /\ Priority \in [Endpoint -> Nat]
    /\ Latencies \subseteq Nat /\ 0 \in Latencies
    /\ MaxTurns \in Nat

VARIABLES
    up,            \* the endpoints that answer
    healthy,       \* the endpoints with is_healthy
    latency,       \* [Endpoint -> Latencies]: latency_ms
    probing,       \* the endpoint whose answer check_all_endpoints awaits, with the write
                   \* lock held; 0: no round is under way
    client,        \* [Callers -> Endpoint \cup {0}]: the client a caller got; 0: none yet
    turns,
    round,         \* history variable: the endpoints that answered in the round under way ...
    lastRound      \* history variable: ... and in the latest whole round (at first, all)

rpcVars == <<up, healthy, latency, probing, client, turns, round, lastRound>>

RpcTypeOK ==
    /\ {up, healthy, round, lastRound} \subseteq SUBSET Endpoint
    /\ latency \in [Endpoint -> Latencies]
    /\ probing \in 0 .. Endpoints
    /\ client \in [Callers -> 0 .. Endpoints]
    /\ turns \in 0 .. MaxTurns

------------------------------------------------------------------------------
\* A node goes down or comes up.
NodeTurns(e) ==
    /\ turns < MaxTurns
    /\ turns' = turns + 1
    /\ up' = IF e \in up THEN up \ {e} ELSE up \cup {e}
    /\ UNCHANGED <<healthy, latency, probing, client, round, lastRound>>

\* The interval ticks: check_all_endpoints takes the lock for writing.
Tick ==
    /\ probing = 0
    /\ probing' = 1
    /\ round' = {}
    /\ UNCHANGED <<up, healthy, latency, client, turns, lastRound>>

NextProbe == (probing + 1) % (Endpoints + 1)

\* get_slot answers, or fails; after the last endpoint the lock is released.
Probe ==
    /\ probing # 0
    /\ IF probing \in up
         THEN /\ healthy' = healthy \cup {probing}
              /\ \E ms \in Latencies : latency' = [latency EXCEPT ![probing] = ms]
              /\ round' = round \cup {probing}
         ELSE /\ healthy' = healthy \ {probing}
              /\ UNCHANGED <<latency, round>>
    /\ probing' = NextProbe
    /\ lastRound' = IF probing = Endpoints THEN round' ELSE lastRound
    /\ UNCHANGED <<up, client, turns>>

\* The healthy endpoints of the best priority, of these the fastest, of these
\* the first; the first of all when none is healthy.
Selected ==
    LET topTier == {e \in healthy : \A f \in healthy : Priority[e] <= Priority[f]}
        fastest == {e \in topTier : \A f \in topTier : latency[e] <= latency[f]}
    IN IF healthy = {} THEN 1 ELSE Min(fastest)

\* Mutant: the lock is released between two probes.
GetClientAnyTime(c) ==
    /\ client[c] = 0
    /\ client' = [client EXCEPT ![c] = Selected]
    /\ UNCHANGED <<up, healthy, latency, probing, turns, round, lastRound>>

\* get_client waits for the lock.
GetClient(c) ==
    /\ client[c] = 0
    /\ probing = 0
    /\ client' = [client EXCEPT ![c] = Selected]
    /\ UNCHANGED <<up, healthy, latency, probing, turns, round, lastRound>>

\* The caller is done with it.
DropClient(c) ==
    /\ client[c] # 0
    /\ client' = [client EXCEPT ![c] = 0]
    /\ UNCHANGED <<up, healthy, latency, probing, turns, round, lastRound>>

------------------------------------------------------------------------------
RpcInit ==
    /\ up \in SUBSET Endpoint
    /\ healthy = Endpoint
    /\ latency = [e \in Endpoint |-> 0]
    /\ probing = 0
    /\ client = [c \in Callers |-> 0]
    /\ turns = 0
    /\ round = {} /\ lastRound = Endpoint

RpcNext ==
    \/ Tick \/ Probe
    \/ \E e \in Endpoint : NodeTurns(e)
    \/ \E c \in Callers : GetClient(c) \/ DropClient(c)

RpcSpec == RpcInit /\ [][RpcNext]_rpcVars

------------------------------------------------------------------------------
(* Properties.                                                             *)

\* A client is chosen from the findings of one whole round of probes, never
\* from half of one and half of the next: an endpoint that did not answer in it
\* serves only if none did, and no endpoint that did had a better priority.
ChosenFromOneRound ==
    [][\A c \in Callers : client[c] = 0 /\ client'[c] # 0 =>
        /\ client'[c] \in lastRound \/ lastRound = {}
        /\ \A e \in lastRound : Priority[client'[c]] <= Priority[e] \/ lastRound = {}]_rpcVars
==============================================================================
