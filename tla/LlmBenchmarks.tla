--------------------------- MODULE LlmBenchmarks ---------------------------
(***************************************************************************)
(* The two benchmarks at once against one server, as two people may run    *)
(* them: each is the "client contention" that benchmark-agentic-cache.py   *)
(* (509) warns of for the other.                                           *)
(***************************************************************************)
EXTENDS AgentBenchmark, CacheBenchmark

allVars == <<serverVars, agentVars, cacheVars>>

Init == ServerInit /\ AgentInit /\ CacheInit

Next ==
    \/ AgentNext /\ UNCHANGED cacheVars
    \/ CacheNext /\ UNCHANGED agentVars

\* The scripts run on and their time limits expire; the warm-up has one on its
\* whole answer (total=180).  The server owes nothing, not even an end of what it
\* streams, and no connection has to fail.
Spec ==
    /\ Init
    /\ [][Next]_allVars
    /\ WF_allVars((WarmUp \/ Ask(FALSE) \/ TimeOut) /\ UNCHANGED cacheVars)
    /\ WF_allVars((SendTurn1 \/ SendTurn2 \/ CacheTimeOut) /\ UNCHANGED agentVars)

----------------------------------------------------------------------------
TypeOK ==
    /\ Cardinality(cached) <= Slots
    /\ busy \subseteq cached
    /\ args.mode \in {"hit", "miss"}
    /\ pc \in {"warmup", "next", "stream", "silent", "done", "died"}
    /\ round \in 0..Rounds /\ turn \in 0..(TurnsPerRound - 1)
    /\ Len(history) = 3 * turn
    /\ reused \in 0..Len(prompt)
    /\ resp.clock \in 0..MaxLines
    /\ Len(results) <= Rounds * TurnsPerRound
    /\ figures \in Figures
    /\ at \in {"turn1", "wait1", "turn2", "wait2", "silent", "done", "died"}
    /\ found \in 0..(Len(request) + 1)
    /\ kept \in BOOLEAN
    /\ Len(rounds) <= CacheRounds
=============================================================================
