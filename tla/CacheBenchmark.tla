--------------------------- MODULE CacheBenchmark ---------------------------
(***************************************************************************)
(* scripts/benchmark-agentic-cache.py: rounds of two turns, of which the   *)
(* second repeats the first and so shows, by the figures that the server   *)
(* reports with its answer, whether the server keeps prompts.  The three   *)
(* HTTP clients the script can use run the same code.  Of the metrics only *)
(* cache_n is kept, the one the verdict is about.                          *)
(*                                                                         *)
(* An answer is read line by line, and the script does nothing but collect *)
(* them: these are no steps.  The 120 s limit is one on each read, so that *)
(* an answer ends, falls silent, or goes on, and then for as long as it    *)
(* does the script waits.                                                  *)
(***************************************************************************)
EXTENDS InferenceServer

CONSTANT CacheRounds    \* --rounds

ASSUME CacheAssumption == CacheRounds \in Nat \ {0}

VARIABLES
    figures,    \* what the answers say of cached tokens
    at,         \* where run_agentic_benchmark is
    request,    \* the messages of the last request
    found,      \* how much of it the server counts as cached
    kept,       \* whether the server still had turn 1 when turn 2 was asked
    rounds      \* benchmark_rounds

cacheVars == <<figures, at, request, found, kept, rounds>>

----------------------------------------------------------------------------
\* "cached": the timings of llama-server have cache_n, or the usage of an
\* answer that is not streamed has prompt_tokens_details.  "template": so too, and
\* the count has the tokens with which the chat template begins every prompt.
\* "absent": neither (halogen; or the usage of a stream, which
\* send_chat_completion does not ask for).
Figures == {"cached", "template", "absent"}

CacheInit ==
    /\ figures \in Figures
    /\ at = "turn1"
    /\ request = <<>>
    /\ found = 0
    /\ kept = FALSE
    /\ rounds = <<>>

Turn1 == <<<<"agent prompt">>, <<"disk usage">>>>

MutTurn2(content) ==
    <<<<"agent prompt", "new">>, <<"disk usage">>, <<"assistant", content>>, <<"filter">>>>

\* The second turn repeats the first byte for byte.
Turn2(content) == Turn1 \o <<<<"assistant", content>>, <<"filter">>>>

\* What send_chat_completion collects of a reply: not the reasoning of a model
\* that got no further.
Contents == {"text", ""}

\* extract_metrics: cache_n of the timings, else of the usage, else 0.
CacheN == IF figures = "absent" THEN 0 ELSE found

\* What any two prompts share, counted like one more message.
Template == IF figures = "template" /\ cached # {} THEN 1 ELSE 0

Send(messages) ==
    /\ request' = messages
    /\ found' = Reuse(messages) + Template
    /\ Prefill(messages)

SendTurn1 ==
    /\ at = "turn1"
    /\ at' = "wait1"
    /\ Send(Turn1)
    /\ UNCHANGED <<figures, kept, rounds>>

\* Turn 2 is asked at once, but other requests may come between.
Answer1(content) ==
    /\ at = "wait1"
    /\ at' = "turn2"
    /\ Generated(request, <<"assistant", "text">>)
    /\ request' = Turn2(content)
    /\ found' = 0
    /\ UNCHANGED <<figures, kept, rounds>>

SendTurn2 ==
    /\ at = "turn2"
    /\ at' = "wait2"
    /\ Send(request)
    /\ kept' = Keeps(Turn1)
    /\ UNCHANGED <<figures, rounds>>

RoundOver ==
    /\ request' = <<>>
    /\ found' = 0
    /\ kept' = FALSE
    /\ UNCHANGED figures

MutRetained == CacheN >= 0

\* cache_retained
Retained == CacheN > 0

MutAnswer2 ==
    /\ at = "wait2"
    /\ Generated(request, <<"assistant", "text">>)
    /\ rounds' = Append(rounds, [retained |-> Retained, kept |-> kept])
    /\ at' = IF Len(rounds) = CacheRounds THEN "done" ELSE "turn1"
    /\ RoundOver

Answer2 ==
    /\ at = "wait2"
    /\ Generated(request, <<"assistant", "text">>)
    /\ rounds' = Append(rounds, [retained |-> Retained, kept |-> kept])
    /\ at' = IF Len(rounds') = CacheRounds THEN "done" ELSE "turn1"
    /\ RoundOver

\* The process ends with the exception: no handler, no report.
Raises ==
    /\ at' = "died"
    /\ rounds' = <<>>
    /\ IF at \in {"turn1", "turn2"} THEN UNCHANGED serverVars ELSE Abandon(request)
    /\ RoundOver

\* An HTTP error status, a failed connection, or a null where extract_metrics
\* wants an object.
CacheDies ==
    /\ at \in {"turn1", "wait1", "turn2", "wait2"}
    /\ Raises

\* The server will not send another byte of this answer, nor end it.  The script
\* waits for nothing but its time-out, and nothing it has measured is read again.
CacheSilence ==
    /\ at \in {"wait1", "wait2"}
    /\ at' = "silent"
    /\ found' = 0
    /\ kept' = FALSE
    /\ rounds' = <<>>
    /\ UNCHANGED <<figures, request, serverVars>>

MutCacheTimeOut == FALSE

\* timeout=120.0: that long without a byte.
CacheTimeOut ==
    /\ at = "silent"
    /\ Raises

CacheNext ==
    \/ SendTurn1
    \/ \E content \in Contents : Answer1(content)
    \/ SendTurn2
    \/ Answer2
    \/ CacheDies
    \/ CacheSilence
    \/ CacheTimeOut

----------------------------------------------------------------------------
\* print_formatted_report: "VERIFICATION" or "ALERT", by the last round.
Verdict == Last(rounds).retained

\* The report says that prefix caching is functional (501-503) only if the server
\* still had all of turn 1 when it was asked turn 2, or counts the tokens of the
\* chat template as cached.
VerificationIsExplained ==
    at = "done" /\ Verdict => Last(rounds).kept \/ figures = "template"

\* It alerts only if the server had dropped turn 1 before it was asked turn 2,
\* for a request of another client, or reports no cached tokens (504-509).
AlertIsExplained ==
    at = "done" /\ ~Verdict => ~Last(rounds).kept \/ figures = "absent"

\* How many more steps the benchmark can take: four in each round that is left,
\* or a silence and the time-out.
CacheWork ==
    LET work == 5 * (CacheRounds - Len(rounds))
    IN  CASE at = "turn1"  -> work
          [] at = "wait1"  -> work - 1
          [] at = "turn2"  -> work - 2
          [] at = "wait2"  -> work - 3
          [] at = "silent" -> 1
          [] OTHER         -> 0

\* Each step brings the benchmark nearer to its end, whatever the server answers
\* (390-458).
CacheIsBounded == [][CacheWork' \in 0..(CacheWork - 1)]_cacheVars

\* The benchmark ends, also when the server stops answering (188), unless one of
\* the answers goes on for ever: then it waits as long.
CacheEnds == <>(at \in {"done", "died"}) \/ <>[](at \in {"wait1", "wait2"})
=============================================================================
