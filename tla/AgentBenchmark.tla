--------------------------- MODULE AgentBenchmark ---------------------------
(***************************************************************************)
(* scripts/agent-benchmark.py: sessions of an agent whose context grows    *)
(* from turn to turn, measured over a streaming API.  A turn is a request  *)
(* and then one step per data line of the streamed answer, and the clock   *)
(* of a turn counts these lines.  All other lines are skipped and are no   *)
(* step at all, but like every byte they start the 600 s of sock_read      *)
(* anew: a stream ends, falls silent, or goes on, and no limit (total=None *)
(* in 1177) ends one that goes on.                                         *)
(*                                                                         *)
(* Texts are abstracted to what makes prompts differ: the turn and the     *)
(* seed that they are made from, and whether a reply has text, which is    *)
(* cut to 500 characters on its way into the history.  Of the figures of a *)
(* turn its result keeps the TTFT; the summary treats the others alike.    *)
(***************************************************************************)
EXTENDS InferenceServer

CONSTANTS
    Rounds, TurnsPerRound,  \* --rounds, --turns-per-round
    MaxLines                \* bounds the data lines of an answer: a server that
                            \* honours max_tokens (128)

ASSUME AgentAssumption == {Rounds, TurnsPerRound, MaxLines} \subseteq Nat \ {0}

VARIABLES
    args,       \* --provider and --cache-mode
    pc,         \* where run_benchmark is
    round, turn, history,
    prompt,     \* the messages of the session's last request
    reused,     \* how many of them the server had cached
    resp,       \* the locals of measure_turn_*
    results     \* BenchmarkResults.results

agentVars == <<args, pc, round, turn, history, prompt, reused, resp, results>>

----------------------------------------------------------------------------
\* The text the client puts together, or its stand-in for none.
ResponseText == IF resp.latencies = <<>> THEN "(no output)" ELSE "reply"

\* response_text[:500]
Cut(text) == IF text = "reply" THEN "reply[:500]" ELSE text

Task == <<"task", turn>>

MutSystem == IF args.mode = "miss" THEN <<"system", round>> ELSE <<"system">>

\* In miss mode the system prompt begins with a nonce.
System == IF args.mode = "miss" THEN <<"system", round, turn>> ELSE <<"system">>

\* generate_tool_result: the seed only chooses among eight templates.
ToolResult ==
    IF turn + 1 = TurnsPerRound THEN <<"tool">>
    ELSE <<"tool", (round * 100 + turn) % 8>>

MutExchange == <<<<"assistant", Cut(ResponseText)>>, ToolResult>>

\* What a turn leaves in the history.
Exchange == <<Task, <<"assistant", Cut(ResponseText)>>, ToolResult>>

Messages == <<System>> \o history \o <<Task>>

\* The locals before the first line: `first` is 0 until a line was parsed.
Asked(rejected) ==
    [rejected |-> rejected, clock |-> 0, first |-> 0, last |-> 0,
     latencies |-> <<>>]

\* "openai" is "llamacpp" without the warm-up.
Providers == {"ollama", "llamacpp"}

AgentInit ==
    /\ args \in [provider : Providers, mode : {"hit", "miss"}]
    /\ pc = IF args.provider = "llamacpp" THEN "warmup" ELSE "next"
    /\ round = 0
    /\ turn = 0
    /\ history = <<>>
    /\ prompt = <<>>
    /\ reused = 0
    /\ resp = Asked(FALSE)
    /\ results = <<>>

----------------------------------------------------------------------------
\* The unmetered request before the first round: it fails and is skipped, or it
\* is answered.
WarmUp ==
    /\ pc = "warmup"
    /\ pc' = "next"
    /\ \/ UNCHANGED serverVars
       \/ Admits /\ Remember(<<<<"warmup">>>>) /\ UNCHANGED busy
    /\ UNCHANGED <<args, round, turn, history, prompt, reused, resp, results>>

\* The server takes the request, or rejects it for its length, say.
Ask(rejected) ==
    /\ pc = "next"
    /\ pc' = "stream"
    /\ prompt' = Messages
    /\ resp' = Asked(rejected)
    /\ IF rejected
         THEN reused' = 0 /\ UNCHANGED serverVars
         ELSE reused' = Reuse(prompt') /\ Prefill(prompt')
    /\ UNCHANGED <<args, round, turn, history, results>>

MutTokenRead(now, r) == [r EXCEPT !.latencies = Append(@, now - r.last)]

\* A chunk with text, of whichever kind (content, tool call, reasoning).
TokenRead(now, r) ==
    [r EXCEPT !.latencies = Append(@, now - r.last), !.last = now]

\* A chunk without text (role, usage, error) stops the TTFT clock alone.
Read(kind, now) ==
    LET seen == [resp EXCEPT !.first = IF @ = 0 THEN now ELSE @, !.clock = now]
    IN  resp' = IF kind = "text" THEN TokenRead(now, seen) ELSE seen

\* A data line, of which an answer has at most MaxLines.
Line ==
    /\ pc = "stream"
    /\ resp.clock < MaxLines
    /\ UNCHANGED <<args, pc, round, turn, history, prompt, reused, results,
                   serverVars>>

\* The status is not looked at: an error body is a chunk without text.
OllamaLine(kind) ==
    /\ Line
    /\ args.provider = "ollama"
    /\ resp.rejected => kind = "chunk"
    /\ Read(kind, resp.clock + 1)

\* The body of an error is only collected.
OpenAiLine(kind) ==
    /\ Line
    /\ args.provider # "ollama"
    /\ IF resp.rejected
         THEN kind = "chunk" /\ resp' = [resp EXCEPT !.clock = @ + 1]
         ELSE Read(kind, resp.clock + 1)

----------------------------------------------------------------------------
Ttft == IF resp.first = 0 THEN resp.clock ELSE resp.first

\* measure_turn_openai_compat finds the status of an error.  The message of its
\* body is taken not to be empty, as an empty one ({"error": ""}) is no error.
Refused == resp.rejected /\ args.provider # "ollama"

TurnResult ==
    [ttft |-> IF Refused THEN resp.clock ELSE Ttft,
     error |-> Refused,
     rejected |-> resp.rejected]    \* what the server did, unknown to the code

ServerEnds ==
    IF resp.rejected THEN UNCHANGED serverVars
    ELSE Generated(prompt, <<"assistant", ResponseText>>)

\* The locals of measure_turn_* are gone.
MeasureReturns == reused' = 0 /\ resp' = Asked(FALSE)

\* The answer ends: [DONE], "done", or the end of the body.
EndTurn ==
    /\ pc = "stream"
    /\ ~Refused
    /\ results' = Append(results, TurnResult)
    /\ ServerEnds
    /\ IF turn + 1 < TurnsPerRound
         THEN /\ turn' = turn + 1
              /\ history' = history \o Exchange
              /\ UNCHANGED <<round, prompt>>
         ELSE /\ turn' = 0
              /\ history' = <<>>
              /\ round' = round + 1
              /\ prompt' = <<>>
    /\ pc' = IF turn + 1 = TurnsPerRound /\ round + 1 = Rounds THEN "done" ELSE "next"
    /\ MeasureReturns
    /\ UNCHANGED args

MutEndRefused ==
    /\ pc = "stream"
    /\ Refused
    /\ results' = Append(results, TurnResult)
    /\ pc' = "next"
    /\ MeasureReturns
    /\ UNCHANGED <<args, round, turn, history, prompt, serverVars>>

\* "Stop the whole benchmark on a server rejection."
EndRefused ==
    /\ pc = "stream"
    /\ Refused
    /\ results' = Append(results, TurnResult)
    /\ pc' = "done"
    /\ MeasureReturns
    /\ UNCHANGED <<args, round, turn, history, prompt, serverVars>>

\* What the run has measured is lost.
Lost ==
    /\ results' = <<>>
    /\ round' = 0
    /\ turn' = 0
    /\ history' = <<>>
    /\ UNCHANGED args

\* The process ends with the exception; the connection of an answer is closed.
Dies ==
    /\ pc' = "died"
    /\ Lost
    /\ prompt' = <<>>
    /\ MeasureReturns
    /\ IF pc # "next" /\ ~resp.rejected THEN Abandon(prompt) ELSE UNCHANGED serverVars

\* The connection fails.
AgentDies ==
    /\ pc \in {"next", "stream"}
    /\ Dies

\* The server will not send another byte of this answer, nor end it.  The run
\* waits for nothing but its time-out, and nothing it has measured is read again.
Silence ==
    /\ pc = "stream"
    /\ pc' = "silent"
    /\ Lost
    /\ reused' = 0
    /\ resp' = Asked(resp.rejected)
    /\ UNCHANGED <<prompt, serverVars>>

MutTimeOut == FALSE

\* sock_read: 600 s without a byte.
TimeOut ==
    /\ pc = "silent"
    /\ Dies

\* _extract_error_message: the body of the error is JSON, but no object.
ErrorBodyRaises ==
    /\ pc = "stream"
    /\ Refused
    /\ Dies

AgentNext ==
    \/ WarmUp
    \/ \E rejected \in BOOLEAN : Ask(rejected)
    \/ \E kind \in {"chunk", "text"} : OllamaLine(kind) \/ OpenAiLine(kind)
    \/ EndTurn
    \/ EndRefused
    \/ AgentDies
    \/ Silence
    \/ TimeOut
    \/ ErrorBodyRaises

----------------------------------------------------------------------------
(* BenchmarkResults.summary                                                *)

Below(vals, v) == Cardinality({i \in DOMAIN vals : vals[i] < v})

UpTo(vals, v) == Cardinality({i \in DOMAIN vals : vals[i] <= v})

MutSorted(vals) == vals

\* sorted: fewer than k values are below the k-th one, and at least k up to it.
Sorted(vals) ==
    [k \in DOMAIN vals |->
        CHOOSE v \in ToSet(vals) : Below(vals, v) < k /\ k <= UpTo(vals, v)]

\* pct: the element at int(len * q) of the sorted list, counted from 0.
Percentile(vals, q) == Sorted(vals)[(Len(vals) * q) \div 100 + 1]

\* Twice statistics.median, which may lie between two elements.
TwiceMedian(vals) ==
    Sorted(vals)[(Len(vals) + 1) \div 2] + Sorted(vals)[Len(vals) \div 2 + 1]

AllTtft == [i \in DOMAIN results |-> results[i].ttft]

\* The lists of the other figures are summarised in the same way.
Summary == [p50x2 |-> TwiceMedian(AllTtft), p95 |-> Percentile(AllTtft, 95)]

----------------------------------------------------------------------------
\* With --cache-mode hit the request of a turn begins with the whole request of
\* the turn before it, so that a server that still has that one evaluates only
\* what is new (run_benchmark 1242-1248).
TurnsReuseThePrefix ==
    [][(pc = "next" /\ pc' = "stream" /\ args.mode = "hit" /\ turn > 0
           /\ ~resp'.rejected /\ Keeps(prompt))
          => reused' >= Len(prompt)]_agentVars

\* With --cache-mode miss no request of a run finds any of its prompt cached,
\* whatever other requests of the run the server remembers (1208-1210).
MissNeverReuses == args.mode = "miss" => reused = 0

\* A server's rejection ends the run, and its turn is the last one reported
\* (1219-1226): not so with Ollama, whose status nobody reads.
RejectionEndsRun ==
    args.provider # "ollama" =>
       \A i \in DOMAIN results :
          results[i].rejected => i = Len(results) /\ pc = "done"

\* The token latencies of a turn never add up to more than the turn has taken,
\* and no token came before the time to first token (1041-1122).
TurnTimesFit ==
    /\ FoldLeft(+, 0, resp.latencies) <= resp.clock
    /\ resp.latencies # <<>> => resp.first \in 1..Head(resp.latencies)

\* The p95 of a summary is one of the measured values, at least as high as its
\* median and as 95 % of the values (summary 100-123).
PercentilesBracket ==
    results # <<>> =>
       LET summary == Summary
       IN  /\ summary.p95 \in ToSet(AllTtft)
           /\ 2 * summary.p95 >= summary.p50x2
           /\ 100 * UpTo(AllTtft, summary.p95) >= 95 * Len(AllTtft)

\* How many more steps a run can take: for each turn that is left its request,
\* its data lines, its end or silence, and the time-out.
AgentWork ==
    LET turns == (Rounds - round) * TurnsPerRound - turn
        work  == turns * (MaxLines + 3)
    IN  CASE pc = "warmup" -> work + 1
          [] pc = "next"   -> work
          [] pc = "stream" -> work - 1 - resp.clock
          [] pc = "silent" -> 1
          [] OTHER         -> 0

\* Whatever a server answers that honours max_tokens, each step brings the run
\* nearer to its end: no turn is measured twice and no round begins again,
\* rejected or not (1203-1251).
AgentIsBounded == [][AgentWork' \in 0..(AgentWork - 1)]_agentVars

\* A run ends, also when the server stops answering (sock_read, 1177), unless one
\* of its streams goes on for ever: then it waits as long.
AgentEnds == <>(pc \in {"done", "died"}) \/ <>[](pc = "stream")
=============================================================================
