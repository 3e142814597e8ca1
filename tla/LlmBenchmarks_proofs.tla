------------------------ MODULE LlmBenchmarks_proofs ------------------------
(***************************************************************************)
(* Theorems about the two benchmarks beside each other, for any number of  *)
(* rounds and turns, any length of the answers and any size of the cache.  *)
(***************************************************************************)
EXTENDS LlmBenchmarks, AgentBenchmark_proofs

----------------------------------------------------------------------------
(* The prompt cache.                                                       *)

\* A prompt is a sequence of messages, which are themselves short sequences.
Words == {"system", "task", "tool", "assistant", "reply", "reply[:500]", "(no output)",
          "warmup", "agent prompt", "disk usage", "filter", "text", ""}

Message == Seq(Words \cup Nat)

\* What Reuse promises: it is the length of a prefix that some kept prompt
\* shares, and of no shorter one than the longest.
LEMMA ReuseIs ==
    ASSUME NEW p \in Seq(Message)
    PROVE  /\ Reuse(p) \in 0..Len(p)
           /\ Reuse(p) # 0 => \E s \in cached : IsPrefix(SubSeq(p, 1, Reuse(p)), s)
           /\ \A n \in 0..Len(p) :
                 (\E s \in cached : IsPrefix(SubSeq(p, 1, n), s)) => Reuse(p) >= n
<1> DEFINE S == {n \in 0..Len(p) : n = 0 \/ \E s \in cached : IsPrefix(SubSeq(p, 1, n), s)}
<1>1. Len(p) \in Nat /\ S \in SUBSET (0..Len(p)) /\ 0 \in S
  OBVIOUS
<1>2. Max(S) \in S /\ \A y \in S : Max(S) >= y
  <2> HIDE DEF S
  <2> QED
    BY <1>1, MaxOf
<1>3. Reuse(p) = Max(S)
  BY DEF Reuse
<1>4. QED
  BY <1>2, <1>3

\* Two prompts that share a prefix begin with the same message.
LEMMA SameFirst ==
    ASSUME NEW p \in Seq(Message), NEW s \in Seq(Message), NEW n \in 1..Len(p),
           IsPrefix(SubSeq(p, 1, n), s)
    PROVE  s # <<>> /\ s[1] = p[1]
<1>1. Len(SubSeq(p, 1, n)) = n /\ SubSeq(p, 1, n) \in Seq(Message) /\ n <= Len(s)
  BY DEF IsPrefix
<1>2. SubSeq(p, 1, n)[1] = p[1]
  OBVIOUS
<1>3. SubSeq(SubSeq(p, 1, n), 1, n)[1] = p[1] /\ SubSeq(s, 1, n)[1] = s[1]
  BY <1>1, <1>2
<1>4. QED
  BY <1>1, <1>3 DEF IsPrefix

LEMMA PrefixIs ==
    \A p, q \in Seq(Message) :
       IsPrefix(p, q) <=> Len(p) <= Len(q) /\ \A i \in 1..Len(p) : p[i] = q[i]
<1> TAKE p, q \in Seq(Message)
<1>1. ASSUME Len(p) <= Len(q)
      PROVE  SubSeq(p, 1, Len(p)) = SubSeq(q, 1, Len(p))
                <=> \A i \in 1..Len(p) : p[i] = q[i]
  <2> DEFINE u == SubSeq(p, 1, Len(p))
             v == SubSeq(q, 1, Len(p))
  <2>1. /\ u \in Seq(Message) /\ Len(u) = Len(p)
        /\ \A i \in 1..Len(p) : u[i] = p[i]
    OBVIOUS
  <2>2. /\ v \in Seq(Message) /\ Len(v) = Len(p)
        /\ \A i \in 1..Len(p) : v[i] = q[i]
    BY <1>1
  <2> HIDE DEF u, v
  <2>3. (\A i \in 1..Len(p) : u[i] = v[i]) => u = v
    BY <2>1, <2>2, SeqEqual
  <2> QED
    BY <2>1, <2>2, <2>3 DEF u, v
<1> QED
  BY <1>1 DEF IsPrefix

\* What follows a prefix does not undo it.
LEMMA PrefixGrows ==
    ASSUME NEW p \in Seq(Message), NEW q \in Seq(Message), NEW r \in Seq(Message),
           IsPrefix(p, q)
    PROVE  IsPrefix(p, q \o r)
<1>1. q \o r \in Seq(Message) /\ Len(q \o r) = Len(q) + Len(r)
  BY ConcatProperties
<1>2. \A i \in 1..Len(q) : (q \o r)[i] = q[i]
  OBVIOUS
<1>3. Len(p) <= Len(q) /\ \A i \in 1..Len(p) : p[i] = q[i]
  BY PrefixIs
<1>4. Len(p) \in Nat /\ Len(q) \in Nat /\ Len(r) \in Nat
  OBVIOUS
<1>5. \A i \in 1..Len(p) : i \in 1..Len(q)
  BY <1>3, <1>4
<1>6. Len(p) <= Len(q \o r) /\ \A i \in 1..Len(p) : p[i] = (q \o r)[i]
  BY <1>1, <1>2, <1>3, <1>4, <1>5
<1>7. QED
  BY <1>1, <1>6, PrefixIs

LEMMA PrefixOfPrefix ==
    ASSUME NEW p \in Seq(Message), NEW q \in Seq(Message), NEW r \in Seq(Message),
           IsPrefix(p, q), IsPrefix(q, r)
    PROVE  IsPrefix(p, r)
<1>1. Len(p) <= Len(q) /\ \A i \in 1..Len(p) : p[i] = q[i]
  BY PrefixIs
<1>2. Len(q) <= Len(r) /\ \A i \in 1..Len(q) : q[i] = r[i]
  BY PrefixIs
<1>3. Len(p) \in Nat /\ Len(q) \in Nat /\ Len(r) \in Nat
  OBVIOUS
<1>4. Len(p) <= Len(r) /\ \A i \in 1..Len(p) : p[i] = r[i]
  BY <1>1, <1>2, <1>3
<1>5. QED
  BY <1>4, PrefixIs

ServerTypeOK ==
    /\ IsFiniteSet(cached) /\ Cardinality(cached) <= Slots
    /\ cached \subseteq Seq(Message) \ {<<>>}
    /\ busy \subseteq cached

\* What begins like a request of benchmark-agentic-cache.py is one, with all of
\* its first turn.
OfCache(p) == p[1] = <<"agent prompt">>

Opened == \A s \in cached : OfCache(s) => IsPrefix(Turn1, s)

\* What begins like a request of agent-benchmark.py.
OfAgent(p) == p[1][1] = "system"

----------------------------------------------------------------------------
(* The agent's benchmark by itself.                                        *)

\* Types, and the place in the rounds that the length of the results is.
AgentTypeOK ==
    /\ args \in [provider : Providers, mode : {"hit", "miss"}]
    /\ pc \in {"warmup", "next", "stream", "silent", "done", "died"}
    /\ round \in 0..Rounds /\ turn \in 0..(TurnsPerRound - 1)
    /\ history \in Seq(Message) /\ Len(history) = 3 * turn
    /\ prompt \in Seq(Message)
    /\ resp \in Locals
    /\ results \in Seq(Turns) /\ Len(results) <= Rounds * TurnsPerRound
    /\ pc \in {"warmup", "next", "stream"} =>
          round < Rounds /\ Len(results) = round * TurnsPerRound + turn
    /\ pc = "stream" => prompt = Messages
    /\ pc = "silent" => OfAgent(prompt)
    /\ pc = "warmup" => turn = 0

\* Words and numbers make messages.
LEMMA WordsAreMessages ==
    /\ \A x \in Words : <<x>> \in Message
    /\ \A x \in Words, y \in Words \cup Nat : <<x, y>> \in Message
    /\ \A x \in Words, j, k \in Nat : <<x, j, k>> \in Message
BY DEF Message

LEMMA SomeWords ==
    /\ "system" \in Words /\ "task" \in Words /\ "tool" \in Words /\ "assistant" \in Words
    /\ "reply" \in Words /\ "reply[:500]" \in Words /\ "(no output)" \in Words
    /\ "warmup" \in Words /\ "agent prompt" \in Words /\ "disk usage" \in Words
    /\ "filter" \in Words /\ "text" \in Words /\ "" \in Words
BY DEF Words

LEMMA Joined ==
    \A a, b \in Seq(Message) : a \o b \in Seq(Message) /\ Len(a \o b) = Len(a) + Len(b)
OBVIOUS

\* The pieces of a prompt are messages.
LEMMA PromptIs ==
    ASSUME AgentTypeOK
    PROVE  /\ System \in Message /\ Task \in Message /\ ToolResult \in Message
           /\ <<"assistant", ResponseText>> \in Message
           /\ Exchange \in Seq(Message) /\ Len(Exchange) = 3 /\ Exchange[1] = Task
           /\ Messages \in Seq(Message) /\ Messages # <<>> /\ Messages[1] = System
<1> USE AgentAssumption
<1>1. round \in Nat /\ turn \in Nat /\ (round * 100 + turn) % 8 \in Nat
  BY DEF AgentTypeOK
<1>2. System \in Message /\ Task \in Message /\ ToolResult \in Message
  <2>1. System \in Message
    BY <1>1, SomeWords, WordsAreMessages DEF System
  <2>2. Task \in Message
    BY <1>1, SomeWords, WordsAreMessages DEF Task
  <2>3. PICK seed \in Nat : seed = (round * 100 + turn) % 8
    BY <1>1
  <2>4. ToolResult \in {<<"tool">>, <<"tool", seed>>}
    BY <2>3 DEF ToolResult
  <2>5. ToolResult \in Message
    BY <2>4, SomeWords, WordsAreMessages
  <2> QED
    BY <2>1, <2>2, <2>5
<1>3. <<"assistant", ResponseText>> \in Message /\ <<"assistant", Cut(ResponseText)>> \in Message
  BY SomeWords, WordsAreMessages DEF ResponseText, Cut
<1>4. Exchange \in Seq(Message) /\ Len(Exchange) = 3 /\ Exchange[1] = Task
  <2>1. PICK reply \in Message : Exchange = <<Task, reply, ToolResult>>
    BY <1>3 DEF Exchange
  <2> QED
    BY <1>2, <2>1
<1>5. history \in Seq(Message)
  BY DEF AgentTypeOK
<1>6. Messages \in Seq(Message) /\ Messages # <<>> /\ Messages[1] = System
  BY <1>2, <1>5 DEF Messages
<1>7. QED
  BY <1>2, <1>3, <1>4, <1>6

LEMMA AgentInitTyped == AgentInit => AgentTypeOK
BY AgentAssumption DEF AgentInit, AgentTypeOK, Providers, Asked, Locals

\* One more line of an answer.
LEMMA LineTyped ==
    ASSUME AgentTypeOK, NEW kind \in {"chunk", "text"}, OllamaLine(kind) \/ OpenAiLine(kind)
    PROVE  /\ resp' \in Locals /\ resp'.rejected = resp.rejected
           /\ resp'.clock = resp.clock + 1
           /\ UNCHANGED <<args, pc, round, turn, history, prompt, reused, results, serverVars>>
<1>1. resp \in Locals /\ resp.clock < MaxLines /\ MaxLines \in Nat
  BY AgentAssumption DEF AgentTypeOK, OllamaLine, OpenAiLine, Line
<1>2. resp.clock + 1 \in 0..MaxLines
  BY <1>1 DEF Locals
<1> DEFINE now == resp.clock + 1
<1>3. Seen \in Locals /\ Seen.rejected = resp.rejected
  BY <1>1, <1>2 DEF Locals, Seen
<1>4. TokenRead(now, Seen) \in Locals /\ TokenRead(now, Seen).rejected = resp.rejected
  <2>1. Append(Seen.latencies, now - Seen.last) \in Seq(Int)
    BY <1>2, <1>3 DEF Locals
  <2> QED
    BY <1>2, <1>3, <2>1 DEF Locals, TokenRead
<1>5. \/ resp' = [resp EXCEPT !.clock = now]
      \/ resp' = Seen
      \/ resp' = TokenRead(now, Seen)
  BY <1>1, LineIs
<1>6. resp' \in Locals /\ resp'.rejected = resp.rejected
  <2>1. [resp EXCEPT !.clock = now] \in Locals
    BY <1>1, <1>2 DEF Locals
  <2>2. [resp EXCEPT !.clock = now].rejected = resp.rejected
    BY <1>1 DEF Locals
  <2> QED
    BY <1>3, <1>4, <1>5, <2>1, <2>2
<1>7. UNCHANGED <<args, pc, round, turn, history, prompt, reused, results, serverVars>>
  BY DEF OllamaLine, OpenAiLine, Line
<1>8. resp'.clock = resp.clock + 1
  <2>1. [resp EXCEPT !.clock = now].clock = now /\ Seen.clock = now
    BY <1>1 DEF Locals, Seen
  <2>2. TokenRead(now, Seen).clock = now
    BY <1>3, <2>1 DEF Locals, TokenRead
  <2> QED
    BY <1>5, <2>1, <2>2
<1>9. QED
  BY <1>6, <1>7, <1>8

\* The result of a turn.
LEMMA TurnResultIs ==
    ASSUME AgentTypeOK
    PROVE  TurnResult \in Turns /\ TurnResult.rejected = resp.rejected
BY AgentAssumption DEF AgentTypeOK, TurnResult, Turns, Locals, Ttft, Refused

LEMMA AgentTyped ==
    ASSUME AgentTypeOK, AgentNext PROVE AgentTypeOK'
<1>a. Rounds \in Nat \ {0} /\ TurnsPerRound \in Nat \ {0} /\ MaxLines \in Nat \ {0}
  BY AgentAssumption
<1>b. round \in Nat /\ turn \in Nat /\ turn < TurnsPerRound
  BY <1>a DEF AgentTypeOK
<1>0. Asked(FALSE) \in Locals /\ Asked(TRUE) \in Locals
  BY <1>a DEF Asked, Locals
<1>1. CASE WarmUp
  BY <1>1 DEF WarmUp, AgentTypeOK
<1>2. ASSUME NEW rejected \in BOOLEAN, Ask(rejected) PROVE AgentTypeOK'
  <2>1. Messages \in Seq(Message) /\ Messages' = Messages
    BY <1>2, PromptIs DEF Ask, Messages, System, Task
  <2>2. resp' \in Locals
    BY <1>0, <1>2 DEF Ask
  <2> QED
    BY <1>2, <2>1, <2>2 DEF Ask, AgentTypeOK
<1>3. ASSUME NEW kind \in {"chunk", "text"}, OllamaLine(kind) \/ OpenAiLine(kind)
      PROVE  AgentTypeOK'
  <2>1. /\ resp' \in Locals
        /\ UNCHANGED <<args, pc, round, turn, history, prompt, results>>
    BY <1>3, LineTyped
  <2>2. Messages' = Messages
    BY <2>1 DEF Messages, System, Task
  <2> QED
    BY <2>1, <2>2 DEF AgentTypeOK
<1>4. ASSUME pc = "stream", results' = Append(results, TurnResult)
      PROVE  /\ results' \in Seq(Turns)
             /\ Len(results') = round * TurnsPerRound + turn + 1
             /\ Len(results') <= Rounds * TurnsPerRound
  <2>1. results \in Seq(Turns) /\ Len(results) = round * TurnsPerRound + turn
    BY <1>a, <1>4 DEF AgentTypeOK
  <2>2. results' \in Seq(Turns) /\ Len(results') = Len(results) + 1
    BY <1>4, <2>1, TurnResultIs
  <2>3. round * TurnsPerRound + TurnsPerRound <= Rounds * TurnsPerRound
    <3>1. round \in Nat /\ Rounds \in Nat /\ round + 1 <= Rounds /\ TurnsPerRound \in Nat
      BY <1>a, <1>b, <1>4 DEF AgentTypeOK
    <3>2. (round + 1) * TurnsPerRound <= Rounds * TurnsPerRound
      BY <3>1
    <3> QED
      BY <3>1, <3>2
  <2>4. turn + 1 <= TurnsPerRound /\ turn \in Nat /\ round * TurnsPerRound \in Nat
    BY <1>a, <1>b
  <2>5. Rounds * TurnsPerRound \in Nat /\ TurnsPerRound \in Nat
    BY <1>a
  <2> QED
    BY <2>1, <2>2, <2>3, <2>4, <2>5
<1>5. CASE EndTurn
  <2>1. /\ pc = "stream" /\ results' = Append(results, TurnResult) /\ args' = args
        /\ resp' = Asked(FALSE)
    BY <1>5 DEF EndTurn, MeasureReturns
  <2>2. CASE turn + 1 < TurnsPerRound
    <3>1. /\ turn' = turn + 1 /\ history' = history \o Exchange
          /\ UNCHANGED <<round, prompt>> /\ pc' = "next"
      BY <1>a, <1>b, <1>5, <2>2 DEF EndTurn
    <3>2. history' \in Seq(Message) /\ Len(history') = 3 * turn'
      <4>1. history \in Seq(Message) /\ Len(history) = 3 * turn
        BY DEF AgentTypeOK
      <4>2. Exchange \in Seq(Message) /\ Len(Exchange) = 3
        BY PromptIs
      <4>3. history' \in Seq(Message) /\ Len(history') = Len(history) + 3
        BY <3>1, <4>1, <4>2, Joined
      <4> QED
        BY <1>b, <3>1, <4>1, <4>3
    <3>3. turn' \in 0..(TurnsPerRound - 1)
      BY <1>a, <1>b, <2>2, <3>1
    <3>4. Len(results') = round' * TurnsPerRound + turn'
      BY <1>a, <1>b, <1>4, <2>1, <3>1
    <3> QED
      BY <1>0, <1>4, <2>1, <3>1, <3>2, <3>3, <3>4 DEF AgentTypeOK
  <2>3. CASE ~(turn + 1 < TurnsPerRound)
    <3>1. /\ turn' = 0 /\ history' = <<>> /\ round' = round + 1 /\ prompt' = <<>>
          /\ turn + 1 = TurnsPerRound
          /\ pc' = IF round + 1 = Rounds THEN "done" ELSE "next"
      BY <1>a, <1>b, <1>5, <2>3 DEF EndTurn
    <3>2. Len(results') = round' * TurnsPerRound + turn'
      BY <1>a, <1>b, <1>4, <2>1, <3>1
    <3>3. round < Rounds
      BY <2>1 DEF AgentTypeOK
    <3>4. /\ round' \in 0..Rounds /\ turn' \in 0..(TurnsPerRound - 1)
          /\ pc' = "next" => round' < Rounds
          /\ pc' \in {"next", "done"}
      BY <1>a, <1>b, <3>1, <3>3
    <3>5. history' \in Seq(Message) /\ Len(history') = 3 * turn' /\ prompt' \in Seq(Message)
      BY <3>1
    <3> QED
      BY <1>0, <1>4, <2>1, <3>2, <3>4, <3>5 DEF AgentTypeOK
  <2> QED
    BY <2>2, <2>3
<1>6. CASE EndRefused
  <2>1. pc = "stream" /\ results' = Append(results, TurnResult)
    BY <1>6 DEF EndRefused
  <2> QED
    BY <1>0, <1>4, <1>6, <2>1 DEF EndRefused, MeasureReturns, AgentTypeOK
<1>7. CASE AgentDies \/ TimeOut \/ ErrorBodyRaises \/ Silence
  <2>1. Lost /\ pc' \in {"died", "silent"} /\ resp' \in {Asked(FALSE), Asked(resp.rejected)}
    BY <1>7 DEF AgentDies, TimeOut, ErrorBodyRaises, Silence, Dies, MeasureReturns
  <2>2. prompt' = <<>> \/ prompt' = prompt
    BY <1>7 DEF AgentDies, TimeOut, ErrorBodyRaises, Silence, Dies
  <2>3. pc' = "silent" => OfAgent(prompt')
    <3> SUFFICES ASSUME pc' = "silent" PROVE OfAgent(prompt')
      OBVIOUS
    <3>1. pc = "stream" /\ prompt' = prompt
      BY <1>7 DEF AgentDies, TimeOut, ErrorBodyRaises, Silence, Dies
    <3>2. prompt[1] = System
      BY <3>1, PromptIs DEF AgentTypeOK
    <3> QED
      BY <3>1, <3>2 DEF System, OfAgent
  <2>4. /\ results' = <<>> /\ history' = <<>>
        /\ round' = 0 /\ turn' = 0 /\ args' = args
    BY <2>1 DEF Lost
  <2>5. Len(results') <= Rounds * TurnsPerRound
    <3>1. Rounds * TurnsPerRound \in Nat
      BY <1>a
    <3> QED
      BY <2>4, <3>1
  <2>6. resp' \in Locals
    BY <1>0, <2>1 DEF AgentTypeOK, Locals
  <2>7. 0 \in 0..Rounds /\ 0 \in 0..(TurnsPerRound - 1)
    BY <1>a
  <2>8. /\ <<>> \in Seq(Message) /\ Len(<<>>) = 3 * 0 /\ <<>> \in Seq(Turns)
        /\ args \in [provider : Providers, mode : {"hit", "miss"}]
        /\ prompt \in Seq(Message)
    BY DEF AgentTypeOK
  <2>9. prompt' \in Seq(Message)
    BY <2>2, <2>8, Zenon
  <2> QED
    BY <2>1, <2>3, <2>4, <2>5, <2>6, <2>7, <2>8, <2>9 DEF AgentTypeOK
<1>8. QED
  BY <1>1, <1>2, <1>3, <1>5, <1>6, <1>7 DEF AgentNext

----------------------------------------------------------------------------
(* The cache benchmark by itself.                                          *)

Reports == [retained : BOOLEAN, kept : BOOLEAN]

CacheTypeOK ==
    /\ figures \in Figures
    /\ at \in {"turn1", "wait1", "turn2", "wait2", "silent", "done", "died"}
    /\ request \in Seq(Message)
    /\ found \in 0..(Len(request) + 1)
    /\ kept \in BOOLEAN
    /\ rounds \in Seq(Reports) /\ Len(rounds) <= CacheRounds
    /\ at \in {"turn1", "wait1", "turn2", "wait2"} => Len(rounds) < CacheRounds
    /\ at = "done" => Len(rounds) = CacheRounds
    /\ at = "wait1" => request = Turn1
    /\ at \in {"turn2", "wait2"} => \E content \in Contents : request = Turn2(content)
    /\ at = "silent" => OfCache(request)

LEMMA StartsWith == \A a, b \in Seq(Message) : \A i \in 1..Len(a) : (a \o b)[i] = a[i]
OBVIOUS

LEMMA TwoMore ==
    ASSUME NEW s \in Seq(Message), NEW t \in Seq(Message), Len(s) = 2, Len(t) = 2
    PROVE  /\ s \o t \in Seq(Message) /\ Len(s \o t) = 4
           /\ (s \o t)[1] = s[1]
           /\ SubSeq(s \o t, 1, 2) = s
<1>1. PICK u \in Seq(Message) : u = s \o t /\ Len(u) = Len(s) + Len(t)
  BY Joined, Zenon
<1>2. \A i \in 1..Len(s) : (s \o t)[i] = s[i]
  BY StartsWith, Zenon
<1>3. Len(u) = 4 /\ \A i \in 1..2 : u[i] = s[i]
  BY <1>1, <1>2
<1>4. /\ SubSeq(u, 1, 2) \in Seq(Message) /\ Len(SubSeq(u, 1, 2)) = 2
      /\ \A i \in 1..2 : SubSeq(u, 1, 2)[i] = u[i]
  BY <1>3
<1>5. SubSeq(u, 1, 2) = s
  BY <1>3, <1>4, SeqEqual
<1>6. u[1] = s[1]
  BY <1>3
<1>7. QED
  BY <1>1, <1>3, <1>5, <1>6, Zenon

LEMMA CacheRequests ==
    /\ Turn1 \in Seq(Message) /\ Len(Turn1) = 2 /\ Turn1[1] = <<"agent prompt">>
    /\ \A content \in Contents :
          /\ Turn2(content) \in Seq(Message) /\ Len(Turn2(content)) = 4
          /\ Turn2(content)[1] = <<"agent prompt">>
          /\ SubSeq(Turn2(content), 1, 2) = Turn1
          /\ IsPrefix(Turn1, Turn2(content))
    /\ IsPrefix(Turn1, Turn1)
<1>1. <<"agent prompt">> \in Message /\ <<"disk usage">> \in Message /\ <<"filter">> \in Message
  BY SomeWords, WordsAreMessages
<1>2. Turn1 \in Seq(Message) /\ Len(Turn1) = 2 /\ Turn1[1] = <<"agent prompt">>
  <2>1. PICK a \in Message, b \in Message : a = <<"agent prompt">> /\ Turn1 = <<a, b>>
    BY <1>1 DEF Turn1
  <2>2. <<a, b>> \in Seq(Message) /\ Len(<<a, b>>) = 2 /\ <<a, b>>[1] = a
    OBVIOUS
  <2> QED
    BY <2>1, <2>2
<1>3. IsPrefix(Turn1, Turn1)
  <2>1. \A p \in Seq(Message) : IsPrefix(p, p)
    BY PrefixIs
  <2> QED
    BY <1>2, <2>1
<1>4. ASSUME NEW content \in Contents
      PROVE  /\ Turn2(content) \in Seq(Message) /\ Len(Turn2(content)) = 4
             /\ Turn2(content)[1] = <<"agent prompt">>
             /\ SubSeq(Turn2(content), 1, 2) = Turn1
             /\ IsPrefix(Turn1, Turn2(content))
  <2>1. <<"assistant", content>> \in Message
    BY SomeWords, WordsAreMessages DEF Contents
  <2>2. PICK c \in Message, d \in Message : Turn2(content) = Turn1 \o <<c, d>>
    BY <1>1, <2>1 DEF Turn2
  <2>3. <<c, d>> \in Seq(Message) /\ Len(<<c, d>>) = 2
    OBVIOUS
  <2>4. PICK t \in Seq(Message) : Len(t) = 2 /\ Turn2(content) = Turn1 \o t
    BY <2>2, <2>3, Zenon
  <2>5. IsPrefix(Turn1, Turn2(content))
    <3>1. IsPrefix(Turn1, Turn1 \o t)
      BY <1>2, <1>3, PrefixGrows
    <3> QED
      BY <2>4, <3>1, Zenon
  <2> QED
    BY <1>2, <2>4, <2>5, TwoMore
<1>5. QED
  BY <1>2, <1>3, <1>4

\* What the report says of a round is true of it.
Truthful ==
    /\ at = "wait2" /\ kept => found > 0
    /\ at = "wait2" /\ found > 0 => kept \/ figures = "template"
    /\ \A i \in DOMAIN rounds :
          /\ rounds[i].retained => rounds[i].kept \/ figures = "template"
          /\ ~rounds[i].retained => ~rounds[i].kept \/ figures = "absent"

LEMMA CacheInitTyped == CacheInit => CacheTypeOK /\ Truthful
<1> SUFFICES ASSUME CacheInit PROVE CacheTypeOK /\ Truthful
  OBVIOUS
<1>1. CacheRounds \in Nat \ {0} /\ <<>> \in Seq(Message) /\ Len(<<>>) = 0 /\ <<>> \in Seq(Reports)
  BY CacheAssumption
<1>2. /\ figures \in Figures /\ at = "turn1" /\ request = <<>> /\ found = 0 /\ kept = FALSE
      /\ rounds = <<>>
  BY DEF CacheInit
<1>3. request \in Seq(Message) /\ found \in 0..(Len(request) + 1)
  BY <1>1, <1>2
<1>4. rounds \in Seq(Reports) /\ Len(rounds) < CacheRounds /\ Len(rounds) <= CacheRounds
  BY <1>1, <1>2
<1>5. Truthful
  BY <1>2 DEF Truthful
<1>6. QED
  BY <1>2, <1>3, <1>4, <1>5 DEF CacheTypeOK

\* The server is asked for a prompt of the script.
LEMMA SendTyped ==
    ASSUME NEW p \in Seq(Message), Send(p)
    PROVE  /\ request' = p /\ found' \in 0..(Len(request') + 1)
           /\ found' >= Reuse(p)
           /\ figures # "template" => found' = Reuse(p)
<1>1. Reuse(p) \in 0..Len(p) /\ Template \in {0, 1}
  BY ReuseIs DEF Template
<1>2. request' = p /\ found' = Reuse(p) + Template /\ Len(p) \in Nat
  BY DEF Send
<1>3. figures # "template" => Template = 0
  BY DEF Template
<1>4. QED
  BY <1>1, <1>2, <1>3

LEMMA CacheTyped ==
    ASSUME CacheTypeOK, Truthful, ServerTypeOK, Opened, CacheNext
    PROVE  CacheTypeOK' /\ Truthful'
<1>0. CacheRounds \in Nat \ {0} /\ <<>> \in Seq(Message) /\ Len(<<>>) = 0 /\ <<>> \in Seq(Reports)
  BY CacheAssumption
<1>1. CASE SendTurn1
  <2>1. request' = Turn1 /\ found' \in 0..(Len(request') + 1)
    BY <1>1, SendTyped, CacheRequests DEF SendTurn1
  <2>2. at = "turn1" /\ at' = "wait1" /\ UNCHANGED <<figures, kept, rounds>>
    BY <1>1 DEF SendTurn1
  <2> QED
    BY <2>1, <2>2, CacheRequests DEF CacheTypeOK, Truthful
<1>2. ASSUME NEW content \in Contents, Answer1(content) PROVE CacheTypeOK' /\ Truthful'
  <2>1. /\ at = "wait1" /\ at' = "turn2" /\ request' = Turn2(content) /\ found' = 0
        /\ UNCHANGED <<figures, kept, rounds>>
    BY <1>2 DEF Answer1
  <2>2. request' \in Seq(Message) /\ found' \in 0..(Len(request') + 1)
    <3>1. Turn2(content) \in Seq(Message) /\ Len(Turn2(content)) = 4
      BY CacheRequests
    <3> QED
      BY <2>1, <3>1
  <2>3. Turn2(content)' = Turn2(content)
    BY DEF Turn2, Turn1
  <2> QED
    BY <2>1, <2>2, <2>3 DEF CacheTypeOK, Truthful
<1>3. CASE SendTurn2
  <2>1. PICK content \in Contents : request = Turn2(content)
    BY <1>3 DEF CacheTypeOK, SendTurn2
  <2>2. /\ at = "turn2" /\ at' = "wait2" /\ kept' = Keeps(Turn1)
        /\ UNCHANGED <<figures, rounds>>
    BY <1>3 DEF SendTurn2
  <2>3. /\ request' = request /\ found' \in 0..(Len(request') + 1)
        /\ found' >= Reuse(request)
        /\ figures # "template" => found' = Reuse(request)
    BY <1>3, <2>1, SendTyped, CacheRequests DEF SendTurn2
  <2>4. request \in Seq(Message) /\ Len(request) = 4 /\ OfCache(request)
    BY <2>1, CacheRequests DEF OfCache
  <2>5. /\ Reuse(request) \in 0..Len(request)
        /\ Reuse(request) # 0 =>
              \E s \in cached : IsPrefix(SubSeq(request, 1, Reuse(request)), s)
        /\ \A n \in 0..Len(request) :
              (\E s \in cached : IsPrefix(SubSeq(request, 1, n), s)) => Reuse(request) >= n
    BY <2>4, ReuseIs
  <2>6. kept' => found' > 0
    <3> SUFFICES ASSUME Keeps(Turn1) PROVE Reuse(request) >= 2
      <4>1. Reuse(request) \in Nat /\ found' \in Nat
        BY <2>3, <2>5
      <4> QED
        BY <2>2, <2>3, <4>1
    <3>1. \E s \in cached : IsPrefix(SubSeq(request, 1, 2), s)
      BY <2>1, CacheRequests DEF Keeps
    <3>2. 2 \in 0..Len(request)
      BY <2>4
    <3> QED
      BY <2>5, <3>1, <3>2
  <2>7. found' > 0 => kept' \/ figures = "template"
    <3> SUFFICES ASSUME Reuse(request) # 0 PROVE Keeps(Turn1)
      BY <2>2, <2>3
    <3>1. PICK s \in cached : IsPrefix(SubSeq(request, 1, Reuse(request)), s)
      BY <2>5
    <3>2. s \in Seq(Message)
      BY DEF ServerTypeOK
    <3>4. Reuse(request) \in 1..Len(request)
      BY <2>5
    <3>3. OfCache(s)
      BY <2>4, <3>1, <3>2, <3>4, SameFirst DEF OfCache
    <3> QED
      BY <3>3 DEF Opened, Keeps
  <2>8. CacheTypeOK'
    <3>1. kept' \in BOOLEAN /\ request' = Turn2(content) /\ content \in Contents
      BY <2>1, <2>2, <2>3 DEF Keeps
    <3>2. Turn2(content)' = Turn2(content)
      BY DEF Turn2, Turn1
    <3> QED
      BY <2>2, <2>3, <2>4, <3>1, <3>2 DEF CacheTypeOK
  <2>9. Truthful'
    BY <2>2, <2>6, <2>7 DEF Truthful
  <2> QED
    BY <2>8, <2>9
<1>4. CASE Answer2
  <2> DEFINE report == [retained |-> Retained, kept |-> kept]
  <2>1. /\ at = "wait2" /\ rounds' = Append(rounds, report)
        /\ at' = IF Len(rounds') = CacheRounds THEN "done" ELSE "turn1"
        /\ request' = <<>> /\ found' = 0 /\ kept' = FALSE /\ figures' = figures
    BY <1>4 DEF Answer2, RoundOver
  <2>2. report \in Reports
    BY DEF Reports, Retained, CacheTypeOK
  <2>3. /\ report.retained => report.kept \/ figures = "template"
        /\ ~report.retained => ~report.kept \/ figures = "absent"
    BY <2>1 DEF Retained, CacheN, CacheTypeOK, Truthful, Figures
  <2> HIDE DEF report
  <2>4. rounds \in Seq(Reports) /\ Len(rounds) < CacheRounds
    BY <2>1 DEF CacheTypeOK
  <2>5. /\ rounds' \in Seq(Reports) /\ Len(rounds') = Len(rounds) + 1
        /\ \A i \in DOMAIN rounds' :
              (i \in DOMAIN rounds /\ rounds'[i] = rounds[i]) \/ rounds'[i] = report
    BY <2>1, <2>2, <2>4
  <2>6. CacheTypeOK'
    <3>1. figures \in Figures /\ Len(rounds) \in Nat
      BY <2>4 DEF CacheTypeOK
    <3>2. /\ Len(rounds') <= CacheRounds
          /\ at' = "turn1" => Len(rounds') < CacheRounds
          /\ at' = "done" => Len(rounds') = CacheRounds
          /\ at' \in {"turn1", "done"}
      BY <1>0, <2>1, <2>4, <2>5, <3>1
    <3>3. request' \in Seq(Message) /\ found' \in 0..(Len(request') + 1)
      BY <1>0, <2>1
    <3> QED
      BY <2>1, <2>5, <3>1, <3>2, <3>3 DEF CacheTypeOK
  <2>7. Truthful'
    BY <2>1, <2>3, <2>5 DEF Truthful
  <2> QED
    BY <2>6, <2>7
<1>5. CASE CacheDies \/ CacheTimeOut \/ CacheSilence
  <2>1. /\ at' \in {"died", "silent"} /\ rounds' = <<>> /\ found' = 0 /\ kept' = FALSE
        /\ figures' = figures
        /\ at' = "silent" => at \in {"wait1", "wait2"} /\ request' = request
        /\ request' = <<>> \/ request' = request
    BY <1>5 DEF CacheDies, CacheTimeOut, CacheSilence, Raises, RoundOver
  <2>2. at' = "silent" => OfCache(request')
    BY <2>1, CacheRequests DEF CacheTypeOK, OfCache
  <2>3. request' \in Seq(Message) /\ found' \in 0..(Len(request') + 1)
    <3>1. request \in Seq(Message)
      BY DEF CacheTypeOK
    <3>2. request' \in Seq(Message)
      BY <1>0, <2>1, <3>1, Zenon
    <3> QED
      BY <2>1, <3>2
  <2>4. rounds' \in Seq(Reports) /\ Len(rounds') <= CacheRounds /\ DOMAIN rounds' = {}
    BY <1>0, <2>1
  <2>5. CacheTypeOK'
    BY <2>1, <2>2, <2>3, <2>4 DEF CacheTypeOK
  <2>6. Truthful'
    BY <2>1, <2>4 DEF Truthful
  <2> QED
    BY <2>5, <2>6
<1>6. QED
  BY <1>1, <1>2, <1>3, <1>4, <1>5 DEF CacheNext

----------------------------------------------------------------------------
(* The server.                                                             *)

\* What is being answered, or was until the server fell silent, is kept.
Answering ==
    /\ pc \in {"stream", "silent"} /\ ~resp.rejected => prompt \in busy
    /\ at \in {"wait1", "wait2", "silent"} => request \in busy

\* The two scripts ask for different prompts.
LEMMA PromptsDiffer ==
    ASSUME AgentTypeOK, CacheTypeOK, pc \in {"stream", "silent"},
           at \in {"wait1", "wait2", "silent"}
    PROVE  prompt # request
<1>1. prompt[1][1] = "system"
  <2>1. CASE pc = "stream"
    <3>1. prompt[1] = System
      BY <2>1, PromptIs DEF AgentTypeOK
    <3> QED
      BY <3>1 DEF System
  <2> QED
    BY <2>1 DEF AgentTypeOK, OfAgent
<1>2. request[1] = <<"agent prompt">>
  BY CacheRequests DEF CacheTypeOK, OfCache
<1>3. request[1][1] = "agent prompt"
  <2>1. <<"agent prompt">>[1] = "agent prompt"
    OBVIOUS
  <2> QED
    BY <1>2, <2>1
<1>4. QED
  BY <1>1, <1>3

\* A prompt that is worked on stays in the cache, and a new one takes the place
\* of another if there is no room.
LEMMA RememberKeeps ==
    ASSUME ServerTypeOK, NEW p \in Seq(Message), p # <<>>, Remember(p)
    PROVE  /\ IsFiniteSet(cached') /\ Cardinality(cached') <= Slots
           /\ cached' \subseteq Seq(Message) \ {<<>>}
           /\ busy \subseteq cached'
           /\ p \in cached'
           /\ cached' \subseteq cached \cup {p}
<1>1. PICK rest \in SUBSET cached :
         busy \subseteq rest /\ Cardinality(rest) < Slots /\ cached' = rest \cup {p}
  BY DEF Remember
<1>2. IsFiniteSet(rest) /\ Cardinality(rest) \in Nat
  BY <1>1, FS_Subset, FS_CardinalityType DEF ServerTypeOK
<1>3. /\ IsFiniteSet(rest \cup {p})
      /\ Cardinality(rest \cup {p}) = Cardinality(rest)
           \/ Cardinality(rest \cup {p}) = Cardinality(rest) + 1
  BY <1>2, FS_AddElement
<1>4. Slots \in Nat
  BY SlotsAssumption
<1>5. QED
  BY <1>1, <1>2, <1>3, <1>4 DEF ServerTypeOK

LEMMA GeneratedKeeps ==
    ASSUME ServerTypeOK, NEW p \in busy, NEW reply \in Message, Generated(p, reply)
    PROVE  /\ ServerTypeOK'
           /\ busy' = busy \ {p}
           /\ \A s \in cached' : s \in cached \/ (s # <<>> /\ s[1] = p[1] /\ IsPrefix(p, s))
<1>1. p \in cached /\ p \in Seq(Message) /\ p # <<>>
  BY DEF ServerTypeOK
<1>2. /\ IsFiniteSet(cached \ {p}) /\ Cardinality(cached \ {p}) = Cardinality(cached) - 1
      /\ Cardinality(cached) \in Nat
  <2>1. IsFiniteSet(cached)
    BY DEF ServerTypeOK
  <2> QED
    BY <1>1, <2>1, FS_RemoveElement, FS_CardinalityType
<1> DEFINE q == Append(p, reply)
<1>3. q \in Seq(Message) /\ q # <<>> /\ q[1] = p[1] /\ IsPrefix(p, q)
  <2>1. q \in Seq(Message) /\ q # <<>> /\ q[1] = p[1]
    BY <1>1
  <2>2. Len(p) <= Len(q) /\ \A i \in 1..Len(p) : p[i] = q[i]
    BY <1>1
  <2> HIDE DEF q
  <2> QED
    BY <1>1, <2>1, <2>2, PrefixIs
<1>4. cached' = (cached \ {p}) \cup {q} /\ busy' = busy \ {p}
  BY DEF Generated
<1> HIDE DEF q
<1>5. /\ IsFiniteSet(cached')
      /\ Cardinality(cached') = Cardinality(cached \ {p})
           \/ Cardinality(cached') = Cardinality(cached \ {p}) + 1
  BY <1>2, <1>4, FS_AddElement, FS_CardinalityType
<1>6. Cardinality(cached') <= Slots
  BY <1>2, <1>5, SlotsAssumption DEF ServerTypeOK
<1>7. QED
  BY <1>3, <1>4, <1>5, <1>6 DEF ServerTypeOK


LEMMA PrefillKeeps ==
    ASSUME ServerTypeOK, NEW p \in Seq(Message), p # <<>>, Prefill(p)
    PROVE  ServerTypeOK' /\ busy' = busy \cup {p} /\ cached' \subseteq cached \cup {p}
BY RememberKeeps DEF Prefill, ServerTypeOK

----------------------------------------------------------------------------
(* The scripts and the server together.                                    *)

\* How the prompts begin that a step of a script adds to the cache.
Begins(s, script) ==
    IF script = "agent" THEN s[1] \in {<<"warmup">>, System}
                        ELSE s[1] = <<"agent prompt">> /\ IsPrefix(Turn1, s)

AddsOnly(script) ==
    \A s \in cached' : s \in cached \/ Begins(s, script)

LEMMA AgentServed ==
    ASSUME AgentTypeOK, CacheTypeOK, ServerTypeOK, Answering, AgentNext, UNCHANGED cacheVars
    PROVE  ServerTypeOK' /\ Answering' /\ AddsOnly("agent")
<1>0. UNCHANGED <<at, request>>
  BY DEF cacheVars
<1>p. Messages \in Seq(Message) /\ Messages # <<>> /\ Messages[1] = System
  BY PromptIs
<1>s. ASSUME UNCHANGED serverVars PROVE ServerTypeOK' /\ AddsOnly("agent")
  BY <1>s DEF serverVars, ServerTypeOK, AddsOnly
<1>1. CASE WarmUp
  <2>1. pc' = "next" /\ busy' = busy
    BY <1>1 DEF WarmUp, serverVars
  <2>2. Answering'
    BY <1>0, <2>1 DEF Answering
  <2>3. CASE UNCHANGED serverVars
    BY <1>s, <2>2, <2>3
  <2>4. CASE Remember(<<<<"warmup">>>>)
    <3>1. PICK p \in Seq(Message) : p = <<<<"warmup">>>> /\ p # <<>> /\ p[1] = <<"warmup">>
      <4>1. PICK m \in Message : m = <<"warmup">>
        BY SomeWords, WordsAreMessages
      <4>2. <<m>> \in Seq(Message) /\ <<m>> # <<>> /\ <<m>>[1] = m
        OBVIOUS
      <4> QED
        BY <4>1, <4>2
    <3>2. /\ IsFiniteSet(cached') /\ Cardinality(cached') <= Slots
          /\ cached' \subseteq Seq(Message) \ {<<>>}
          /\ busy \subseteq cached' /\ cached' \subseteq cached \cup {p}
      BY <2>4, <3>1, RememberKeeps
    <3> QED
      BY <2>1, <2>2, <3>1, <3>2 DEF ServerTypeOK, AddsOnly, Begins
  <2> QED
    BY <1>1, <2>3, <2>4 DEF WarmUp
<1>2. ASSUME NEW rejected \in BOOLEAN, Ask(rejected)
      PROVE  ServerTypeOK' /\ Answering' /\ AddsOnly("agent")
  <2>1. prompt' = Messages /\ resp'.rejected = rejected
    BY <1>2 DEF Ask, Asked
  <2>2. CASE rejected
    <3>1. UNCHANGED serverVars
      BY <1>2, <2>2 DEF Ask
    <3>2. Answering'
      BY <1>0, <2>1, <2>2, <3>1 DEF Answering, serverVars
    <3> QED
      BY <1>s, <3>1, <3>2
  <2>3. CASE ~rejected
    <3>1. Prefill(Messages)
      BY <1>2, <2>1, <2>3 DEF Ask
    <3>2. /\ ServerTypeOK' /\ busy' = busy \cup {Messages}
          /\ cached' \subseteq cached \cup {Messages}
      BY <1>p, <3>1, PrefillKeeps
    <3>3. Answering'
      BY <1>0, <2>1, <3>2 DEF Answering
    <3> QED
      BY <1>p, <3>2, <3>3 DEF AddsOnly, Begins
  <2> QED
    BY <2>2, <2>3
<1>3. ASSUME NEW kind \in {"chunk", "text"}, OllamaLine(kind) \/ OpenAiLine(kind)
      PROVE  ServerTypeOK' /\ Answering' /\ AddsOnly("agent")
  <2>1. resp'.rejected = resp.rejected /\ UNCHANGED <<pc, prompt, cached, busy>>
    BY <1>3, LineTyped DEF serverVars
  <2>2. Answering'
    BY <1>0, <2>1 DEF Answering
  <2> QED
    BY <1>s, <2>1, <2>2 DEF serverVars
<1>4. CASE EndTurn
  <2>1. pc = "stream" /\ pc' \in {"next", "done"} /\ ServerEnds
    BY <1>4 DEF EndTurn
  <2>2. CASE resp.rejected
    <3>1. UNCHANGED serverVars
      BY <2>1, <2>2 DEF ServerEnds
    <3>2. Answering'
      BY <1>0, <2>1, <3>1 DEF Answering, serverVars
    <3> QED
      BY <1>s, <3>1, <3>2
  <2>3. CASE ~resp.rejected
    <3>1. Generated(prompt, <<"assistant", ResponseText>>) /\ prompt \in busy
      BY <2>1, <2>3 DEF ServerEnds, Answering
    <3>2. /\ ServerTypeOK' /\ busy' = busy \ {prompt}
          /\ \A s \in cached' : s \in cached \/ s[1] = prompt[1]
      BY <3>1, PromptIs, GeneratedKeeps
    <3>3. prompt[1] = System
      BY <1>p, <2>1 DEF AgentTypeOK
    <3>4. Answering'
      BY <1>0, <2>1, <3>2, PromptsDiffer DEF Answering
    <3> QED
      BY <3>2, <3>3, <3>4 DEF AddsOnly, Begins
  <2> QED
    BY <2>2, <2>3
<1>5. CASE EndRefused
  <2>1. pc' = "done" /\ UNCHANGED serverVars
    BY <1>5 DEF EndRefused
  <2>2. Answering'
    BY <1>0, <2>1 DEF Answering, serverVars
  <2> QED
    BY <1>s, <2>1, <2>2
<1>6. CASE AgentDies \/ TimeOut \/ ErrorBodyRaises
  <2>1. /\ pc' = "died"
        /\ \/ UNCHANGED serverVars
           \/ pc \in {"stream", "silent"} /\ ~resp.rejected /\ Abandon(prompt)
    BY <1>6 DEF AgentDies, TimeOut, ErrorBodyRaises, Dies
  <2>2. CASE UNCHANGED serverVars
    <3>1. Answering'
      BY <1>0, <2>1, <2>2 DEF Answering, serverVars
    <3> QED
      BY <1>s, <2>2, <3>1
  <2>3. CASE pc \in {"stream", "silent"} /\ Abandon(prompt)
    <3>1. cached' = cached /\ busy' = busy \ {prompt}
      BY <2>3 DEF Abandon
    <3>2. at' \in {"wait1", "wait2", "silent"} => request' \in busy'
      BY <1>0, <2>3, <3>1, PromptsDiffer DEF Answering
    <3>3. Answering'
      BY <2>1, <3>2 DEF Answering
    <3>4. ServerTypeOK' /\ AddsOnly("agent")
      BY <2>1, <2>3, <3>1 DEF ServerTypeOK, Answering, AddsOnly
    <3> QED
      BY <3>3, <3>4
  <2> QED
    BY <2>1, <2>2, <2>3
<1>7. CASE Silence
  <2>1. /\ pc = "stream" /\ resp'.rejected = resp.rejected /\ prompt' = prompt
        /\ UNCHANGED serverVars
    BY <1>7 DEF Silence, Asked
  <2>2. Answering'
    BY <1>0, <2>1 DEF Answering, serverVars
  <2> QED
    BY <1>s, <2>1, <2>2
<1>8. QED
  BY <1>1, <1>2, <1>3, <1>4, <1>5, <1>6, <1>7 DEF AgentNext

LEMMA CacheServed ==
    ASSUME AgentTypeOK, CacheTypeOK, ServerTypeOK, Answering, CacheNext, UNCHANGED agentVars
    PROVE  ServerTypeOK' /\ Answering' /\ AddsOnly("cache")
<1>0. UNCHANGED <<pc, resp, prompt>>
  BY DEF agentVars
<1>1. ASSUME NEW p \in Seq(Message), p # <<>>, p[1] = <<"agent prompt">>,
             IsPrefix(Turn1, p), Send(p)
      PROVE  ServerTypeOK' /\ Answering' /\ AddsOnly("cache")
  <2>1. /\ ServerTypeOK' /\ busy' = busy \cup {p} /\ cached' \subseteq cached \cup {p}
        /\ request' = p
    BY <1>1, PrefillKeeps DEF Send
  <2>2. Answering'
    BY <1>0, <2>1 DEF Answering
  <2> QED
    BY <1>1, <2>1, <2>2 DEF AddsOnly, Begins
<1>2. ASSUME at \in {"turn1", "turn2"}, SendTurn1 \/ SendTurn2
      PROVE  ServerTypeOK' /\ Answering' /\ AddsOnly("cache")
  <2>1. /\ Turn1 \in Seq(Message) /\ Turn1 # <<>> /\ Turn1[1] = <<"agent prompt">>
        /\ IsPrefix(Turn1, Turn1)
        /\ \A content \in Contents : /\ Turn2(content) \in Seq(Message)
                                     /\ Turn2(content) # <<>>
                                     /\ Turn2(content)[1] = <<"agent prompt">>
                                     /\ IsPrefix(Turn1, Turn2(content))
    <3>1. \A p \in Seq(Message) : Len(p) \in {2, 4} => p # <<>>
      OBVIOUS
    <3>2. \A content \in Contents : Turn2(content) # <<>>
      BY <3>1, CacheRequests, Zenon
    <3>3. Turn1 # <<>>
      BY <3>1, CacheRequests, Zenon
    <3> QED
      BY <3>2, <3>3, CacheRequests, Zenon
  <2>2. CASE SendTurn1
    BY <1>1, <2>1, <2>2 DEF SendTurn1
  <2>3. CASE SendTurn2
    <3>1. PICK content \in Contents : request = Turn2(content)
      BY <2>3 DEF SendTurn2, CacheTypeOK
    <3>2. Send(request)
      BY <2>3 DEF SendTurn2
    <3> QED
      BY <1>1, <2>1, <3>1, <3>2
  <2> QED
    BY <1>2, <2>2, <2>3
<1>3. ASSUME at \in {"wait1", "wait2"}, at' \notin {"wait1", "wait2", "silent"},
             Generated(request, <<"assistant", "text">>)
      PROVE  ServerTypeOK' /\ Answering' /\ AddsOnly("cache")
  <2>1. request \in busy /\ request[1] = <<"agent prompt">> /\ IsPrefix(Turn1, request)
    BY <1>3, CacheRequests DEF Answering, CacheTypeOK
  <2>2. PICK reply \in Message : reply = <<"assistant", "text">>
    BY SomeWords, WordsAreMessages
  <2>3. /\ ServerTypeOK' /\ busy' = busy \ {request}
        /\ \A s \in cached' : s \in cached \/ (s[1] = request[1] /\ IsPrefix(request, s))
    BY <1>3, <2>1, <2>2, GeneratedKeeps
  <2>4. Answering'
    BY <1>0, <1>3, <2>3, PromptsDiffer DEF Answering
  <2>5. ASSUME NEW s \in cached', s \notin cached PROVE Begins(s, "cache")
    <3>1. s \in Seq(Message) /\ request \in Seq(Message) /\ Turn1 \in Seq(Message)
      BY <2>3, <2>5, CacheRequests DEF ServerTypeOK, CacheTypeOK
    <3>2. s[1] = <<"agent prompt">> /\ IsPrefix(request, s)
      BY <2>1, <2>3, <2>5
    <3>3. IsPrefix(Turn1, s)
      BY <2>1, <3>1, <3>2, PrefixOfPrefix
    <3> QED
      BY <3>2, <3>3 DEF Begins
  <2> QED
    BY <2>3, <2>4, <2>5 DEF AddsOnly
<1>4. CASE CacheDies \/ CacheTimeOut
  <2>1. at' = "died" /\ cached' = cached /\ busy' \subseteq busy
    BY <1>4 DEF CacheDies, CacheTimeOut, Raises, Abandon, serverVars
  <2>2. \/ busy' = busy
        \/ at \in {"wait1", "wait2", "silent"} /\ busy' = busy \ {request}
    BY <1>4 DEF CacheDies, CacheTimeOut, Raises, Abandon, serverVars
  <2>3. Answering'
    BY <1>0, <2>1, <2>2, PromptsDiffer DEF Answering
  <2> QED
    BY <2>1, <2>3 DEF ServerTypeOK, AddsOnly
<1>5. ASSUME NEW content \in Contents, Answer1(content)
      PROVE  ServerTypeOK' /\ Answering' /\ AddsOnly("cache")
  BY <1>3, <1>5 DEF Answer1
<1>6. CASE Answer2
  <2>1. at \in {"wait1", "wait2"} /\ at' \notin {"wait1", "wait2", "silent"}
    BY <1>6 DEF Answer2
  <2> QED
    BY <1>3, <1>6, <2>1 DEF Answer2
<1>7. CASE SendTurn1 \/ SendTurn2
  <2>1. at \in {"turn1", "turn2"}
    BY <1>7 DEF SendTurn1, SendTurn2
  <2> QED
    BY <1>2, <1>7, <2>1
<1>8. CASE CacheSilence
  <2>1. at \in {"wait1", "wait2"} /\ request' = request /\ UNCHANGED <<cached, busy>>
    BY <1>8 DEF CacheSilence, serverVars
  <2>2. Answering'
    BY <1>0, <2>1 DEF Answering
  <2> QED
    BY <2>1, <2>2 DEF ServerTypeOK, AddsOnly
<1>9. QED
  BY <1>4, <1>5, <1>6, <1>7, <1>8 DEF CacheNext

\* Nobody but benchmark-agentic-cache.py leaves prompts that begin like its own.
LEMMA OpenedStep ==
    ASSUME AgentTypeOK, CacheTypeOK, ServerTypeOK, Answering, Opened, Next
    PROVE  Opened'
<1>1. SUFFICES ASSUME NEW s \in cached', OfCache(s) PROVE IsPrefix(Turn1, s)
  BY DEF Opened, Turn1, OfCache
<1>2. CASE CacheNext /\ UNCHANGED agentVars
  <2>1. s \in cached \/ IsPrefix(Turn1, s)
    BY <1>2, CacheServed DEF AddsOnly, Begins
  <2> QED
    BY <1>1, <2>1 DEF Opened
<1>3. CASE AgentNext /\ UNCHANGED cacheVars
  <2>1. s \in cached \/ s[1] \in {<<"warmup">>, System}
    BY <1>3, AgentServed DEF AddsOnly, Begins
  <2>2. s[1] # <<"warmup">> /\ s[1] # System
    <3>1. System[1] = "system" /\ <<"warmup">>[1] = "warmup"
      BY DEF System
    <3>2. <<"agent prompt">>[1] = "agent prompt"
      OBVIOUS
    <3> QED
      BY <1>1, <3>1, <3>2 DEF OfCache
  <2> QED
    BY <1>1, <2>1, <2>2 DEF Opened
<1>4. QED
  BY <1>2, <1>3 DEF Next

----------------------------------------------------------------------------
(* What the benchmarks promise.                                            *)

\* A server that rejects a request is asked no more, except by way of Ollama.
NoneRejected ==
    args.provider # "ollama" /\ pc \in {"warmup", "next", "stream"} =>
       \A i \in DOMAIN results : ~results[i].rejected

\* With nonces, what the cache has of this script is of turns gone by.
Fresh ==
    args.mode = "miss" /\ pc \in {"warmup", "next", "stream"} =>
       \A s \in cached, j, k \in Nat :
          s[1] = <<"system", j, k>> =>
             \/ j < round
             \/ j = round /\ k < turn
             \/ j = round /\ k = turn /\ pc = "stream"

\* Without, the history goes on from the last request.
Continues ==
    args.mode = "hit" /\ pc = "next" /\ turn > 0 =>
       IsPrefix(prompt, <<System>> \o history)

IInv ==
    /\ AgentTypeOK /\ CacheTypeOK /\ Truthful
    /\ ServerTypeOK /\ Answering /\ Opened
    /\ reused \in 0..Len(prompt) /\ MissNeverReuses
    /\ RejectionEndsRun /\ NoneRejected
    /\ Fresh
    /\ Continues
    /\ TimesAdd

LEMMA Nonces ==
    ASSUME NEW j \in Nat, NEW k \in Nat
    PROVE  /\ <<"system", j, k>> # <<"warmup">> /\ <<"system", j, k>> # <<"agent prompt">>
           /\ \A u, v \in Nat : <<"system", j, k>> = <<"system", u, v>> => j = u /\ k = v
<1>1. /\ <<"system", j, k>>[1] = "system" /\ <<"system", j, k>>[2] = j
      /\ <<"system", j, k>>[3] = k
  OBVIOUS
<1>2. <<"warmup">>[1] = "warmup" /\ <<"agent prompt">>[1] = "agent prompt"
  OBVIOUS
<1>3. \A u, v \in Nat : <<"system", u, v>>[2] = u /\ <<"system", u, v>>[3] = v
  OBVIOUS
<1>4. QED
  BY <1>1, <1>2, <1>3

LEMMA InitIInv == Init => IInv
<1> SUFFICES ASSUME Init PROVE IInv
  OBVIOUS
<1>1. AgentTypeOK /\ CacheTypeOK /\ Truthful
  BY AgentInitTyped, CacheInitTyped DEF Init
<1>2. /\ cached = {} /\ busy = {} /\ at = "turn1" /\ pc # "stream"
      /\ reused = 0 /\ prompt = <<>> /\ turn = 0 /\ results = <<>>
  BY DEF Init, ServerInit, AgentInit, CacheInit
<1>3. ServerTypeOK /\ Answering /\ Opened
  <2>1. pc \in {"warmup", "next"}
    BY DEF Init, AgentInit
  <2> QED
    BY <1>2, <2>1, SlotsAssumption, FS_EmptySet DEF ServerTypeOK, Answering, Opened
<1>4. reused \in 0..Len(prompt) /\ MissNeverReuses
  BY <1>2 DEF MissNeverReuses
<1>5. RejectionEndsRun /\ NoneRejected
  BY <1>2 DEF RejectionEndsRun, NoneRejected
<1>6. Fresh /\ Continues
  BY <1>2 DEF Fresh, Continues
<1>7. TimesAdd
  BY SumOfNone DEF Init, AgentInit, Asked, TimesAdd
<1>8. QED
  BY <1>1, <1>3, <1>4, <1>5, <1>6, <1>7 DEF IInv

\* The invariants about rejections.
LEMMA RejectionStep ==
    ASSUME AgentTypeOK, RejectionEndsRun, NoneRejected, AgentNext
    PROVE  RejectionEndsRun' /\ NoneRejected'
<1>0. args' = args
  BY DEF AgentNext, WarmUp, Ask, OllamaLine, OpenAiLine, Line, EndTurn, EndRefused, AgentDies,
         Silence, TimeOut, ErrorBodyRaises, Dies, Lost
<1>1. CASE args.provider = "ollama"
  BY <1>0, <1>1 DEF RejectionEndsRun, NoneRejected
<1>2. ASSUME args.provider # "ollama", pc \in {"warmup", "next", "stream"}, results' = results
      PROVE  RejectionEndsRun' /\ NoneRejected'
  BY <1>0, <1>2 DEF RejectionEndsRun, NoneRejected
<1>3. CASE WarmUp \/ (\E rejected \in BOOLEAN : Ask(rejected))
           \/ (\E kind \in {"chunk", "text"} : OllamaLine(kind) \/ OpenAiLine(kind))
  <2>1. pc \in {"warmup", "next", "stream"} /\ results' = results
    BY <1>3 DEF WarmUp, Ask, OllamaLine, OpenAiLine, Line
  <2> QED
    BY <1>1, <1>2, <2>1
<1>4. ASSUME args.provider # "ollama", pc = "stream", results' = Append(results, TurnResult)
      PROVE  /\ Len(results') \in Nat /\ DOMAIN results' = 1..Len(results')
             /\ \A i \in DOMAIN results' :
                   results'[i].rejected => i = Len(results') /\ resp.rejected
  <2>1. results \in Seq(Turns) /\ \A i \in DOMAIN results : ~results[i].rejected
    BY <1>4 DEF NoneRejected, AgentTypeOK
  <2>2. PICK t \in Turns : t = TurnResult /\ t.rejected = resp.rejected
    BY TurnResultIs
  <2>3. results' = Append(results, t)
    BY <1>4, <2>2
  <2>4. /\ results' \in Seq(Turns) /\ Len(results') = Len(results) + 1
        /\ results'[Len(results')] = t
        /\ \A i \in 1..Len(results) : results'[i] = results[i]
    BY <2>1, <2>3
  <2> QED
    BY <2>1, <2>2, <2>4
<1>5. CASE EndTurn
  <2>1. pc = "stream" /\ results' = Append(results, TurnResult) /\ ~Refused
    BY <1>5 DEF EndTurn
  <2>2. CASE args.provider # "ollama"
    <3>1. \A i \in DOMAIN results' : ~results'[i].rejected
      BY <1>4, <2>1, <2>2 DEF Refused
    <3> QED
      BY <3>1 DEF RejectionEndsRun, NoneRejected
  <2> QED
    BY <1>1, <2>2
<1>6. CASE EndRefused
  <2>1. pc = "stream" /\ results' = Append(results, TurnResult) /\ pc' = "done"
    BY <1>6 DEF EndRefused
  <2>2. CASE args.provider # "ollama"
    BY <1>4, <2>1, <2>2 DEF RejectionEndsRun, NoneRejected
  <2> QED
    BY <1>1, <2>2
<1>7. CASE AgentDies \/ Silence \/ TimeOut \/ ErrorBodyRaises
  <2>1. results' = <<>>
    BY <1>7 DEF AgentDies, Silence, TimeOut, ErrorBodyRaises, Dies, Lost
  <2> QED
    BY <2>1 DEF RejectionEndsRun, NoneRejected
<1>8. QED
  BY <1>3, <1>5, <1>6, <1>7 DEF AgentNext

\* Nonces are never repeated within a run, whoever else uses the server.
LEMMA FreshStep ==
    ASSUME AgentTypeOK, CacheTypeOK, ServerTypeOK, Answering, Fresh, Next
    PROVE  Fresh'
<1>1. SUFFICES ASSUME args'.mode = "miss", pc' \in {"warmup", "next", "stream"},
                      NEW s \in cached', NEW j \in Nat, NEW k \in Nat,
                      s[1] = <<"system", j, k>>
               PROVE  \/ j < round'
                      \/ j = round' /\ k < turn'
                      \/ j = round' /\ k = turn' /\ pc' = "stream"
  BY DEF Fresh
<1>2. round \in Nat /\ turn \in Nat
  BY AgentAssumption DEF AgentTypeOK
<1>3. <<"system", j, k>> # <<"warmup">> /\ <<"system", j, k>> # <<"agent prompt">>
  BY Nonces
<1>4. CASE CacheNext /\ UNCHANGED agentVars
  <2>1. UNCHANGED <<args, pc, round, turn>>
    BY <1>4 DEF agentVars
  <2>2. s \in cached
    BY <1>1, <1>3, <1>4, CacheServed DEF AddsOnly, Begins
  <2> QED
    BY <1>1, <2>1, <2>2 DEF Fresh
<1>5. CASE AgentNext /\ UNCHANGED cacheVars
  <2>0. s \in cached \/ s[1] = System
    BY <1>1, <1>3, <1>5, AgentServed DEF AddsOnly, Begins
  <2>1. args' = args /\ args.mode = "miss"
    BY <1>1, <1>5 DEF AgentNext, WarmUp, Ask, OllamaLine, OpenAiLine, Line, EndTurn, EndRefused,
         AgentDies, Silence, TimeOut, ErrorBodyRaises, Dies, Lost
  <2>2. s[1] = System => j = round /\ k = turn
    BY <1>1, <1>2, <2>1, Nonces DEF System
  <2>3. CASE WarmUp
    <3>1. pc = "warmup" /\ pc' = "next" /\ UNCHANGED <<round, turn>>
      BY <2>3 DEF WarmUp
    <3>2. s \in cached
      <4>1. PICK m \in Message : m = <<"warmup">>
        BY SomeWords, WordsAreMessages
      <4>2. <<m>>[1] = m
        OBVIOUS
      <4>3. cached' = cached \/ Remember(<<<<"warmup">>>>)
        BY <2>3 DEF WarmUp, serverVars
      <4>4. s \in cached \/ s = <<m>>
        BY <4>1, <4>3 DEF Remember
      <4> QED
        BY <1>1, <1>3, <4>1, <4>2, <4>4
    <3> QED
      BY <1>1, <1>2, <2>1, <3>1, <3>2 DEF Fresh
  <2>4. ASSUME NEW rejected \in BOOLEAN, Ask(rejected)
        PROVE  \/ j < round'
               \/ j = round' /\ k < turn'
               \/ j = round' /\ k = turn' /\ pc' = "stream"
    <3>1. pc = "next" /\ pc' = "stream" /\ UNCHANGED <<round, turn>>
      BY <2>4 DEF Ask
    <3> QED
      BY <1>1, <1>2, <2>0, <2>1, <2>2, <3>1 DEF Fresh
  <2>5. ASSUME NEW kind \in {"chunk", "text"}, OllamaLine(kind) \/ OpenAiLine(kind)
        PROVE  \/ j < round'
               \/ j = round' /\ k < turn'
               \/ j = round' /\ k = turn' /\ pc' = "stream"
    <3>1. UNCHANGED <<pc, round, turn, cached>>
      BY <2>5, LineTyped DEF serverVars
    <3> QED
      BY <1>1, <2>1, <3>1 DEF Fresh
  <2>6. CASE EndTurn
    <3>1. /\ pc = "stream" /\ pc' # "stream"
          /\ \/ turn' = turn + 1 /\ round' = round
             \/ turn' = 0 /\ round' = round + 1
      BY <2>6 DEF EndTurn
    <3>2. j < round \/ (j = round /\ (k < turn \/ k = turn))
      BY <1>1, <1>2, <2>0, <2>1, <2>2, <3>1 DEF Fresh
    <3> QED
      BY <1>2, <3>1, <3>2
  <2>7. CASE EndRefused \/ AgentDies \/ Silence \/ TimeOut \/ ErrorBodyRaises
    BY <1>1, <2>7 DEF EndRefused, AgentDies, Silence, TimeOut, ErrorBodyRaises, Dies
  <2> QED
    BY <1>5, <2>3, <2>4, <2>5, <2>6, <2>7 DEF AgentNext
<1>6. QED
  BY <1>4, <1>5 DEF Next

\* A request with a nonce that no kept prompt has finds nothing cached.
LEMMA MissStep ==
    ASSUME AgentTypeOK, ServerTypeOK, Fresh, reused \in 0..Len(prompt), MissNeverReuses,
           AgentNext
    PROVE  (reused \in 0..Len(prompt))' /\ MissNeverReuses'
<1>1. args' = args
  BY DEF AgentNext, WarmUp, Ask, OllamaLine, OpenAiLine, Line, EndTurn, EndRefused, AgentDies,
         Silence, TimeOut, ErrorBodyRaises, Dies, Lost
<1>2. ASSUME NEW rejected \in BOOLEAN, Ask(rejected)
      PROVE  (reused \in 0..Len(prompt))' /\ MissNeverReuses'
  <2>1. /\ Messages \in Seq(Message) /\ Messages # <<>> /\ Messages[1] = System
    BY PromptIs
  <2>2. /\ Reuse(Messages) \in 0..Len(Messages)
        /\ Reuse(Messages) # 0 =>
              \E s \in cached : IsPrefix(SubSeq(Messages, 1, Reuse(Messages)), s)
    BY <2>1, ReuseIs
  <2>3. prompt' = Messages /\ (reused' = 0 \/ reused' = Reuse(Messages)) /\ pc = "next"
    BY <1>2 DEF Ask
  <2>4. args.mode = "miss" => Reuse(Messages) = 0
    <3> SUFFICES ASSUME args.mode = "miss", Reuse(Messages) # 0 PROVE FALSE
      OBVIOUS
    <3>1. PICK s \in cached : IsPrefix(SubSeq(Messages, 1, Reuse(Messages)), s)
      BY <2>2
    <3>2. s \in Seq(Message) /\ Reuse(Messages) \in 1..Len(Messages)
      BY <2>1, <2>2 DEF ServerTypeOK
    <3>3. s[1] = System
      BY <2>1, <3>1, <3>2, SameFirst
    <3>4. System = <<"system", round, turn>> /\ round \in Nat /\ turn \in Nat
      BY AgentAssumption DEF System, AgentTypeOK
    <3>5. \/ round < round
          \/ round = round /\ turn < turn
          \/ round = round /\ turn = turn /\ pc = "stream"
      BY <2>3, <3>3, <3>4 DEF Fresh
    <3> QED
      BY <2>3, <3>4, <3>5
  <2>5. 0 \in 0..Len(Messages)
    BY <2>1
  <2> QED
    BY <1>1, <2>2, <2>3, <2>4, <2>5 DEF MissNeverReuses
<1>3. CASE UNCHANGED <<reused, prompt>>
  BY <1>1, <1>3 DEF MissNeverReuses
<1>4. CASE reused' = 0 /\ prompt' \in Seq(Message)
  BY <1>1, <1>4 DEF MissNeverReuses
<1>5. ASSUME NEW kind \in {"chunk", "text"}, OllamaLine(kind) \/ OpenAiLine(kind)
      PROVE  UNCHANGED <<reused, prompt>>
  BY <1>5, LineTyped
<1>6. ASSUME EndTurn \/ EndRefused \/ AgentDies \/ Silence \/ TimeOut \/ ErrorBodyRaises
      PROVE  reused' = 0 /\ prompt' \in Seq(Message)
  <2>1. reused' = 0 /\ (prompt' = prompt \/ prompt' = <<>>)
    BY <1>6 DEF EndTurn, EndRefused, AgentDies, Silence, TimeOut, ErrorBodyRaises, Dies,
         MeasureReturns
  <2>2. prompt \in Seq(Message) /\ <<>> \in Seq(Message)
    BY DEF AgentTypeOK
  <2> QED
    BY <2>1, <2>2, Zenon
<1>7. QED
  BY <1>2, <1>3, <1>4, <1>5, <1>6 DEF AgentNext, WarmUp

LEMMA Regroup ==
    \A a, b, c \in Seq(Message) : a \o (b \o c) = (a \o b) \o c
<1> TAKE a, b, c \in Seq(Message)
<1> QED
  BY ConcatAssociative

LEMMA One == \A x \in Message : <<x>> \in Seq(Message) /\ Len(<<x>>) = 1 /\ <<x>>[1] = x
OBVIOUS

LEMMA OneMore ==
    ASSUME NEW h \in Seq(Message), NEW t \in Seq(Message), NEW m \in Seq(Message),
           Len(t) = 1, Len(m) = 3, t[1] = m[1]
    PROVE  IsPrefix(h \o t, h \o m)
<1>1. /\ h \o t \in Seq(Message) /\ Len(h \o t) = Len(h) + Len(t)
      /\ \A i \in 1..(Len(h) + Len(t)) : (h \o t)[i] = IF i <= Len(h) THEN h[i] ELSE t[i - Len(h)]
  BY ConcatProperties
<1>2. /\ h \o m \in Seq(Message) /\ Len(h \o m) = Len(h) + Len(m)
      /\ \A i \in 1..(Len(h) + Len(m)) : (h \o m)[i] = IF i <= Len(h) THEN h[i] ELSE m[i - Len(h)]
  BY ConcatProperties
<1>3. ASSUME NEW i \in 1..(Len(h) + 1) PROVE (h \o t)[i] = (h \o m)[i]
  <2>1. /\ i \in 1..(Len(h) + Len(t)) /\ i \in 1..(Len(h) + Len(m))
        /\ ~(i <= Len(h)) => i - Len(h) = 1
    OBVIOUS
  <2>2. CASE i <= Len(h)
    BY <1>1, <1>2, <2>1, <2>2
  <2>3. CASE ~(i <= Len(h))
    BY <1>1, <1>2, <2>1, <2>3
  <2> QED
    BY <2>2, <2>3
<1>4. PICK u \in Seq(Message), v \in Seq(Message) : u = h \o t /\ v = h \o m
  BY <1>1, <1>2, Zenon
<1>5. Len(u) = Len(h) + 1 /\ Len(v) = Len(h) + 3 /\ Len(h) \in Nat
  BY <1>1, <1>2, <1>4
<1>6. \A i \in 1..Len(u) : u[i] = v[i]
  BY <1>3, <1>4, <1>5
<1>7. IsPrefix(u, v)
  BY <1>5, <1>6, PrefixIs
<1>8. QED
  BY <1>4, <1>7, Zenon

\* In hit mode the history after a turn continues the request of the turn.
LEMMA ContinuesStep ==
    ASSUME AgentTypeOK, Continues, AgentNext
    PROVE  Continues'
<1>1. args' = args
  BY DEF AgentNext, WarmUp, Ask, OllamaLine, OpenAiLine, Line, EndTurn, EndRefused, AgentDies,
         Silence, TimeOut, ErrorBodyRaises, Dies, Lost
<1>2. CASE EndTurn
  <2> SUFFICES ASSUME args.mode = "hit", pc' = "next", turn' > 0
               PROVE  IsPrefix(prompt', <<System'>> \o history')
    BY <1>1 DEF Continues
  <2>1. /\ history' = history \o Exchange /\ prompt' = prompt /\ prompt = Messages
    BY <1>2 DEF EndTurn, AgentTypeOK
  <2>2. System \in Message /\ System' = System
    BY <1>1, PromptIs DEF System
  <2>3. Exchange \in Seq(Message) /\ Len(Exchange) = 3 /\ Exchange[1] = Task /\ Task \in Message
    BY PromptIs
  <2>4. history \in Seq(Message) /\ Messages = (<<System>> \o history) \o <<Task>>
    BY DEF AgentTypeOK, Messages
  <2>5. PICK h \in Seq(Message) : h = <<System>> \o history
    <3>1. <<System>> \in Seq(Message)
      BY <2>2, One, Zenon
    <3> QED
      BY <2>4, <3>1, Joined, Zenon
  <2>6. <<System>> \o (history \o Exchange) = h \o Exchange
    <3>1. PICK one \in Seq(Message) : one = <<System>>
      BY <2>2, One, Zenon
    <3>2. PICK more \in Seq(Message) : more = Exchange
      BY <2>3
    <3>3. one \o (history \o more) = (one \o history) \o more
      BY <2>4, Regroup, Zenon
    <3> QED
      BY <2>5, <3>1, <3>2, <3>3, Zenon
  <2>7. IsPrefix(h \o <<Task>>, h \o Exchange)
    <3>1. PICK m \in Seq(Message) : m = Exchange /\ Len(m) = 3 /\ m[1] = Task
      BY <2>3
    <3>2. PICK t \in Seq(Message) : t = <<Task>> /\ Len(t) = 1 /\ t[1] = Task
      BY <2>3, One, Zenon
    <3>3. IsPrefix(h \o t, h \o m)
      BY <3>1, <3>2, OneMore
    <3> QED
      BY <3>1, <3>2, <3>3
  <2> QED
    BY <2>1, <2>2, <2>4, <2>5, <2>6, <2>7
<1>3. CASE pc' # "next"
  BY <1>3 DEF Continues
<1>4. CASE turn' = 0
  BY <1>4 DEF Continues
<1>5. CASE WarmUp
  <2>1. pc = "warmup" /\ UNCHANGED <<turn, args, history, prompt>>
    BY <1>5 DEF WarmUp
  <2>2. turn = 0
    BY <2>1 DEF AgentTypeOK
  <2> QED
    BY <1>4, <2>1, <2>2
<1>6. ASSUME \/ \E rejected \in BOOLEAN : Ask(rejected)
             \/ \E kind \in {"chunk", "text"} : OllamaLine(kind) \/ OpenAiLine(kind)
             \/ EndRefused \/ AgentDies \/ Silence \/ TimeOut \/ ErrorBodyRaises
      PROVE  pc' # "next"
  BY <1>6 DEF Ask, OllamaLine, OpenAiLine, Line, EndRefused, AgentDies, Silence, TimeOut,
       ErrorBodyRaises, Dies
<1>7. QED
  BY <1>2, <1>3, <1>5, <1>6 DEF AgentNext

\* A request of hit mode finds all of the request before it, if that is kept.
LEMMA HitStep ==
    ASSUME AgentTypeOK, ServerTypeOK, Continues, AgentNext,
           pc = "next", pc' = "stream", args.mode = "hit", turn > 0, ~resp'.rejected,
           Keeps(prompt)
    PROVE  reused' >= Len(prompt)
<1>1. PICK rejected \in BOOLEAN : Ask(rejected)
  BY DEF AgentNext, WarmUp, OllamaLine, OpenAiLine, Line, EndTurn, EndRefused, AgentDies,
         Silence, TimeOut, ErrorBodyRaises, Dies, Lost
<1>2. reused' = Reuse(Messages)
  BY <1>1 DEF Ask, Asked
<1>3. /\ Messages \in Seq(Message) /\ System \in Message /\ Task \in Message
      /\ history \in Seq(Message) /\ prompt \in Seq(Message)
  BY PromptIs DEF AgentTypeOK
<1>4. IsPrefix(prompt, Messages)
  <2>1. /\ <<System>> \o history \in Seq(Message) /\ <<Task>> \in Seq(Message)
        /\ Messages = (<<System>> \o history) \o <<Task>>
    BY <1>3 DEF Messages
  <2>2. IsPrefix(prompt, <<System>> \o history)
    BY DEF Continues
  <2> QED
    BY <1>3, <2>1, <2>2, PrefixGrows
<1>5. Len(prompt) \in 0..Len(Messages) /\ SubSeq(Messages, 1, Len(prompt)) = prompt
  <2>1. /\ Len(prompt) <= Len(Messages) /\ Len(prompt) \in Nat
        /\ SubSeq(prompt, 1, Len(prompt)) = SubSeq(Messages, 1, Len(prompt))
    BY <1>3, <1>4 DEF IsPrefix
  <2>2. SubSeq(prompt, 1, Len(prompt)) = prompt
    BY <1>3
  <2> QED
    BY <1>3, <2>1, <2>2
<1>6. \E s \in cached : IsPrefix(SubSeq(Messages, 1, Len(prompt)), s)
  BY <1>5 DEF Keeps
<1>7. QED
  BY <1>2, <1>3, <1>5, <1>6, ReuseIs

----------------------------------------------------------------------------
LEMMA StepIInv == IInv /\ [Next]_allVars => IInv'
<1> SUFFICES ASSUME IInv, [Next]_allVars PROVE IInv'
  OBVIOUS
<1>0. /\ AgentTypeOK /\ CacheTypeOK /\ Truthful /\ ServerTypeOK /\ Answering
      /\ reused \in 0..Len(prompt) /\ MissNeverReuses /\ RejectionEndsRun /\ NoneRejected
      /\ Opened /\ Fresh /\ Continues /\ TimesAdd
  BY DEF IInv
<1>1. CASE AgentNext /\ UNCHANGED cacheVars
  <2>1. AgentTypeOK'
    BY <1>0, <1>1, AgentTyped
  <2>2. CacheTypeOK' /\ Truthful'
    BY <1>0, <1>1 DEF cacheVars, CacheTypeOK, Truthful, Turn1, Turn2
  <2>3. ServerTypeOK' /\ Answering' /\ Opened'
    BY <1>0, <1>1, AgentServed, OpenedStep DEF Next
  <2>4. (reused \in 0..Len(prompt))' /\ MissNeverReuses'
    BY <1>0, <1>1, MissStep
  <2>5. RejectionEndsRun' /\ NoneRejected'
    BY <1>0, <1>1, RejectionStep
  <2>6. Fresh'
    BY <1>0, <1>1, FreshStep DEF Next
  <2>7. Continues'
    BY <1>0, <1>1, ContinuesStep
  <2>8. TimesAdd'
    BY <1>0, <1>1, StepTimesAdd DEF AgentTypeOK
  <2> QED
    BY <2>1, <2>2, <2>3, <2>4, <2>5, <2>6, <2>7, <2>8 DEF IInv
<1>2. CASE CacheNext /\ UNCHANGED agentVars
  <2>1. UNCHANGED <<args, pc, round, turn, history, prompt, reused, resp, results>>
    BY <1>2 DEF agentVars
  <2>2. AgentTypeOK' /\ Continues'
    <3>1. Messages' = Messages /\ System' = System
      BY <2>1 DEF Messages, System, Task
    <3> QED
      BY <1>0, <2>1, <3>1 DEF AgentTypeOK, Continues
  <2>3. /\ (reused \in 0..Len(prompt))' /\ MissNeverReuses'
        /\ RejectionEndsRun' /\ NoneRejected'
    BY <1>0, <2>1 DEF MissNeverReuses, RejectionEndsRun, NoneRejected
  <2>4. CacheTypeOK' /\ Truthful'
    BY <1>0, <1>2, CacheTyped
  <2>5. ServerTypeOK' /\ Answering' /\ Opened'
    BY <1>0, <1>2, CacheServed, OpenedStep DEF Next
  <2>6. Fresh'
    BY <1>0, <1>2, FreshStep DEF Next
  <2>7. TimesAdd'
    BY <1>0, <2>1 DEF TimesAdd
  <2> QED
    BY <2>2, <2>3, <2>4, <2>5, <2>6, <2>7 DEF IInv
<1>3. CASE UNCHANGED allVars
  <2>1. /\ UNCHANGED <<args, pc, round, turn, history, prompt, reused, resp, results>>
        /\ UNCHANGED <<figures, at, request, found, kept, rounds>> /\ UNCHANGED <<cached, busy>>
    BY <1>3 DEF allVars, agentVars, cacheVars, serverVars
  <2>2. AgentTypeOK' /\ Continues'
    <3>1. Messages' = Messages /\ System' = System
      BY <2>1 DEF Messages, System, Task
    <3> QED
      BY <1>0, <2>1, <3>1 DEF AgentTypeOK, Continues
  <2>3. /\ (reused \in 0..Len(prompt))' /\ MissNeverReuses'
        /\ RejectionEndsRun' /\ NoneRejected' /\ Fresh'
    BY <1>0, <2>1 DEF MissNeverReuses, RejectionEndsRun, NoneRejected, Fresh
  <2>4. CacheTypeOK' /\ Truthful'
    BY <1>0, <2>1 DEF CacheTypeOK, Truthful, Turn1, Turn2
  <2>5. ServerTypeOK' /\ Answering' /\ Opened'
    BY <1>0, <2>1 DEF ServerTypeOK, Answering, Opened, Turn1
  <2>6. TimesAdd'
    BY <1>0, <2>1 DEF TimesAdd
  <2> QED
    BY <2>2, <2>3, <2>4, <2>5, <2>6 DEF IInv
<1>4. QED
  BY <1>1, <1>2, <1>3 DEF Next

LEMMA Inductive == Spec => []IInv
BY InitIInv, StepIInv, PTL DEF Spec

\* The variables of both scripts and of the server keep their types, and the
\* server keeps what it works on.
THEOREM BenchmarksTypeCorrect == Spec => []TypeOK
<1>1. IInv => TypeOK
  BY DEF IInv, TypeOK, AgentTypeOK, CacheTypeOK, ServerTypeOK, Locals
<1>2. QED
  BY <1>1, Inductive, PTL

\* With --cache-mode miss no request of agent-benchmark.py finds any of its
\* prompt cached (1208-1210).
THEOREM MissesMiss == Spec => []MissNeverReuses
<1>1. IInv => MissNeverReuses
  BY DEF IInv
<1>2. QED
  BY <1>1, Inductive, PTL

\* The first rejection that agent-benchmark.py notices is its last request
\* (1219-1226).
THEOREM RejectionsEndRuns == Spec => []RejectionEndsRun
<1>1. IInv => RejectionEndsRun
  BY DEF IInv
<1>2. QED
  BY <1>1, Inductive, PTL

\* The token latencies of a turn fit into the time it has taken, and none was
\* stamped before the time to first token (1041-1122).
THEOREM TurnsAreTimed == Spec => []TurnTimesFit
<1>1. IInv => TurnTimesFit
  BY TimesFit DEF IInv
<1>2. QED
  BY <1>1, Inductive, PTL

\* The p95 of the summary is a measured value and bounds the median and 95 % of
\* the values, however many there are (summary 100-123).
THEOREM SummariesBracket == Spec => []PercentilesBracket
<1>1. IInv => PercentilesBracket
  BY Brackets DEF IInv, AgentTypeOK
<1>2. QED
  BY <1>1, Inductive, PTL

LEMMA VerdictIs ==
    ASSUME IInv, at = "done"
    PROVE  VerificationIsExplained /\ AlertIsExplained
<1>1. rounds \in Seq(Reports) /\ Len(rounds) = CacheRounds
  BY DEF IInv, CacheTypeOK
<1>2. Len(rounds) \in DOMAIN rounds
  BY <1>1, CacheAssumption
<1>3. Last(rounds) = rounds[Len(rounds)]
  BY DEF Last
<1>4. QED
  BY <1>2, <1>3 DEF IInv, Truthful, Verdict, VerificationIsExplained, AlertIsExplained

\* "VERIFICATION" in the report of benchmark-agentic-cache.py means that the server
\* still had all of turn 1, whatever else it was asked meanwhile, or that it counts
\* the chat template (501-503).
THEOREM VerificationsAreExplained == Spec => []VerificationIsExplained
<1>1. IInv => VerificationIsExplained
  BY VerdictIs DEF VerificationIsExplained
<1>2. QED
  BY <1>1, Inductive, PTL

\* "ALERT" in its report has one of the two explanations (504-509).
THEOREM AlertsAreExplained == Spec => []AlertIsExplained
<1>1. IInv => AlertIsExplained
  BY VerdictIs DEF AlertIsExplained
<1>2. QED
  BY <1>1, Inductive, PTL

\* With --cache-mode hit a request of agent-benchmark.py finds the whole of the
\* one before it, unless the server has dropped that (1242-1248).
THEOREM TurnsReuse == Spec => TurnsReuseThePrefix
<1>1. ASSUME IInv, [Next]_allVars
      PROVE  [(pc = "next" /\ pc' = "stream" /\ args.mode = "hit" /\ turn > 0
                  /\ ~resp'.rejected /\ Keeps(prompt))
                 => reused' >= Len(prompt)]_agentVars
  <2>1. CASE AgentNext
    BY <1>1, <2>1, HitStep DEF IInv
  <2>2. CASE UNCHANGED agentVars
    BY <2>2
  <2>3. AgentNext \/ UNCHANGED agentVars
    BY <1>1 DEF Next, allVars
  <2> QED
    BY <2>1, <2>2, <2>3
<1>2. QED
  BY <1>1, Inductive, PTL DEF Spec, TurnsReuseThePrefix

----------------------------------------------------------------------------
(* Every step brings a benchmark nearer to its end.                        *)

\* The turns that are not over.
TurnsLeft == (Rounds - round) * TurnsPerRound - turn

LEMMA Product ==
    ASSUME NEW n \in Nat, NEW k \in Nat
    PROVE  n * k \in Nat /\ (n + 1) * k = n * k + k
OBVIOUS

LEMMA AgentWorkIs ==
    /\ pc = "warmup" => AgentWork = TurnsLeft * (MaxLines + 3) + 1
    /\ pc = "next" => AgentWork = TurnsLeft * (MaxLines + 3)
    /\ pc = "stream" => AgentWork = TurnsLeft * (MaxLines + 3) - 1 - resp.clock
    /\ pc = "silent" => AgentWork = 1
    /\ pc \in {"done", "died"} => AgentWork = 0
BY DEF AgentWork, TurnsLeft

LEMMA AgentWorkNext ==
    /\ pc' = "next" => AgentWork' = TurnsLeft' * (MaxLines + 3)
    /\ pc' = "stream" => AgentWork' = TurnsLeft' * (MaxLines + 3) - 1 - resp'.clock
    /\ pc' = "silent" => AgentWork' = 1
    /\ pc' \in {"done", "died"} => AgentWork' = 0
BY DEF AgentWork, TurnsLeft

\* While the script runs there is a turn left, and room for its lines.
LEMMA TurnsAreLeft ==
    ASSUME AgentTypeOK, pc \in {"warmup", "next", "stream"}
    PROVE  \E n \in Nat :
              /\ TurnsLeft = n + 1
              /\ n * (MaxLines + 3) \in Nat
              /\ TurnsLeft * (MaxLines + 3) = n * (MaxLines + 3) + MaxLines + 3
<1>1. /\ Rounds \in Nat /\ TurnsPerRound \in Nat /\ MaxLines \in Nat
      /\ round \in Nat /\ round < Rounds /\ turn \in Nat /\ turn < TurnsPerRound
  BY AgentAssumption DEF AgentTypeOK
<1>2. PICK m \in Nat : Rounds - round = m + 1
  <2>1. Rounds - round - 1 \in Nat
    BY <1>1
  <2> QED
    BY <1>1, <2>1
<1>3. m * TurnsPerRound \in Nat /\ (m + 1) * TurnsPerRound = m * TurnsPerRound + TurnsPerRound
  BY <1>1, Product
<1>4. TurnsLeft = m * TurnsPerRound + TurnsPerRound - turn
  <2>1. (Rounds - round) * TurnsPerRound = (m + 1) * TurnsPerRound
    BY <1>2
  <2>2. TurnsLeft = (m + 1) * TurnsPerRound - turn
    BY <2>1, Zenon DEF TurnsLeft
  <2> QED
    BY <1>1, <1>3, <2>2
<1>5. PICK n \in Nat : TurnsLeft = n + 1
  <2>1. m * TurnsPerRound + TurnsPerRound - turn - 1 \in Nat
    BY <1>1, <1>3
  <2> QED
    BY <1>1, <1>3, <1>4, <2>1
<1>6. MaxLines + 3 \in Nat
  BY <1>1
<1>7. /\ n * (MaxLines + 3) \in Nat
      /\ (n + 1) * (MaxLines + 3) = n * (MaxLines + 3) + (MaxLines + 3)
  BY <1>6, Product
<1>8. TurnsLeft * (MaxLines + 3) = n * (MaxLines + 3) + MaxLines + 3
  BY <1>1, <1>5, <1>7
<1>9. QED
  BY <1>5, <1>7, <1>8

\* The end of a turn takes it off.
LEMMA TurnTaken ==
    ASSUME AgentTypeOK, EndTurn
    PROVE  TurnsLeft' = TurnsLeft - 1
<1>1. /\ Rounds \in Nat /\ TurnsPerRound \in Nat
      /\ round \in Nat /\ round < Rounds /\ turn \in Nat /\ turn < TurnsPerRound
  BY AgentAssumption DEF AgentTypeOK, EndTurn
<1>2. CASE turn + 1 < TurnsPerRound
  <2>1. round' = round /\ turn' = turn + 1
    BY <1>2 DEF EndTurn
  <2>2. (Rounds - round) * TurnsPerRound \in Int
    BY <1>1
  <2> QED
    BY <1>1, <2>1, <2>2 DEF TurnsLeft
<1>3. CASE ~(turn + 1 < TurnsPerRound)
  <2>1. round' = round + 1 /\ turn' = 0 /\ turn + 1 = TurnsPerRound
    BY <1>1, <1>3 DEF EndTurn
  <2>2. PICK m \in Nat : Rounds - round = m + 1
    <3>1. Rounds - round - 1 \in Nat
      BY <1>1
    <3> QED
      BY <1>1, <3>1
  <2>3. m * TurnsPerRound \in Nat /\ (m + 1) * TurnsPerRound = m * TurnsPerRound + TurnsPerRound
    BY <1>1, Product
  <2>4. Rounds - round' = m
    BY <1>1, <2>1, <2>2
  <2>5. TurnsLeft = m * TurnsPerRound + TurnsPerRound - turn
    <3>1. (Rounds - round) * TurnsPerRound = (m + 1) * TurnsPerRound
      BY <2>2
    <3>2. TurnsLeft = (m + 1) * TurnsPerRound - turn
      BY <3>1, Zenon DEF TurnsLeft
    <3> QED
      BY <1>1, <2>3, <3>2
  <2>6. TurnsLeft' = m * TurnsPerRound - 0
    BY <2>1, <2>4 DEF TurnsLeft
  <2> QED
    BY <1>1, <2>1, <2>3, <2>5, <2>6
<1>4. QED
  BY <1>2, <1>3

LEMMA AgentStepWorks ==
    ASSUME AgentTypeOK, AgentNext
    PROVE  AgentWork' \in 0..(AgentWork - 1)
<1>0. CASE TimeOut
  <2>1. pc = "silent" /\ pc' = "died"
    BY <1>0 DEF TimeOut, Dies
  <2>2. AgentWork = 1 /\ AgentWork' = 0
    BY <2>1, AgentWorkIs, AgentWorkNext
  <2> QED
    BY <2>2
<1> SUFFICES ASSUME ~TimeOut PROVE AgentWork' \in 0..(AgentWork - 1)
  BY <1>0
<1>1. pc \in {"warmup", "next", "stream"}
  BY DEF AgentNext, WarmUp, Ask, OllamaLine, OpenAiLine, Line, EndTurn, EndRefused, AgentDies,
         Silence, ErrorBodyRaises
<1>2. PICK n \in Nat :
         /\ TurnsLeft = n + 1
         /\ n * (MaxLines + 3) \in Nat
         /\ TurnsLeft * (MaxLines + 3) = n * (MaxLines + 3) + MaxLines + 3
  BY <1>1, TurnsAreLeft
<1>3. PICK rest \in Nat, work \in Nat :
         /\ rest = n * (MaxLines + 3)
         /\ work = TurnsLeft * (MaxLines + 3)
         /\ work = rest + MaxLines + 3
  BY <1>2, AgentAssumption
<1>4. /\ MaxLines \in Nat /\ resp.clock \in 0..MaxLines
      /\ pc = "warmup" => AgentWork = work + 1
      /\ pc = "next" => AgentWork = work
      /\ pc = "stream" => AgentWork = work - 1 - resp.clock
  BY <1>3, AgentWorkIs, AgentAssumption DEF AgentTypeOK, Locals
<1>5. AgentWork \in Nat \ {0}
  BY <1>1, <1>3, <1>4
<1>6. CASE WarmUp
  <2>1. pc = "warmup" /\ pc' = "next" /\ TurnsLeft' = TurnsLeft
    BY <1>6 DEF WarmUp, TurnsLeft
  <2>2. AgentWork' = work /\ AgentWork = work + 1
    BY <1>3, <1>4, <2>1, AgentWorkNext
  <2> QED
    BY <2>2
<1>7. ASSUME NEW rejected \in BOOLEAN, Ask(rejected) PROVE AgentWork' \in 0..(AgentWork - 1)
  <2>1. pc = "next" /\ pc' = "stream" /\ TurnsLeft' = TurnsLeft /\ resp'.clock = 0
    BY <1>7 DEF Ask, Asked, TurnsLeft
  <2>2. AgentWork' = work - 1 - 0 /\ AgentWork = work
    BY <1>3, <1>4, <2>1, AgentWorkNext
  <2> QED
    BY <1>5, <2>2
<1>8. ASSUME NEW kind \in {"chunk", "text"}, OllamaLine(kind) \/ OpenAiLine(kind)
      PROVE  AgentWork' \in 0..(AgentWork - 1)
  <2>1. /\ pc = "stream" /\ pc' = "stream" /\ TurnsLeft' = TurnsLeft
        /\ resp'.clock = resp.clock + 1 /\ resp.clock < MaxLines
    <3>1. UNCHANGED <<pc, round, turn>> /\ resp'.clock = resp.clock + 1
      BY <1>8, LineTyped
    <3> QED
      BY <1>8, <3>1 DEF OllamaLine, OpenAiLine, Line, TurnsLeft
  <2>2. AgentWork' = work - 1 - (resp.clock + 1) /\ AgentWork = work - 1 - resp.clock
    BY <1>3, <1>4, <2>1, AgentWorkNext
  <2> QED
    BY <1>3, <1>4, <2>1, <2>2
<1>9. CASE EndTurn
  <2>1. pc = "stream" /\ pc' \in {"next", "done"}
    BY <1>9 DEF EndTurn
  <2>2. TurnsLeft' = n
    BY <1>2, <1>9, TurnTaken
  <2>3. AgentWork' \in {0, rest}
    BY <1>3, <2>1, <2>2, AgentWorkNext
  <2> QED
    BY <1>3, <1>4, <1>5, <2>1, <2>3
<1>10. CASE EndRefused \/ AgentDies \/ ErrorBodyRaises
  <2>1. pc' \in {"done", "died"}
    BY <1>10 DEF EndRefused, AgentDies, ErrorBodyRaises, Dies
  <2> QED
    BY <1>5, <2>1, AgentWorkNext
<1>11. CASE Silence
  <2>1. pc = "stream" /\ pc' = "silent"
    BY <1>11 DEF Silence
  <2>2. AgentWork' = 1 /\ AgentWork = work - 1 - resp.clock
    BY <1>4, <2>1, AgentWorkNext
  <2> QED
    BY <1>3, <1>4, <2>2
<1>12. QED
  BY <1>6, <1>7, <1>8, <1>9, <1>10, <1>11 DEF AgentNext

LEMMA CacheStepWorks ==
    ASSUME CacheTypeOK, CacheNext
    PROVE  CacheWork' \in 0..(CacheWork - 1)
<1>1. CacheRounds \in Nat /\ Len(rounds) \in Nat
  BY CacheAssumption DEF CacheTypeOK
<1>2. ASSUME at \in {"turn1", "wait1", "turn2", "wait2"} PROVE Len(rounds) < CacheRounds
  BY <1>2 DEF CacheTypeOK
<1>3. CASE Answer2
  <2>1. PICK report \in Reports : rounds' = Append(rounds, report)
    <3>1. rounds' = Append(rounds, [retained |-> Retained, kept |-> kept]) /\ kept \in BOOLEAN
      BY <1>3 DEF Answer2, CacheTypeOK
    <3>2. [retained |-> Retained, kept |-> kept] \in Reports
      BY <3>1 DEF Reports, Retained
    <3> QED
      BY <3>1, <3>2
  <2>2. Len(rounds') = Len(rounds) + 1
    <3>1. rounds \in Seq(Reports)
      BY DEF CacheTypeOK
    <3> QED
      BY <2>1, <3>1
  <2>3. at = "wait2" /\ at' \in {"done", "turn1"}
    BY <1>3 DEF Answer2
  <2> QED
    BY <1>1, <1>2, <2>2, <2>3 DEF CacheWork
<1>4. CASE CacheDies
  BY <1>1, <1>2, <1>4 DEF CacheDies, Raises, CacheWork
<1>5. CASE CacheTimeOut
  BY <1>1, <1>5 DEF CacheTimeOut, Raises, CacheWork
<1>6. CASE CacheSilence
  BY <1>1, <1>2, <1>6 DEF CacheSilence, CacheWork
<1>7. ASSUME SendTurn1 \/ (\E content \in Contents : Answer1(content)) \/ SendTurn2
      PROVE  CacheWork' \in 0..(CacheWork - 1)
  BY <1>1, <1>2, <1>7 DEF SendTurn1, Answer1, SendTurn2, CacheWork
<1>8. QED
  BY <1>3, <1>4, <1>5, <1>6, <1>7 DEF CacheNext

\* A run of agent-benchmark.py ends after a bounded number of steps if each of
\* them ends, whatever the server answers (1203-1251).
THEOREM AgentRunsAreBounded == Spec => AgentIsBounded
<1>1. ASSUME IInv, [Next]_allVars
      PROVE  [AgentWork' \in 0..(AgentWork - 1)]_agentVars
  <2>1. CASE AgentNext
    BY <1>1, <2>1, AgentStepWorks DEF IInv
  <2>2. AgentNext \/ UNCHANGED agentVars
    BY <1>1 DEF Next, allVars
  <2> QED
    BY <2>1, <2>2
<1>2. QED
  BY <1>1, Inductive, PTL DEF Spec, AgentIsBounded

\* So does a run of benchmark-agentic-cache.py (390-458).
THEOREM CacheRunsAreBounded == Spec => CacheIsBounded
<1>1. ASSUME IInv, [Next]_allVars
      PROVE  [CacheWork' \in 0..(CacheWork - 1)]_cacheVars
  <2>1. CASE CacheNext
    BY <1>1, <2>1, CacheStepWorks DEF IInv
  <2>2. CacheNext \/ UNCHANGED cacheVars
    BY <1>1 DEF Next, allVars
  <2> QED
    BY <2>1, <2>2
<1>2. QED
  BY <1>1, Inductive, PTL DEF Spec, CacheIsBounded
=============================================================================
