-------------------------- MODULE InferenceServer --------------------------
(***************************************************************************)
(* The inference server that both LLM benchmarks talk to (llama-server,    *)
(* halogen, Ollama or a cloud API).  It is not under src/: it is modelled  *)
(* from what the benchmarks expect of it, a server that keeps the prompts  *)
(* it worked on last and evaluates, of a new prompt, only what follows the *)
(* longest prefix it shares with one of them.  A prompt is a sequence of   *)
(* messages.  Which prompts the server forgets to make room is its choice, *)
(* except that it keeps the ones it is working on.                         *)
(***************************************************************************)
EXTENDS Naturals, SequencesExt

CONSTANT Slots      \* prompts kept, and requests worked on, at a time

ASSUME SlotsAssumption == Slots \in Nat \ {0}

VARIABLES
    cached,     \* the prompts kept, each with the reply it was given
    busy        \* those whose reply is still being generated

serverVars == <<cached, busy>>

ServerInit == cached = {} /\ busy = {}

\* How many of the messages of `p` need not be evaluated.
Reuse(p) ==
    Max({n \in 0..Len(p) :
            n = 0 \/ \E s \in cached : IsPrefix(SubSeq(p, 1, n), s)})

Keeps(p) == \E s \in cached : IsPrefix(p, s)

Admits == Cardinality(busy) < Slots

Remember(p) ==
    \E kept \in SUBSET cached :
       /\ busy \subseteq kept
       /\ Cardinality(kept) < Slots
       /\ cached' = kept \cup {p}

Prefill(p) == Admits /\ Remember(p) /\ busy' = busy \cup {p}

Generated(p, reply) ==
    /\ cached' = (cached \ {p}) \cup {Append(p, reply)}
    /\ busy' = busy \ {p}

\* The client is gone: generation stops.
Abandon(p) == busy' = busy \ {p} /\ UNCHANGED cached
=============================================================================
