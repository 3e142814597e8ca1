-------------------------- MODULE CominHealthGate --------------------------
(***************************************************************************)
(* comin on each host, and the health gate that it runs after every        *)
(* deployment (modules/nixos/comin-health-gate.nix).                       *)
(*                                                                         *)
(* There is one new generation to deploy.  A host with confirmerMode auto  *)
(* deploys what it fetches, the others submit it and wait for `comin       *)
(* confirmation accept`.  comin is external: it deploys one submission at  *)
(* a time, shows the status of the last one until the next one starts, and *)
(* runs the gate once that status is known.                                *)
(*                                                                         *)
(* The health checks are choices: they pass, heal, or give up.  Commands   *)
(* of the comin client may fail, which the gate ignores (no set -e).       *)
(***************************************************************************)
EXTENDS Integers

CONSTANTS
    Hosts,
    AutoHosts,  \* the hosts with confirmerMode = "auto"
    Fresh,      \* the hosts whose comin may have shown no deployment yet since it started
    Flagged,    \* the hosts that may start with the retry flag of an earlier generation
    Held        \* the hosts that the operator may suspend by hand

ASSUME AutoAssumption ==
    /\ AutoHosts \subseteq Hosts
    /\ Fresh \subseteq Hosts
    /\ Flagged \subseteq Hosts
    /\ Held \subseteq Hosts

VARIABLES
    fetched,    \* the hosts that have fetched the new generation
    pending,    \* deploy_confirmer: submitted, not yet confirmed
    queued,     \* a deployment has been submitted to the deployer
    status,     \* deployer.deployment.status
    system,     \* /run/current-system is the old or the new generation
    suspended,  \* the deployer is suspended
    gate,       \* the status the gate was called with, while it runs
    retryFlag,  \* RETRY_FLAG exists
    rolledBack  \* history: the hosts the gate gave up on

deployer == <<fetched, pending, queued>>
hostVars == <<deployer, status, system, suspended, gate, retryFlag, rolledBack>>

HostTypeOK ==
    /\ fetched \subseteq Hosts
    /\ pending \subseteq Hosts
    /\ queued \subseteq Hosts
    /\ status \in [Hosts -> {"none", "running", "done", "failed"}]
    /\ system \in [Hosts -> {"old", "new"}]
    /\ suspended \subseteq Hosts
    /\ gate \in [Hosts -> {"idle", "done", "failed"}]
    /\ retryFlag \subseteq Hosts
    /\ rolledBack \subseteq Hosts

\* Before the new generation is pushed: the last deployment is shown as done, or
\* none since comin started, and an earlier generation may have left a host
\* suspended, or with a retry flag that no call of the gate has removed since.
HostInit ==
    /\ fetched = {}
    /\ pending = {}
    /\ queued = {}
    /\ \E started \in SUBSET Fresh :
          status = [h \in Hosts |-> IF h \in started THEN "none" ELSE "done"]
    /\ system = [h \in Hosts |-> "old"]
    /\ suspended \in SUBSET Hosts
    /\ gate = [h \in Hosts |-> "idle"]
    /\ retryFlag \in SUBSET Flagged
    /\ rolledBack = {}

----------------------------------------------------------------------------
\* The poller of a host sees the new generation, and comin builds it.
Fetch(h) ==
    /\ h \notin fetched
    /\ fetched' = fetched \cup {h}
    /\ IF h \in AutoHosts
         THEN queued' = queued \cup {h} /\ UNCHANGED pending
         ELSE pending' = pending \cup {h} /\ UNCHANGED queued
    /\ UNCHANGED <<status, system, suspended, gate, retryFlag, rolledBack>>

\* `comin confirmation accept`.
Confirm(h) ==
    /\ pending' = pending \ {h}
    /\ queued' = IF h \in pending THEN queued \cup {h} ELSE queued
    /\ UNCHANGED <<fetched, status, system, suspended, gate, retryFlag, rolledBack>>

Begin(h) ==
    /\ h \in queued \ suspended
    /\ gate[h] = "idle"
    /\ status[h] # "running"
    /\ queued' = queued \ {h}
    /\ status' = [status EXCEPT ![h] = "running"]
    /\ UNCHANGED <<fetched, pending, system, suspended, gate, retryFlag, rolledBack>>

Ends(h, s) ==
    /\ status[h] = "running"
    /\ status' = [status EXCEPT ![h] = s]
    /\ gate' = [gate EXCEPT ![h] = s]
    /\ UNCHANGED <<deployer, suspended, retryFlag, rolledBack>>

Switch(h) ==
    /\ Ends(h, "done")
    /\ system' = [system EXCEPT ![h] = "new"]

\* A switch that dies in the middle may or may not have moved current-system.
SwitchFails(h) ==
    /\ Ends(h, "failed")
    /\ system' \in {system, [system EXCEPT ![h] = "new"]}

----------------------------------------------------------------------------
\* The gate returns, and comin goes on.
Leave(h) == gate' = [gate EXCEPT ![h] = "idle"]

\* `comin suspend`, which may fail.
Suspend(h) == suspended' \in {suspended, suspended \cup {h}}

MutRetry(h) ==
    /\ gate[h] = "failed"
    /\ Leave(h)
    /\ queued' \in {queued, queued \cup {h}}
    /\ UNCHANGED <<fetched, pending, status, system, suspended, retryFlag, rolledBack>>

\* failed, for the first time: submit the latest generation once more.
Retry(h) ==
    /\ gate[h] = "failed"
    /\ h \notin retryFlag
    /\ Leave(h)
    /\ retryFlag' = retryFlag \cup {h}
    /\ queued' \in {queued, queued \cup {h}}
    /\ UNCHANGED <<fetched, pending, status, system, suspended, rolledBack>>

\* failed again: suspend, never roll back.
GiveUpRetrying(h) ==
    /\ gate[h] = "failed"
    /\ h \in retryFlag
    /\ Leave(h)
    /\ retryFlag' = retryFlag \ {h}
    /\ Suspend(h)
    /\ UNCHANGED <<deployer, status, system, rolledBack>>

\* done, and every check passes or heals.
GatePasses(h) ==
    /\ gate[h] = "done"
    /\ Leave(h)
    /\ retryFlag' = retryFlag \ {h}
    /\ UNCHANGED <<deployer, status, system, suspended, rolledBack>>

\* done, and a check gives up.  Without a previous generation that still exists
\* (nix-sweep may have collected it), or when its switch fails, the host stays on
\* the new one.
RollbackAndSuspend(h) ==
    /\ gate[h] = "done"
    /\ Leave(h)
    /\ retryFlag' = retryFlag \ {h}
    /\ rolledBack' = rolledBack \cup {h}
    /\ system' \in {system, [system EXCEPT ![h] = "old"]}
    /\ Suspend(h)
    /\ UNCHANGED <<deployer, status>>

\* An operator runs `comin suspend` to hold a host back, or `comin resume` to let
\* it go on, at any time (comin-approve.sh:24-27 asks for both on a canary).
SuspendByHand(h) ==
    /\ h \in Held \ suspended
    /\ suspended' = suspended \cup {h}
    /\ UNCHANGED <<deployer, status, system, gate, retryFlag, rolledBack>>

Resume(h) ==
    /\ h \in suspended
    /\ suspended' = suspended \ {h}
    /\ UNCHANGED <<deployer, status, system, gate, retryFlag, rolledBack>>

ByHand(h) == SuspendByHand(h) \/ Resume(h)

----------------------------------------------------------------------------
\* What comin and the gate do by themselves.
HostStep(h) ==
    \/ Begin(h)
    \/ Switch(h)
    \/ SwitchFails(h)
    \/ Retry(h)
    \/ GiveUpRetrying(h)
    \/ GatePasses(h)
    \/ RollbackAndSuspend(h)

\* The deployer works, switches end, and every wait of the gate is bounded.
HostFairness == \A h \in Hosts : WF_hostVars(HostStep(h))

\* Nothing is being deployed or checked on this host.
Settled(h) == (h \notin queued \/ h \in suspended) /\ status[h] # "running" /\ gate[h] = "idle"

\* At most how many steps of comin and the gate the new generation can still
\* cause on a host: a deployment that fails costs three, and its retry three
\* more, which the retry flag must pay for (an absent one stands for three).
WorkLeft(h) ==
    LET due(steps, cond) == IF cond THEN steps ELSE 0
    IN  due(6, h \notin fetched) + due(6, h \in pending) + due(6, h \in queued)
        + due(5, status[h] = "running") + due(4, gate[h] # "idle")
        + due(3, h \notin retryFlag)

\* Every step of comin and the gate uses up some of that work and nothing adds
\* to it, not even an accept or a resume between a failure and its retry: each
\* generation is tried a bounded number of times (the retry flag, 200-217).
RetriesAreBounded ==
    [][\A h \in Hosts :
          /\ WorkLeft(h)' <= WorkLeft(h)
          /\ HostStep(h) => WorkLeft(h)' < WorkLeft(h)]_hostVars

\* The gate's retries end: a host on which every switch fails does not deploy
\* for ever (the retry flag, 200-217).
RetriesEnd == \A h \in Hosts : []<>Settled(h)
=============================================================================
