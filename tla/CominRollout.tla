--------------------------- MODULE CominRollout ---------------------------
(***************************************************************************)
(* scripts/comin-approve.sh: the gatekeeper that waits for the canaries,   *)
(* which deploy by themselves, and then accepts the pending deployment on  *)
(* the hosts of the fleet one after the other, control plane first.        *)
(*                                                                         *)
(* The script only reads and accepts, over ssh, while comin and the gate   *)
(* go on by themselves on every host.  It stops at any probe that fails or *)
(* times out, and can be run again.                                        *)
(***************************************************************************)
EXTENDS CominHealthGate, Sequences, SequencesExt

CONSTANTS
    CanaryRing,     \* the canaries, in the order of CANARY_RING
    Order,          \* the fleet, in the order of ORDER
    Servers,        \* the hosts of the control plane
    ExpectVersion   \* EXPECT_VERSION is set, to the version of the new generation

ASSUME OrderAssumption ==
    /\ CanaryRing \in Seq(Hosts)
    /\ Order \in Seq(Hosts)
    /\ Len(CanaryRing) > 0
    /\ Len(Order) > 0
    /\ Range(CanaryRing) \subseteq AutoHosts
    /\ Range(Order) \cap AutoHosts = {}
    /\ \A i, j \in DOMAIN Order : Order[i] = Order[j] => i = j
    /\ ExpectVersion \in BOOLEAN

\* COMIN_ORDER=servers-first, the default.
ServersFirst ==
    \A i, j \in DOMAIN Order : Order[i] \in Servers /\ Order[j] \notin Servers => i < j

VARIABLES
    pc,         \* what the script does next, "idle" when it does not run
    ring,       \* the sequence of hosts it is walking
    at,         \* the position in it
    skipped     \* history: the hosts some run found nothing pending on

script == <<pc, ring, at>>
vars == <<hostVars, script, skipped>>

Host == ring[at]
Canaries == Range(CanaryRing)
Fleet == Range(Order)

\* The agents that the script accepts: a canary that is one deploys by itself.
FleetAgents == Fleet \ Servers

TypeOK ==
    /\ HostTypeOK
    /\ pc \in {"idle", "deploy", "suspended", "version", "precheck", "pending", "accept"}
    /\ ring \in {CanaryRing, Order}
    /\ at \in 1..Len(ring)
    /\ skipped \subseteq Fleet

Init ==
    /\ HostInit
    /\ pc = "idle"
    /\ ring = CanaryRing
    /\ at = 1
    /\ skipped = {}

----------------------------------------------------------------------------
Goto(p) == pc' = p /\ UNCHANGED <<ring, at>>

\* The script exits.
Exit == pc' = "idle" /\ ring' = CanaryRing /\ at' = 1

MutNextHost ==
    /\ at' = at + 1
    /\ pc' = IF ring = CanaryRing THEN "deploy" ELSE "pending"
    /\ UNCHANGED ring

\* The next host of the ring; after the canaries the fleet, and then the end.
NextHost ==
    \/ /\ at < Len(ring)
       /\ at' = at + 1
       /\ pc' = IF ring = CanaryRing THEN "deploy" ELSE "pending"
       /\ UNCHANGED ring
    \/ /\ at = Len(ring)
       /\ ring = CanaryRing
       /\ ring' = Order /\ at' = 1 /\ pc' = "precheck"
    \/ /\ at = Len(ring)
       /\ ring = Order
       /\ Exit

Start ==
    /\ pc = "idle"
    /\ Goto("deploy")
    /\ UNCHANGED <<hostVars, skipped>>

\* A timeout, a host that cannot be read, an ssh that fails, ^C.
Abort ==
    /\ pc # "idle"
    /\ Exit
    /\ UNCHANGED <<hostVars, skipped>>

\* wait_for deploy_status: the status may be that of the deployment before.
DeployDone ==
    /\ pc = "deploy"
    /\ status[Host] = "done"
    /\ Goto("suspended")
    /\ UNCHANGED <<hostVars, skipped>>

MutHealthy ==
    /\ pc = "suspended"
    /\ Host \notin suspended
    /\ NextHost
    /\ UNCHANGED <<hostVars, skipped>>

\* is_suspended: a host that the gate or an operator has suspended aborts the run.
\* Then the node is Ready (it stays so across a restart of k3s); wait_version is
\* only for the fleet, and only with EXPECT_VERSION.
Healthy ==
    /\ pc = "suspended"
    /\ Host \notin suspended
    /\ IF ring = Order /\ ExpectVersion THEN Goto("version") ELSE NextHost
    /\ UNCHANGED <<hostVars, skipped>>

MutVersionReached ==
    /\ pc = "version"
    /\ NextHost
    /\ UNCHANGED <<hostVars, skipped>>

\* wait_version: the one probe that tells the new deployment from the one before.
VersionReached ==
    /\ pc = "version"
    /\ system[Host] = "new"
    /\ NextHost
    /\ UNCHANGED <<hostVars, skipped>>

\* Something is pending somewhere; otherwise the script exits with 0.
Precheck ==
    /\ pc = "precheck"
    /\ IF pending \cap Fleet = {} THEN Exit ELSE Goto("pending")
    /\ UNCHANGED <<hostVars, skipped>>

Pending ==
    /\ pc = "pending"
    /\ IF Host \in pending
         THEN Goto("accept") /\ UNCHANGED skipped
         ELSE NextHost /\ skipped' = skipped \cup {Host}
    /\ UNCHANGED hostVars

\* The ssh may also fail after it was accepted.
Accept ==
    /\ pc = "accept"
    /\ Confirm(Host)
    /\ Goto("deploy") \/ Exit
    /\ UNCHANGED skipped

----------------------------------------------------------------------------
Script ==
    \/ Start \/ Abort \/ DeployDone \/ Healthy \/ VersionReached
    \/ Precheck \/ Pending \/ Accept

HostsNext ==
    /\ \E h \in Hosts :
          \/ HostStep(h)
          \/ Fetch(h)
          \/ ByHand(h)
    /\ UNCHANGED <<script, skipped>>

Next == Script \/ HostsNext

Spec == Init /\ [][Next]_vars /\ HostFairness

----------------------------------------------------------------------------
\* "The Kubernetes skew policy lets servers run newer than agents and never the
\* reverse" (13-18).
SkewRespected ==
    \A a \in FleetAgents, s \in Servers \cap Fleet : system[a] = "new" => system[s] = "new"

\* With EXPECT_VERSION, an agent of the fleet runs the new generation before a
\* server only if some run found nothing pending on that server, or the gate
\* rolled it back.
SkewExplained ==
    \A a \in FleetAgents, s \in Servers \cap Fleet :
        system[a] = "new" => system[s] = "new" \/ s \in skipped \cup rolledBack

\* A host of the fleet has the deployment still before it, or in progress.
Deploying(h) == (h \in queued \/ status[h] = "running") /\ system[h] = "old"

\* "Accept the fleet in order, waiting for each to converge" (246): with
\* EXPECT_VERSION at most one host of the fleet is on its way to the new
\* generation, whatever order was chosen, however often runs are cut short and
\* repeated, and although the status a run waits for (261) may be that of the
\* deployment before.  Not counted is a host that some run found nothing pending
\* on, like one that an earlier run accepted and did not wait for.
OneByOne ==
    \A g, h \in Fleet \ skipped : Deploying(g) /\ Deploying(h) => g = h
=============================================================================
